SPECIFICATION AdminSpec
CONSTANTS
  Tickets = {t1, t2}
  Reps = {r1, r2}
  Counters = {c1}
  Operators = {o1}
  Staff = staff
  None = None
  MaxDay = 1
  MaxSequence = 3
PROPERTIES
  ImplementsDesk
  OverdueCallEnds
  OverduePauseEnds
