SPECIFICATION Spec
CONSTANTS
  Tickets = {t1, t2, t3}
  Reps = {r1, r2, r3}
  Counters = {c1}
  Operators = {o1}
  Staff = staff
  None = None
  MaxDay = 1
  MaxSequence = 4
SYMMETRY Symmetry
INVARIANTS
  TypeOK
  PositionIsCallRank
PROPERTY NewcomersQueueBehind
