SPECIFICATION ScreensSpec
CONSTANTS
  Tickets = {t1, t2}
  Reps = {r1, r2}
  Counters = {c1}
  Operators = {o1}
  Staff = staff
  None = None
  MaxDay = 1
  MaxSequence = 2
SYMMETRY Symmetry
INVARIANTS
  ScreensTypeOK
  OfferedMeansAccepted
  OpenTicketIsOnHerPage
