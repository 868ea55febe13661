SPECIFICATION IntegrationSpec
CONSTANTS
  Tickets = {t1, t2}
  Reps = {r1}
  Counters = {c1}
  Operators = {o1}
  Staff = staff
  None = None
  MaxDay = 2
  MaxSequence = 3
  Requests = {q1}
SYMMETRY Symmetry
INVARIANTS
  TrailBalances
  MetricsAgreeWithPanel
PROPERTY RefusedMeansNotDone
CONSTRAINTS NoPriorities FewPlacesAfterMidnight
