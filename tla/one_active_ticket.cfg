SPECIFICATION CSpec
CONSTANTS
  Tickets = {t1, t2}
  Reps = {r1}
  Counters = {c1}
  Operators = {o1}
  Staff = staff
  None = None
  MaxDay = 2
  MaxSequence = 2
  Procs = {p1}
  Overlapping = {"create", "restore", "openDay", "expirePause"}
SYMMETRY Symmetry
INVARIANTS
  OneActivePerRep
  PlacesAreUnique
