SPECIFICATION CSpec
CONSTANTS
  Tickets = {t1, t2}
  Reps = {r1, r2}
  Counters = {c1}
  Operators = {o1, o2}
  Staff = staff
  None = None
  MaxDay = 1
  MaxSequence = 3
  Procs = {p1, p2}
  Overlapping = {"callNext", "closeCounter", "expirePause", "closeDay"}
SYMMETRY Symmetry
INVARIANT CounterServesItsTicket
PROPERTY NewcomersQueueBehind
