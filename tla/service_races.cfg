SPECIFICATION CSpec
CONSTANTS
  Tickets = {t1, t2}
  Reps = {r1, r2}
  Counters = {c1, c2}
  Operators = {o1}
  Staff = staff
  None = None
  MaxDay = 1
  MaxSequence = 2
  Procs = {p1}
  Overlapping = {"startService", "finishService", "noShow", "advanceToInService",
    "completeService", "correct", "staffPause", "staffResume", "expireCall",
    "openCounter", "forceRelease", "callNext"}
SYMMETRY Symmetry
INVARIANTS
  CTypeOK
  QueuedTicketsHoldNoCounter
  OneOpenTicketPerOperator
PROPERTY ServiceLostOnlyToARelease
CONSTRAINT NoPriorities
