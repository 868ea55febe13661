SPECIFICATION BoardSpec
CONSTANTS
  Tickets = {t1}
  Reps = {r1}
  Counters = {c1}
  Operators = {o1}
  Staff = staff
  None = None
  MaxDay = 1
  MaxSequence = 2
  Clients = {"panel", "dashboard"}
  MaxReloads = 2
PROPERTIES
  ChangesAreAnnounced
  BoardCatchesUp
  RevokedScreenGoesDark
