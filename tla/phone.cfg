SPECIFICATION ScreenSpec
CONSTANTS
  Tickets = {t1, t2}
  Reps = {re}
  Me = re
  Operators = {o1}
  None = None
  LinkEntry = TRUE
  Overlap = FALSE
INVARIANTS
  ScreenTypeOK
  FinalScreenIsFinal
PROPERTIES
  ReloadNeverEnqueues
  ScreenSettles
  ScreenCatchesUp
  LastingCallRings
