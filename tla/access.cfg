SPECIFICATION AccessSpec
CONSTANTS
  Calls = {c1, c2}
  Throttled = {"staff"}
  MaxFailures = 1
  Window = 1
  DayLength = 3
  MinSession = 2
  EntryLife = 3
  MaxVersion = 1
  None = None
INVARIANTS
  GuestSessionIsAGuests
  SessionEndsWithItsDay
  LockOvershootIsBounded
PROPERTIES
  LockLifts
  DeadSessionReturnsToLogin
