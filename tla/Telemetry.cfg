\* Drains, unloads and every failure, with one emitter of each kind.
CONSTANTS
  External = {x1}
  Capacity = 2
  Reserve = 1
  MaxSequence = 4
  WriteMayFail = TRUE
  SpawnMayFail = TRUE
SPECIFICATION FairSpec
CHECK_DEADLOCK FALSE
INVARIANT NumbersAreExact
INVARIANT NoneWaitsForEver
PROPERTY DrainEndsOnce
PROPERTY AcceptedIsWritten
