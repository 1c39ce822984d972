\* Two threads and a third they may create, two installations.
CONSTANTS
  Kinds = {"raw", "call", "pop"}
  Threads = {1, 2, 3}
  First = {1, 2}
  MaxAttempts = 2
  MaxInstalls = 2
  MaxCalls = 2
SPECIFICATION Spec
CHECK_DEADLOCK FALSE
INVARIANT NoThreadIsCaught
INVARIANT PatchIsKnown
