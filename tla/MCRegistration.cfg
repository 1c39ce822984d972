\* Two dispatchers that between them saturate a slot's count, whose callbacks
\* may themselves unregister, and two plugins that come and go.
CONSTANTS
  SlotCount = 2
  MaxRefs = 1
  MaxHandle = 2
  Dispatchers = {d1, d2}
  Clients = {c1, c2}
  NoReuseInRace = TRUE
SPECIFICATION Spec
SYMMETRY Symmetry
\* Threads need not start another call.
CHECK_DEADLOCK FALSE
INVARIANT NoCallAfterUnregister
INVARIANT SlotsAreExact
PROPERTY UnregisterIsExact
PROPERTY EveryLiveCallbackRuns
PROPERTY ImplementsCallbackRegistry
