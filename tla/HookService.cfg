SPECIFICATION Spec
CONSTANTS
  QueueCapacity = 1
  SessionSlots = 3
  ObservationSlots = 2
  SubscriptionSlots = 1
  Games = {1, 2}
  Wanted = {"pop", "consumption"}
  FirstDrained = "consumption"
  MaxEpoch = 2
  MaxHandles = 3
  MaxFlows = 2
  MaxFaults = 2
INVARIANTS NothingIsLeftOver DrainIsHonest
PROPERTIES ReadsAreOfThisGame
CHECK_DEADLOCK FALSE
