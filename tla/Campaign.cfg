\* One registration after another, over two games, with every failure.
CONSTANTS
  SessionSlots = 1
  LeaseSlots = 1
  MaxRefs = 2
  MaxEpoch = 1
  MaxControllers = 1
  MaxSessions = 2
  MaxLeases = 1
  MaxAutomations = 2
  InstallMayFail = TRUE
  OneRegistrant = TRUE
SPECIFICATION FairSpec
CHECK_DEADLOCK FALSE
INVARIANT NoCallAfterEnd
INVARIANT CapturedIsAlive
INVARIANT OwnersAgree
PROPERTY EveryCallReturns
