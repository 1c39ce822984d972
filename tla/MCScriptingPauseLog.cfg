\* The result of a pause in a game that goes on being loaded.
CONSTANTS
  Capacity = 1
  MaxEvents = 2
  MaxRequests = 1
  LoadMayFail = FALSE
  WorkerMayFail = FALSE
  ErrorLimit = 1
  MaxScheduled = 0
  MaxDays = 1
  MaxDate = 0
  MaxCallbacks = 0
SPECIFICATION MCSpec
CHECK_DEADLOCK FALSE
PROPERTY AppliedIsLogged
