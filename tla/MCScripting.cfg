\* Every failure, a ring that fills and wraps, requests that follow each other;
\* three dates, so that callbacks fall due together and apart, in any order.
CONSTANTS
  Capacity = 2
  MaxEvents = 4
  MaxRequests = 3
  LoadMayFail = TRUE
  WorkerMayFail = TRUE
  ErrorLimit = 3
  MaxScheduled = 2
  MaxDays = 2
  MaxDate = 2
  MaxCallbacks = 3
SPECIFICATION MCSpec
CHECK_DEADLOCK FALSE
INVARIANT OnePauseAtATime
INVARIANT EventsInOrder
PROPERTY NoPauseLostOrLate
PROPERTY WorkIsDone
PROPERTY ScheduleIsKept
