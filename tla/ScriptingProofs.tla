---------------------------- MODULE ScriptingProofs ----------------------------
(***************************************************************************)
(* Theorems about Scripting, for a ring of any size and any number of      *)
(* events and requests: one pause at a time, none lost or begun after      *)
(* unload, and the accepted events processed once and in order.  And about *)
(* ScriptSchedule, for any limits: no scheduled callback is lost, run      *)
(* twice or run early.                                                     *)
(***************************************************************************)
EXTENDS Scripting, ScriptSchedule, FiniteSetTheorems, SequenceTheorems, TLAPS

-----------------------------------------------------------------------------
(* The threads.                                                            *)

\* The steps of each thread, with the callback's entry and the scripts' request.
Mains   == MainStep \/ CloseSlot
Games   == DailyUpdate \/ GameStep
Workers == RequestPause \/ WorkerStep

LEMMA StepsOfThreads == Next => Mains \/ Games \/ Workers \/ WakeSpuriously
  BY DEF Next, Mains, Games, Workers

LEMMA MainsKeepLife ==
  ASSUME ThreadType, LifeInOrder, Mains
  PROVE  ThreadType' /\ LifeInOrder'
  <1> USE DEF GoesMain, stop, worker
  <1>1. gamePc' = gamePc
    BY DEF Mains, MainStep, Load, Started, StartFails, Register, RegisterFails, CloseSlot,
           Unregister, Drained, CancelRequest, NotifyCancel, Stop, NotifyStop, Join
  <1>2. /\ mainPc' \in MainPcs /\ workerPc' \in WorkerPcs /\ mutex' \in {"none", "worker"}
        /\ workerFailed' = workerFailed
    BY DEF Mains, MainStep, Load, Started, StartFails, Register, RegisterFails, CloseSlot,
           Unregister, Drained, CancelRequest, NotifyCancel, Stop, NotifyStop, Join, ThreadType,
           MainPcs, WorkerPcs
  <1>3. asleep' \in BOOLEAN /\ registered' \in BOOLEAN /\ stopping' \in BOOLEAN
    BY DEF Mains, MainStep, Load, Started, StartFails, Register, RegisterFails, CloseSlot,
           Unregister, Drained, CancelRequest, NotifyCancel, Stop, NotifyStop, Join, ThreadType
  <1>4. alive' \in BOOLEAN /\ cancelled' \in BOOLEAN
    BY DEF Mains, MainStep, Load, Started, StartFails, Register, RegisterFails, CloseSlot,
           Unregister, Drained, CancelRequest, NotifyCancel, Stop, NotifyStop, Join, ThreadType
  <1>5. ThreadType'
    BY <1>1, <1>2, <1>3, <1>4 DEF ThreadType
  <1> USE DEF LifeInOrder, ThreadType, slot
  <1>6. CASE Load
    BY <1>5, <1>6 DEF Load
  <1>7. CASE Started
    BY <1>5, <1>7 DEF Started
  <1>8. CASE StartFails
    BY <1>5, <1>8 DEF StartFails
  <1>9. CASE Register
    BY <1>5, <1>9 DEF Register
  <1>10. CASE RegisterFails
    BY <1>5, <1>10 DEF RegisterFails
  <1>11. CASE CloseSlot
    BY <1>5, <1>11 DEF CloseSlot
  <1>12. CASE Unregister
    BY <1>5, <1>12 DEF Unregister
  <1>13. CASE Drained
    BY <1>5, <1>13 DEF Drained
  <1>14. CASE CancelRequest
    BY <1>5, <1>14 DEF CancelRequest
  <1>15. CASE NotifyCancel
    BY <1>5, <1>15 DEF NotifyCancel
  <1>16. CASE Stop
    BY <1>5, <1>16 DEF Stop
  <1>17. CASE NotifyStop
    BY <1>5, <1>17 DEF NotifyStop
  <1>18. CASE Join
    BY <1>5, <1>18 DEF Join
  <1> QED BY <1>5, <1>6, <1>7, <1>8, <1>9, <1>10, <1>11, <1>12, <1>13, <1>14, <1>15, <1>16, <1>17, <1>18 DEF Mains, MainStep

LEMMA GamesKeepLife ==
  ASSUME ThreadType, LifeInOrder, Games
  PROVE  ThreadType' /\ LifeInOrder'
  <1> USE DEF ThreadType, LifeInOrder, GoesGame, stop, main, worker, slot, GamePcs
  <1>1. ThreadType'
    BY DEF Games, GameStep, DailyUpdate, ClaimRequest, NoRequestToApply, SetPaused, ReportResult,
           NotifyResult, TryPush, DropEvent, PushEvent, NotifyPush
  <1>2. LifeInOrder'
    BY DEF Games, GameStep, DailyUpdate, ClaimRequest, NoRequestToApply, SetPaused, ReportResult,
           NotifyResult, TryPush, DropEvent, PushEvent, NotifyPush
  <1> QED BY <1>1, <1>2

LEMMA WorkersKeepLife ==
  ASSUME ThreadType, LifeInOrder, Workers
  PROVE  ThreadType' /\ LifeInOrder'
  <1> USE DEF ThreadType, LifeInOrder, GoesWorker, stop, main, worker, slot, WorkerPcs, InLua
  <1>1. ThreadType'
    BY DEF Workers, WorkerStep, RequestPause, ScriptsLoaded, ScriptsFail, EventProcessed, WorkerFails,
           ScriptsUnloaded, PollResult, LogResult, FreeSlot, PopEvent, PopNothing, LockQueue,
           TestPredicate, Block, Wake
  <1>2. LifeInOrder'
    BY DEF Workers, WorkerStep, RequestPause, ScriptsLoaded, ScriptsFail, EventProcessed, WorkerFails,
           ScriptsUnloaded, PollResult, LogResult, FreeSlot, PopEvent, PopNothing, LockQueue,
           TestPredicate, Block, Wake
  <1> QED BY <1>1, <1>2

LEMMA LifeKept ==
  ASSUME ThreadType, LifeInOrder, [Next]_vars
  PROVE  ThreadType' /\ LifeInOrder'
  <1>1. CASE WakeSpuriously \/ UNCHANGED vars
    <2>1. UNCHANGED <<request, stop, mutex, main, gamePc, workerPc>> /\ asleep' \in BOOLEAN
      BY <1>1 DEF WakeSpuriously, vars, slot, worker, ThreadType
    <2>2. ThreadType'
      BY <2>1 DEF ThreadType, stop, main
    <2> QED BY <2>1, <2>2 DEF LifeInOrder, stop, main
  <1> QED BY <1>1, StepsOfThreads, MainsKeepLife, GamesKeepLife, WorkersKeepLife

-----------------------------------------------------------------------------
(* The slot.                                                               *)

Places == InOnePlace /\ PlaceIsKnown

\* A step that leaves the slot, the place of its request and the histories.
LeavesSlot ==
  /\ UNCHANGED <<slot, result, reporting, cancelled, taken, applied, logged>>
  /\ Pausing' = Pausing /\ Answering' = Answering /\ Reporting' = Reporting /\ Finishing' = Finishing
  /\ Asked' = Asked /\ (mainPc' = "start" => mainPc = "start")

LEMMA CurrentIsOne ==
  ASSUME SlotType, TakenInTurn, current \in taken
  PROVE  current # NoRequest
  BY DEF SlotType, TakenInTurn, Requests, NoRequest

\* With the last request logged all are.
LEMMA AllLogged ==
  ASSUME SlotType, TakenInTurn, current \in logged \/ current = NoRequest
  PROVE  taken = logged
  <1>1. current \in Nat /\ taken = 1 .. current /\ (1 .. current - 1) \subseteq logged /\ logged \subseteq taken
    BY ScriptingAssumption DEF SlotType, TakenInTurn, Requests, NoRequest
  <1>2. CASE current = NoRequest
    BY <1>1, <1>2 DEF NoRequest
  <1>3. CASE current \in logged
    <2>1. ASSUME NEW r \in 1 .. current PROVE r \in logged
      <3>1. r = current \/ r \in 1 .. current - 1
        BY <1>1
      <3> QED BY <1>1, <1>3, <3>1
    <2> QED BY <1>1, <2>1
  <1> QED BY <1>2, <1>3

LEMMA LeavesSlotKeeps ==
  ASSUME SlotInv, LeavesSlot
  PROVE  SlotInv'
  BY DEF SlotInv, LeavesSlot, SlotType, InOnePlace, PlaceIsKnown, TakenInTurn, SlotHeldUntilLogged,
         OneFate, Answered, slot

LEMMA QuietSteps ==
  ASSUME ThreadType, LifeInOrder,
         \/ Started \/ Register \/ Unregister \/ Drained \/ NotifyCancel \/ Stop \/ NotifyStop \/ Join
         \/ DailyUpdate \/ NoRequestToApply \/ NotifyResult \/ TryPush \/ DropEvent \/ PushEvent
         \/ NotifyPush \/ ScriptsLoaded \/ ScriptsFail \/ EventProcessed \/ WorkerFails
         \/ ScriptsUnloaded \/ PopEvent \/ PopNothing \/ LockQueue \/ TestPredicate \/ Block \/ Wake
         \/ WakeSpuriously \/ UNCHANGED vars
  PROVE  LeavesSlot
  <1> USE DEF LeavesSlot, Asked, Pausing, Answering, Reporting, Finishing, slot, history, main, worker,
              GoesMain, GoesGame, GoesWorker, LifeInOrder
  <1>1. CASE Started \/ Register \/ Unregister \/ Drained \/ NotifyCancel \/ Stop \/ NotifyStop \/ Join
    BY <1>1 DEF Started, Register, Unregister, Drained, NotifyCancel, Stop, NotifyStop, Join
  <1>2. CASE DailyUpdate \/ NoRequestToApply \/ NotifyResult \/ TryPush \/ DropEvent \/ PushEvent
             \/ NotifyPush
    BY <1>2 DEF DailyUpdate, NoRequestToApply, NotifyResult, TryPush, DropEvent, PushEvent, NotifyPush
  <1>3. CASE ScriptsLoaded \/ ScriptsFail \/ EventProcessed \/ WorkerFails \/ ScriptsUnloaded
             \/ PopEvent \/ PopNothing \/ LockQueue \/ TestPredicate \/ Block \/ Wake
    BY <1>3 DEF ScriptsLoaded, ScriptsFail, EventProcessed, WorkerFails, ScriptsUnloaded, PopEvent,
                PopNothing, LockQueue, TestPredicate, Block, Wake
  <1>4. CASE WakeSpuriously \/ UNCHANGED vars
    BY <1>4 DEF WakeSpuriously, vars
  <1> QED BY <1>1, <1>2, <1>3, <1>4

LEMMA LoadKeepsSlot ==
  ASSUME ThreadType, LifeInOrder, SlotInv, Load
  PROVE  SlotInv'
  <1> USE DEF SlotInv, Asked, Pausing, Answering, Answered, Reporting, Finishing, slot, worker, main,
              history, GoesMain, GoesGame, GoesWorker, Load
  <1>1. SlotType'
    BY DEF SlotType, PlaceIsKnown, TakenInTurn
  <1>2. InOnePlace'
    BY DEF SlotType, ThreadType, LifeInOrder, InOnePlace, PlaceIsKnown, TakenInTurn
  <1>3. PlaceIsKnown'
    BY DEF SlotType, ThreadType, LifeInOrder, InOnePlace, PlaceIsKnown, TakenInTurn
  <1>4. TakenInTurn'
    <2>1. taken = logged /\ mainPc' # "start" /\ ~cancelled /\ ~cancelled'
      BY AllLogged DEF TakenInTurn, LifeInOrder
    <2> QED BY <2>1 DEF TakenInTurn, SlotHeldUntilLogged, OneFate
  <1> QED BY <1>1, <1>2, <1>3, <1>4

LEMMA StartFailsKeepsSlot ==
  ASSUME ThreadType, LifeInOrder, SlotInv, StartFails
  PROVE  SlotInv'
  <1> USE DEF SlotInv, Asked, Pausing, Answering, Answered, Reporting, Finishing, slot, worker, main,
              history, GoesMain, GoesGame, GoesWorker, StartFails
  <1>1. SlotType'
    BY DEF SlotType, PlaceIsKnown, TakenInTurn
  <1>2. InOnePlace'
    BY DEF SlotType, ThreadType, LifeInOrder, InOnePlace, PlaceIsKnown, TakenInTurn
  <1>3. PlaceIsKnown'
    BY DEF SlotType, ThreadType, LifeInOrder, InOnePlace, PlaceIsKnown, TakenInTurn
  <1>4. TakenInTurn'
    BY DEF SlotType, ThreadType, LifeInOrder, InOnePlace, PlaceIsKnown, TakenInTurn,
           SlotHeldUntilLogged, OneFate
  <1> QED BY <1>1, <1>2, <1>3, <1>4

LEMMA RegisterFailsKeepsSlot ==
  ASSUME ThreadType, LifeInOrder, SlotInv, RegisterFails
  PROVE  SlotInv'
  <1> USE DEF SlotInv, Asked, Pausing, Answering, Answered, Reporting, Finishing, slot, worker, main,
              history, GoesMain, GoesGame, GoesWorker, RegisterFails
  <1>1. SlotType'
    BY DEF SlotType, PlaceIsKnown, TakenInTurn
  <1>2. InOnePlace'
    BY DEF SlotType, ThreadType, LifeInOrder, InOnePlace, PlaceIsKnown, TakenInTurn
  <1>3. PlaceIsKnown'
    BY DEF SlotType, ThreadType, LifeInOrder, InOnePlace, PlaceIsKnown, TakenInTurn
  <1>4. TakenInTurn'
    BY DEF SlotType, ThreadType, LifeInOrder, InOnePlace, PlaceIsKnown, TakenInTurn,
           SlotHeldUntilLogged, OneFate
  <1> QED BY <1>1, <1>2, <1>3, <1>4

LEMMA CloseSlotKeepsSlot ==
  ASSUME ThreadType, LifeInOrder, SlotInv, CloseSlot
  PROVE  SlotInv'
  <1> USE DEF SlotInv, Asked, Pausing, Answering, Answered, Reporting, Finishing, slot, worker, main,
              history, GoesMain, GoesGame, GoesWorker, CloseSlot
  <1>1. SlotType'
    BY DEF SlotType, PlaceIsKnown, TakenInTurn
  <1>2. InOnePlace'
    BY DEF SlotType, ThreadType, LifeInOrder, InOnePlace, PlaceIsKnown, TakenInTurn
  <1>3. PlaceIsKnown'
    BY DEF SlotType, ThreadType, LifeInOrder, InOnePlace, PlaceIsKnown, TakenInTurn
  <1>4. TakenInTurn'
    BY DEF SlotType, ThreadType, LifeInOrder, InOnePlace, PlaceIsKnown, TakenInTurn,
           SlotHeldUntilLogged, OneFate
  <1> QED BY <1>1, <1>2, <1>3, <1>4

LEMMA CancelRequestKeepsSlot ==
  ASSUME ThreadType, LifeInOrder, SlotInv, CancelRequest
  PROVE  SlotInv'
  <1> USE DEF SlotInv, Asked, Pausing, Answering, Answered, Reporting, Finishing, slot, worker, main,
              history, GoesMain, GoesGame, GoesWorker, CancelRequest
  <1>1. SlotType'
    BY DEF SlotType, PlaceIsKnown, TakenInTurn
  <1>2. InOnePlace'
    BY DEF SlotType, ThreadType, LifeInOrder, InOnePlace, PlaceIsKnown, TakenInTurn
  <1>3. PlaceIsKnown'
    BY DEF SlotType, ThreadType, LifeInOrder, InOnePlace, PlaceIsKnown, TakenInTurn
  <1>4. TakenInTurn'
    BY DEF SlotType, ThreadType, LifeInOrder, InOnePlace, PlaceIsKnown, TakenInTurn,
           SlotHeldUntilLogged, OneFate
  <1> QED BY <1>1, <1>2, <1>3, <1>4

LEMMA ClaimRequestKeepsSlot ==
  ASSUME ThreadType, LifeInOrder, SlotInv, ClaimRequest
  PROVE  SlotInv'
  <1> USE DEF SlotInv, Asked, Pausing, Answering, Answered, Reporting, Finishing, slot, worker, main,
              history, GoesMain, GoesGame, GoesWorker, ClaimRequest
  <1>1. SlotType'
    BY DEF SlotType, PlaceIsKnown, TakenInTurn
  <1>2. InOnePlace'
    BY DEF SlotType, ThreadType, LifeInOrder, InOnePlace, PlaceIsKnown, TakenInTurn
  <1>3. PlaceIsKnown'
    BY DEF SlotType, ThreadType, LifeInOrder, InOnePlace, PlaceIsKnown, TakenInTurn
  <1>4. TakenInTurn'
    BY DEF SlotType, ThreadType, LifeInOrder, InOnePlace, PlaceIsKnown, TakenInTurn,
           SlotHeldUntilLogged, OneFate
  <1> QED BY <1>1, <1>2, <1>3, <1>4

LEMMA SetPausedKeepsSlot ==
  ASSUME ThreadType, LifeInOrder, SlotInv, SetPaused
  PROVE  SlotInv'
  <1> USE DEF SlotInv, Asked, Pausing, Answering, Answered, Reporting, Finishing, slot, worker, main,
              history, GoesMain, GoesGame, GoesWorker, SetPaused
  <1>1. SlotType'
    BY DEF SlotType, PlaceIsKnown, TakenInTurn
  <1>2. InOnePlace'
    BY DEF SlotType, ThreadType, LifeInOrder, InOnePlace, PlaceIsKnown, TakenInTurn
  <1>3. PlaceIsKnown'
    BY DEF SlotType, ThreadType, LifeInOrder, InOnePlace, PlaceIsKnown, TakenInTurn
  <1>4. TakenInTurn'
    BY DEF SlotType, ThreadType, LifeInOrder, InOnePlace, PlaceIsKnown, TakenInTurn,
           SlotHeldUntilLogged, OneFate
  <1> QED BY <1>1, <1>2, <1>3, <1>4

LEMMA ReportResultKeepsSlot ==
  ASSUME ThreadType, LifeInOrder, SlotInv, ReportResult
  PROVE  SlotInv'
  <1> USE DEF SlotInv, Asked, Pausing, Answering, Answered, Reporting, Finishing, slot, worker, main,
              history, GoesMain, GoesGame, GoesWorker, ReportResult
  <1>1. SlotType'
    BY DEF SlotType, PlaceIsKnown, TakenInTurn
  <1>2. InOnePlace'
    BY DEF SlotType, ThreadType, LifeInOrder, InOnePlace, PlaceIsKnown, TakenInTurn
  <1>3. PlaceIsKnown'
    <2>1. current # NoRequest
      BY CurrentIsOne DEF PlaceIsKnown
    <2> QED BY <2>1 DEF SlotType, ThreadType, LifeInOrder, InOnePlace, PlaceIsKnown
  <1>4. TakenInTurn'
    BY DEF SlotType, ThreadType, LifeInOrder, InOnePlace, PlaceIsKnown, TakenInTurn,
           SlotHeldUntilLogged, OneFate
  <1> QED BY <1>1, <1>2, <1>3, <1>4

LEMMA PollResultKeepsSlot ==
  ASSUME ThreadType, LifeInOrder, SlotInv, PollResult
  PROVE  SlotInv'
  <1> USE DEF SlotInv, Asked, Pausing, Answering, Answered, Reporting, Finishing, slot, worker, main,
              history, GoesMain, GoesGame, GoesWorker, PollResult
  <1>1. SlotType'
    BY DEF SlotType, PlaceIsKnown, TakenInTurn
  <1>2. InOnePlace'
    BY DEF SlotType, ThreadType, LifeInOrder, InOnePlace, PlaceIsKnown, TakenInTurn
  <1>3. PlaceIsKnown'
    BY DEF SlotType, ThreadType, LifeInOrder, InOnePlace, PlaceIsKnown, TakenInTurn
  <1>4. TakenInTurn'
    BY DEF SlotType, ThreadType, LifeInOrder, InOnePlace, PlaceIsKnown, TakenInTurn,
           SlotHeldUntilLogged, OneFate
  <1> QED BY <1>1, <1>2, <1>3, <1>4

LEMMA LogResultKeepsSlot ==
  ASSUME ThreadType, LifeInOrder, SlotInv, LogResult
  PROVE  SlotInv'
  <1> USE DEF SlotInv, Asked, Pausing, Answering, Answered, Reporting, Finishing, slot, worker, main,
              history, GoesMain, GoesGame, GoesWorker, LogResult
  <1>1. SlotType'
    BY DEF SlotType, PlaceIsKnown, TakenInTurn
  <1>2. InOnePlace'
    BY DEF SlotType, ThreadType, LifeInOrder, InOnePlace, PlaceIsKnown, TakenInTurn
  <1>3. PlaceIsKnown'
    BY DEF SlotType, ThreadType, LifeInOrder, InOnePlace, PlaceIsKnown, TakenInTurn
  <1>4. TakenInTurn'
    BY DEF SlotType, ThreadType, LifeInOrder, InOnePlace, PlaceIsKnown, TakenInTurn,
           SlotHeldUntilLogged, OneFate
  <1> QED BY <1>1, <1>2, <1>3, <1>4

LEMMA FreeSlotKeepsSlot ==
  ASSUME ThreadType, LifeInOrder, SlotInv, FreeSlot
  PROVE  SlotInv'
  <1> USE DEF SlotInv, Asked, Pausing, Answering, Answered, Reporting, Finishing, slot, worker, main,
              history, GoesMain, GoesGame, GoesWorker, FreeSlot
  <1>1. SlotType'
    BY DEF SlotType, PlaceIsKnown, TakenInTurn
  <1>2. InOnePlace'
    BY DEF SlotType, ThreadType, LifeInOrder, InOnePlace, PlaceIsKnown, TakenInTurn
  <1>3. PlaceIsKnown'
    BY DEF SlotType, ThreadType, LifeInOrder, InOnePlace, PlaceIsKnown, TakenInTurn
  <1>4. TakenInTurn'
    <2>1. taken = logged
      BY AllLogged DEF PlaceIsKnown
    <2> QED BY <2>1 DEF TakenInTurn, SlotHeldUntilLogged, OneFate
  <1> QED BY <1>1, <1>2, <1>3, <1>4

LEMMA RequestPauseKeepsSlot ==
  ASSUME ThreadType, LifeInOrder, SlotInv, RequestPause
  PROVE  SlotInv'
  <1> USE DEF SlotInv
  <1>1. /\ request = "free" /\ request' = "pending"
        /\ UNCHANGED <<result, main, gamePc, workerPc, reporting, applied, logged>>
    BY DEF RequestPause, worker
  <1>2. current \in Nat /\ taken = 1 .. current /\ taken = logged
    BY ScriptingAssumption, <1>1
       DEF SlotType, TakenInTurn, SlotHeldUntilLogged, Requests, NoRequest
  <1>3. Cardinality(taken) = current
    <2>1. 1 \in Int /\ current \in Int /\ (IF 1 > current THEN 0 ELSE current - 1 + 1) = current
      BY <1>2
    <2> QED BY <1>2, <2>1, FS_Interval
  <1>4. /\ current' = current + 1 /\ current' \in Requests
        /\ taken' = taken \cup {current'} /\ taken' = 1 .. current'
    <2>1. current < MaxRequests /\ current' = current + 1 /\ taken' = taken \cup {current'}
      BY <1>3 DEF RequestPause
    <2> QED BY <1>2, <2>1, ScriptingAssumption DEF Requests
  <1>5. /\ Asked' /\ ~Pausing' /\ ~Answering' /\ ~Answered' /\ ~Reporting' /\ ~Finishing'
        /\ ~cancelled /\ ~cancelled'
    BY <1>1 DEF Asked, Pausing, Answering, Answered, Reporting, Finishing, PlaceIsKnown, LifeInOrder,
                main
  <1>6. current' \notin taken
    BY <1>2, <1>4
  <1>7. SlotType'
    BY <1>1, <1>4 DEF SlotType
  <1>8. InOnePlace'
    BY <1>5 DEF InOnePlace
  <1>9. PlaceIsKnown'
    BY <1>1, <1>2, <1>4, <1>5, <1>6 DEF PlaceIsKnown, TakenInTurn, OneFate
  <1>10. TakenInTurn'
    <2>1. (1 .. current' - 1) \subseteq logged' /\ logged' \subseteq taken'
          /\ applied' \subseteq taken'
      BY <1>1, <1>2, <1>4 DEF TakenInTurn
    <2>2. mainPc' # "start"
      BY <1>1 DEF LifeInOrder, main
    <2> QED BY <1>1, <1>4, <1>5, <2>1, <2>2 DEF TakenInTurn, SlotHeldUntilLogged, OneFate
  <1> QED BY <1>7, <1>8, <1>9, <1>10

LEMMA SlotKept ==
  ASSUME ThreadType, LifeInOrder, SlotInv, [Next]_vars
  PROVE  SlotInv'
  BY QuietSteps, LeavesSlotKeeps, LoadKeepsSlot, StartFailsKeepsSlot, RegisterFailsKeepsSlot,
     CloseSlotKeepsSlot, CancelRequestKeepsSlot, ClaimRequestKeepsSlot, SetPausedKeepsSlot,
     ReportResultKeepsSlot, PollResultKeepsSlot, LogResultKeepsSlot, FreeSlotKeepsSlot,
     RequestPauseKeepsSlot
     DEF Next, MainStep, GameStep, WorkerStep

-----------------------------------------------------------------------------
(* The ring.                                                               *)

LEMMA ModSmall ==
  ASSUME NEW c \in Nat \ {0}, NEW x \in 0 .. c - 1
  PROVE  x % c = x
  OBVIOUS

LEMMA ModWrap ==
  ASSUME NEW c \in Nat \ {0}, NEW x \in c .. 2 * c - 1
  PROVE  x % c = x - c
  OBVIOUS

\* A place of the ring, and those after it.
LEMMA RingPlace ==
  ASSUME NEW h \in Positions, NEW i \in 0 .. Capacity
  PROVE  (h + i) % Capacity = IF h + i < Capacity THEN h + i ELSE h + i - Capacity
  <1>1. Capacity \in Nat \ {0} /\ h \in 0 .. Capacity - 1
    BY ScriptingAssumption DEF Positions
  <1>2. CASE h + i < Capacity
    <2>1. h + i \in 0 .. Capacity - 1
      BY <1>1, <1>2
    <2> QED BY <1>1, <1>2, <2>1, ModSmall
  <1>3. CASE ~(h + i < Capacity)
    <2>1. PICK x \in Capacity .. 2 * Capacity - 1 : x = h + i
      BY <1>1, <1>3
    <2>2. \A c \in Nat \ {0} : \A y \in c .. 2 * c - 1 : y % c = y - c
      BY ModWrap
    <2>3. x % Capacity = x - Capacity
      BY <1>1, <2>2
    <2> QED BY <1>1, <1>3, <2>1, <2>3
  <1> QED BY <1>2, <1>3

LEMMA RingStep ==
  ASSUME NEW h \in Positions, NEW i \in 0 .. Capacity - 1
  PROVE  /\ (h + i) % Capacity \in Positions
         /\ (((h + 1) % Capacity) + i) % Capacity = (h + (i + 1)) % Capacity
         /\ (h + i + 1) % Capacity = (((h + i) % Capacity) + 1) % Capacity
         /\ \A j \in 0 .. Capacity - 1 : i # j => (h + i) % Capacity # (h + j) % Capacity
  <1>1. Capacity \in Nat \ {0} /\ h \in 0 .. Capacity - 1 /\ i \in 0 .. Capacity /\ i + 1 \in 0 .. Capacity
        /\ 1 \in 0 .. Capacity
    BY ScriptingAssumption DEF Positions
  <1>2. /\ (h + i) % Capacity = IF h + i < Capacity THEN h + i ELSE h + i - Capacity
        /\ (h + 1) % Capacity = IF h + 1 < Capacity THEN h + 1 ELSE h + 1 - Capacity
        /\ (h + (i + 1)) % Capacity = IF h + (i + 1) < Capacity THEN h + (i + 1) ELSE h + (i + 1) - Capacity
    BY <1>1, RingPlace
  <1>3. (h + i) % Capacity \in Positions /\ (h + 1) % Capacity \in Positions
    BY <1>1, <1>2 DEF Positions
  <1>4. \A p \in Positions, k \in 0 .. Capacity :
          (p + k) % Capacity = IF p + k < Capacity THEN p + k ELSE p + k - Capacity
    BY RingPlace
  <1>5. (((h + 1) % Capacity) + i) % Capacity = (h + (i + 1)) % Capacity
    <2> DEFINE p == (h + 1) % Capacity
    <2>1. p \in Positions /\ p \in Int
      BY <1>1, <1>2, <1>3
    <2>2. (p + i) % Capacity = IF p + i < Capacity THEN p + i ELSE p + i - Capacity
      BY <1>1, <1>4, <2>1
    <2>3. p = IF h + 1 < Capacity THEN h + 1 ELSE h + 1 - Capacity
      BY <1>2
    <2> HIDE DEF p
    <2>4. (p + i) % Capacity = (h + (i + 1)) % Capacity
      BY <1>1, <1>2, <2>1, <2>2, <2>3
    <2> QED BY <2>4 DEF p
  <1>6. (h + i + 1) % Capacity = (((h + i) % Capacity) + 1) % Capacity
    <2> DEFINE q == (h + i) % Capacity
    <2>1. q \in Positions /\ q \in Int
      BY <1>1, <1>2, <1>3
    <2>2. (q + 1) % Capacity = IF q + 1 < Capacity THEN q + 1 ELSE q + 1 - Capacity
      BY <1>1, <1>4, <2>1
    <2>3. q = IF h + i < Capacity THEN h + i ELSE h + i - Capacity
      BY <1>2
    <2>4. h + i + 1 = h + (i + 1)
      BY <1>1
    <2> HIDE DEF q
    <2>5. (q + 1) % Capacity = (h + i + 1) % Capacity
      BY <1>1, <1>2, <2>1, <2>2, <2>3, <2>4
    <2> QED BY <2>5 DEF q
  <1>7. ASSUME NEW j \in 0 .. Capacity - 1, i # j PROVE (h + i) % Capacity # (h + j) % Capacity
    <2>1. (h + j) % Capacity = IF h + j < Capacity THEN h + j ELSE h + j - Capacity
      <3>1. h \in Positions /\ j \in 0 .. Capacity
        BY <1>1
      <3> QED BY <3>1, RingPlace
    <2> QED BY <1>1, <1>2, <1>7, <2>1
  <1> QED BY <1>3, <1>5, <1>6, <1>7

\* What the two ends do to the waiting events.
LEMMA PushWaits ==
  ASSUME ThreadType, LifeInOrder, QueueInv, PushEvent
  PROVE  /\ size < Capacity /\ size' = size + 1 /\ size \in Nat
         /\ \A i \in 0 .. size - 1 : Waiting(i)' = Waiting(i)
         /\ \A i \in {size} : Waiting(i)' = events
         /\ RingInPlace' /\ ring' \in [Positions -> Events \cup {NoEvent}] /\ tail' \in Positions
         /\ events \in Events /\ \A e \in accepted : e < events
         /\ UNCHANGED <<head, inHand, processed, events, stopping, workerFailed, workerPc>>
         /\ accepted' = accepted \cup {events} /\ gamePc' = "push_notify" /\ ~stopping
  <1> USE DEF QueueInv
  <1>1. /\ size < Capacity /\ size' = size + 1 /\ ~stopping /\ gamePc = "try"
        /\ ring' = [ring EXCEPT ![tail] = events] /\ tail' = (tail + 1) % Capacity
        /\ UNCHANGED <<head, inHand, processed, events, stopping, workerFailed, workerPc>>
        /\ accepted' = accepted \cup {events} /\ gamePc' = "push_notify"
    BY DEF PushEvent, GoesGame, stop, worker, history
  <1>2. /\ Capacity \in Nat \ {0} /\ size \in 0 .. Capacity - 1 /\ head \in Positions
        /\ ring \in [Positions -> Events \cup {NoEvent}]
    BY <1>1, ScriptingAssumption DEF QueueType
  <1>3. tail = (head + size) % Capacity /\ tail \in Positions
    BY <1>1, <1>2, RingStep DEF RingInPlace
  <1>4. events \in Events /\ \A e \in accepted : e < events
    <2>1. events \in Nat /\ events # 0 /\ events \notin accepted /\ accepted \subseteq 1 .. events
          /\ events <= MaxEvents
      BY <1>1, ScriptingAssumption DEF NewestLast, GamePcs, QueueType
    <2>2. \A e \in accepted : e \in 1 .. events /\ e # events
      BY <2>1
    <2> QED BY <2>1, <2>2, ScriptingAssumption DEF Events
  <1>5. ASSUME NEW i \in 0 .. size - 1 PROVE Waiting(i)' = Waiting(i)
    <2>1. i \in 0 .. Capacity - 1 /\ i # size
      BY <1>2
    <2>2. (head + i) % Capacity \in Positions /\ (head + i) % Capacity # tail
      BY <1>2, <1>3, <2>1, RingStep
    <2> QED BY <1>1, <1>2, <2>2 DEF Waiting
  <1>6. ASSUME NEW i \in {size} PROVE Waiting(i)' = events
    BY <1>1, <1>2, <1>3 DEF Waiting
  <1>7. tail' = (head + size') % Capacity /\ tail' \in Positions
    <2>1. (head + size + 1) % Capacity = (tail + 1) % Capacity
      BY <1>2, <1>3, RingStep
    <2>2. head + size + 1 = head + size'
      BY <1>1, <1>2 DEF Positions
    <2>3. (tail + 1) % Capacity \in Positions
      <3>1. (tail + 1) % Capacity = IF tail + 1 < Capacity THEN tail + 1 ELSE tail + 1 - Capacity
        BY <1>2, <1>3, RingPlace
      <3> QED BY <1>2, <1>3, <3>1 DEF Positions
    <2> QED BY <1>1, <2>1, <2>2, <2>3
  <1>8. ring' \in [Positions -> Events \cup {NoEvent}]
    BY <1>1, <1>2, <1>4
  <1> QED BY <1>1, <1>2, <1>4, <1>5, <1>6, <1>7, <1>8 DEF RingInPlace

LEMMA PopWaits ==
  ASSUME ThreadType, LifeInOrder, QueueInv, PopEvent
  PROVE  /\ size \in 1 .. Capacity /\ size' = size - 1 /\ inHand' = Waiting(0)
         /\ \A i \in 0 .. size - 2 : Waiting(i)' = Waiting(i + 1)
         /\ RingInPlace' /\ head' \in Positions /\ inHand = NoEvent
         /\ UNCHANGED <<ring, tail, accepted, processed, events, stopping, workerFailed, gamePc>>
         /\ workerPc' = "process"
  <1> USE DEF QueueInv
  <1>1. /\ size # 0 /\ size' = size - 1 /\ workerPc = "pop" /\ workerPc' = "process"
        /\ inHand' = ring[head] /\ head' = (head + 1) % Capacity
        /\ UNCHANGED <<ring, tail, accepted, processed, events, stopping, workerFailed, gamePc>>
    BY DEF PopEvent, GoesWorker, stop, history
  <1>2. Capacity \in Nat \ {0} /\ size \in 1 .. Capacity /\ head \in Positions
    BY <1>1, ScriptingAssumption DEF QueueType
  <1>3. inHand' = Waiting(0)
    <2>1. (head + 0) % Capacity = head
      <3>1. head \in 0 .. Capacity - 1 /\ head + 0 = head
        BY <1>2 DEF Positions
      <3> QED BY <1>2, <3>1, ModSmall
    <2> QED BY <1>1, <2>1 DEF Waiting
  <1>4. head' \in Positions
    <2>1. (head + 1) % Capacity = IF head + 1 < Capacity THEN head + 1 ELSE head + 1 - Capacity
      BY <1>2, RingPlace
    <2> QED BY <1>1, <1>2, <2>1 DEF Positions
  <1>5. ASSUME NEW i \in 0 .. size - 2 PROVE Waiting(i)' = Waiting(i + 1)
    <2>1. i \in 0 .. Capacity - 1
      BY <1>2
    <2>2. (head' + i) % Capacity = (head + (i + 1)) % Capacity
      BY <1>1, <1>2, <2>1, RingStep
    <2> QED BY <1>1, <2>2 DEF Waiting
  <1>6. RingInPlace'
    <2>1. ~stopping
      BY <1>1 DEF RingInPlace
    <2>2. tail = (head + size) % Capacity
      BY <2>1 DEF RingInPlace
    <2>3. size - 1 \in 0 .. Capacity - 1 /\ (size - 1) + 1 = size
      BY <1>2
    <2>4. (head' + (size - 1)) % Capacity = (head + ((size - 1) + 1)) % Capacity
      BY <1>1, <1>2, <2>3, RingStep
    <2> QED BY <1>1, <2>1, <2>2, <2>3, <2>4 DEF RingInPlace
  <1>7. inHand = NoEvent
    BY <1>1 DEF PastIsAccountedFor
  <1> QED BY <1>1, <1>2, <1>3, <1>4, <1>5, <1>6, <1>7

LEMMA PushKeepsQueue ==
  ASSUME ThreadType, LifeInOrder, QueueInv, PushEvent
  PROVE  QueueInv'
  <1> USE DEF QueueInv
  <1> DEFINE places == 0 .. size - 1
  <1>1. /\ size < Capacity /\ size' = size + 1 /\ size \in Nat
        /\ \A i \in places : Waiting(i)' = Waiting(i)
        /\ \A i \in {size} : Waiting(i)' = events
        /\ RingInPlace' /\ ring' \in [Positions -> Events \cup {NoEvent}] /\ tail' \in Positions
        /\ events \in Events /\ \A e \in accepted : e < events
        /\ UNCHANGED <<head, inHand, processed, events, stopping, workerFailed, workerPc>>
        /\ accepted' = accepted \cup {events} /\ gamePc' = "push_notify" /\ ~stopping
    BY PushWaits
  <1>2. QueueType'
    BY <1>1, ScriptingAssumption DEF QueueType
  <1>3. 0 .. size' - 1 = places \cup {size} /\ size \notin places
    BY <1>1
  <1>4. \A e \in accepted : e \in Nat
    BY DEF QueueType, Events
  <1>5. events \in Nat /\ \A i \in places : Waiting(i) \in accepted
    BY <1>1 DEF Events, RingInOrder
  <1> HIDE DEF places
  <1>6. RingInOrder'
    <2>1. \A i \in 0 .. size' - 1 : Waiting(i)' \in accepted'
      BY <1>1, <1>3, <1>5
    <2>2. ASSUME NEW i \in 0 .. size' - 1, NEW j \in 0 .. size' - 1, i < j
          PROVE  Waiting(i)' < Waiting(j)'
      <3>1. i \in places
        BY <1>1, <1>3, <2>2
      <3>2. CASE j \in places
        BY <1>1, <2>2, <3>1, <3>2 DEF RingInOrder
      <3>3. CASE j = size
        BY <1>1, <1>5, <3>1, <3>3
      <3> QED BY <1>3, <3>2, <3>3
    <2>3. ASSUME NEW e \in accepted', NEW i \in 0 .. size' - 1, e >= Waiting(i)'
          PROVE  \E j \in 0 .. size' - 1 : e = Waiting(j)'
      <3>1. CASE e = events
        BY <1>1, <1>3, <3>1
      <3>2. CASE e # events
        <4>1. e \in accepted /\ e < events /\ e \in Nat
          BY <1>1, <1>4, <3>2
        <4>2. i \in places
          BY <1>1, <1>3, <1>5, <2>3, <4>1
        <4>3. e >= Waiting(i)
          BY <1>1, <2>3, <4>2
        <4>4. PICK j \in places : e = Waiting(j)
          BY <4>1, <4>2, <4>3 DEF RingInOrder, places
        <4> QED BY <1>1, <1>3, <4>4
      <3> QED BY <3>1, <3>2
    <2>4. ASSUME NEW e \in processed', NEW i \in 0 .. size' - 1 PROVE e < Waiting(i)'
      <3>1. e \in processed /\ e \in accepted
        BY <1>1 DEF PastIsAccountedFor
      <3>2. CASE i \in places
        BY <1>1, <3>1, <3>2 DEF RingInOrder
      <3>3. CASE i = size
        BY <1>1, <3>1, <3>3
      <3> QED BY <1>3, <3>2, <3>3
    <2>5. ASSUME inHand' # NoEvent, NEW i \in 0 .. size' - 1 PROVE inHand' < Waiting(i)'
      <3>1. inHand' = inHand /\ inHand # NoEvent /\ inHand \in accepted
        BY <1>1, <2>5 DEF PastIsAccountedFor
      <3>2. CASE i \in places
        BY <1>1, <3>1, <3>2 DEF RingInOrder
      <3>3. CASE i = size
        BY <1>1, <3>1, <3>3
      <3> QED BY <1>3, <3>2, <3>3
    <2> QED BY <2>1, <2>2, <2>3, <2>4, <2>5 DEF RingInOrder
  <1>7. PastIsAccountedFor'
    <2>1. processed' \subseteq accepted'
          /\ (inHand' # NoEvent <=> workerPc' = "process")
          /\ (inHand' # NoEvent => inHand' \in accepted' \ processed')
      BY <1>1 DEF PastIsAccountedFor
    <2>2. ASSUME ~stopping' /\ ~workerFailed', NEW e \in accepted'
          PROVE  e \in processed' \/ e = inHand' \/ \E i \in 0 .. size' - 1 : e = Waiting(i)'
      <3>1. CASE e = events
        BY <1>1, <1>3, <3>1
      <3>2. CASE e # events
        <4>1. e \in accepted /\ ~stopping /\ ~workerFailed
          BY <1>1, <2>2, <3>2
        <4>2. e \in processed \/ e = inHand \/ \E i \in places : e = Waiting(i)
          BY <4>1 DEF PastIsAccountedFor, places
        <4> QED BY <1>1, <1>3, <4>2
      <3> QED BY <3>1, <3>2
    <2> QED BY <2>1, <2>2 DEF PastIsAccountedFor
  <1>8. NewestLast'
    <2>1. events \in 1 .. events
      BY <1>5, <1>1 DEF Events
    <2> QED BY <1>1, <2>1 DEF NewestLast, GamePcs
  <1> QED BY <1>1, <1>2, <1>6, <1>7, <1>8

LEMMA PopKeepsQueue ==
  ASSUME ThreadType, LifeInOrder, QueueInv, PopEvent
  PROVE  QueueInv'
  <1> USE DEF QueueInv
  <1> DEFINE places == 0 .. size - 1
  <1>1. /\ size \in 1 .. Capacity /\ size' = size - 1 /\ inHand' = Waiting(0)
        /\ \A i \in 0 .. size - 2 : Waiting(i)' = Waiting(i + 1)
        /\ RingInPlace' /\ head' \in Positions /\ inHand = NoEvent
        /\ UNCHANGED <<ring, tail, accepted, processed, events, stopping, workerFailed, gamePc>>
        /\ workerPc' = "process"
    BY PopWaits
  <1>2. /\ size \in Nat /\ 0 .. size' - 1 = 0 .. size - 2 /\ 0 \in places
        /\ \A i \in 0 .. size - 2 : i + 1 \in places /\ i + 1 > 0
        /\ \A j \in places : j # 0 => j - 1 \in 0 .. size - 2 /\ (j - 1) + 1 = j
    BY <1>1, ScriptingAssumption
  <1>3. /\ \A i \in places : Waiting(i) \in accepted
        /\ \A e \in accepted : e \in Nat \ {0} /\ e \in Events
        /\ \A e \in processed : e < Waiting(0) /\ e \in Nat
    BY <1>2 DEF RingInOrder, QueueType, Events
  <1>4. QueueType'
    <2>1. size' \in 0 .. Capacity
      BY <1>1, ScriptingAssumption
    <2> QED BY <1>1, <1>2, <1>3, <2>1 DEF QueueType
  <1>5. ASSUME NEW j \in places, j # 0 PROVE \E i \in 0 .. size' - 1 : Waiting(i)' = Waiting(j)
    <2>1. Waiting(j - 1)' = Waiting((j - 1) + 1)
      BY <1>1, <1>2, <1>5
    <2> QED BY <1>2, <1>5, <2>1
  <1>6. RingInOrder'
    <2>1. \A i \in 0 .. size' - 1 : Waiting(i)' \in accepted'
      BY <1>1, <1>2, <1>3
    <2>2. ASSUME NEW i \in 0 .. size' - 1, NEW j \in 0 .. size' - 1, i < j
          PROVE  Waiting(i)' < Waiting(j)'
      <3>1. i + 1 \in places /\ j + 1 \in places /\ i + 1 < j + 1
        BY <1>1, <1>2, <2>2
      <3>2. Waiting(i + 1) < Waiting(j + 1)
        BY <3>1 DEF RingInOrder
      <3> QED BY <1>1, <1>2, <3>2
    <2>3. ASSUME NEW e \in accepted', NEW i \in 0 .. size' - 1, e >= Waiting(i)'
          PROVE  \E j \in 0 .. size' - 1 : e = Waiting(j)'
      <3>1. e \in accepted /\ i + 1 \in places /\ e >= Waiting(i + 1)
        BY <1>1, <1>2, <2>3
      <3>2. PICK j \in places : e = Waiting(j)
        BY <3>1 DEF RingInOrder
      <3>3. j # 0
        <4>1. Waiting(0) < Waiting(i + 1)
          BY <1>2, <3>1 DEF RingInOrder
        <4>2. Waiting(0) \in Nat /\ Waiting(i + 1) \in Nat
          BY <1>2, <1>3, <3>1
        <4> QED BY <3>1, <3>2, <4>1, <4>2
      <3> QED BY <1>5, <3>2, <3>3
    <2>4. ASSUME NEW e \in processed', NEW i \in 0 .. size' - 1 PROVE e < Waiting(i)'
      <3>1. e \in processed /\ i + 1 \in places
        BY <1>1, <1>2
      <3>2. e < Waiting(i + 1)
        BY <3>1 DEF RingInOrder
      <3> QED BY <1>1, <1>2, <3>2
    <2>5. ASSUME inHand' # NoEvent, NEW i \in 0 .. size' - 1 PROVE inHand' < Waiting(i)'
      <3>1. Waiting(0) < Waiting(i + 1)
        BY <1>2 DEF RingInOrder
      <3> QED BY <1>1, <1>2, <3>1
    <2> QED BY <2>1, <2>2, <2>3, <2>4, <2>5 DEF RingInOrder
  <1>7. PastIsAccountedFor'
    <2>1. inHand' \in accepted /\ inHand' # NoEvent /\ inHand' \notin processed
      BY <1>1, <1>2, <1>3 DEF NoEvent
    <2>2. ASSUME ~stopping' /\ ~workerFailed', NEW e \in accepted'
          PROVE  e \in processed' \/ e = inHand' \/ \E i \in 0 .. size' - 1 : e = Waiting(i)'
      <3>1. e \in accepted /\ ~stopping /\ ~workerFailed /\ e # inHand
        BY <1>1, <1>3, <2>2 DEF NoEvent
      <3>2. CASE e \in processed
        BY <1>1, <3>2
      <3>3. CASE e \notin processed
        <4>1. PICK j \in places : e = Waiting(j)
          BY <3>1, <3>3 DEF PastIsAccountedFor
        <4> QED BY <1>1, <1>5, <4>1
      <3> QED BY <3>2, <3>3
    <2> QED BY <1>1, <2>1, <2>2 DEF PastIsAccountedFor
  <1>8. NewestLast'
    BY <1>1 DEF NewestLast
  <1> QED BY <1>1, <1>4, <1>6, <1>7, <1>8

\* The steps that leave the ring and what becomes of its events.
LeavesQueue ==
  /\ UNCHANGED <<queue, inHand, processed, events, stopping>>
  /\ workerFailed => workerFailed'
  /\ workerPc' = "process" <=> workerPc = "process"
  /\ gamePc' \in GamePcs \ {"idle", "push_notify"} => gamePc \in GamePcs \ {"idle", "push_notify"}

LEMMA LeavesQueueKeeps ==
  ASSUME QueueInv, LeavesQueue
  PROVE  QueueInv'
  <1> USE DEF QueueInv, LeavesQueue, queue
  <1>1. \A i : Waiting(i)' = Waiting(i)
    BY DEF Waiting
  <1>2. QueueType' /\ RingInPlace'
    BY DEF QueueType, RingInPlace
  <1>3. RingInOrder'
    BY <1>1 DEF RingInOrder
  <1>4. PastIsAccountedFor' /\ NewestLast'
    BY <1>1 DEF PastIsAccountedFor, NewestLast
  <1> QED BY <1>2, <1>3, <1>4

LEMMA IdleQueueSteps ==
  ASSUME ThreadType, LifeInOrder,
         \/ (Mains /\ ~Stop)
         \/ ClaimRequest \/ NoRequestToApply \/ SetPaused \/ ReportResult \/ NotifyResult \/ TryPush
         \/ DropEvent \/ NotifyPush \/ RequestPause \/ ScriptsLoaded \/ ScriptsFail
         \/ ScriptsUnloaded \/ PollResult \/ LogResult \/ FreeSlot \/ PopNothing \/ LockQueue
         \/ TestPredicate \/ Block \/ Wake \/ WakeSpuriously \/ UNCHANGED vars
  PROVE  LeavesQueue
  <1> USE DEF LeavesQueue, queue, stop, worker, history, GoesMain, GoesGame, GoesWorker, GamePcs
  <1>1. CASE Mains /\ ~Stop
    BY <1>1 DEF Mains, MainStep, Load, Started, StartFails, Register, RegisterFails, CloseSlot,
           Unregister, Drained, CancelRequest, NotifyCancel, NotifyStop, Join, LifeInOrder
  <1>2. CASE ClaimRequest \/ NoRequestToApply \/ SetPaused \/ ReportResult \/ NotifyResult \/ TryPush
             \/ DropEvent \/ NotifyPush
    BY <1>2 DEF ClaimRequest, NoRequestToApply, SetPaused, ReportResult, NotifyResult, TryPush,
                DropEvent, NotifyPush
  <1>3. CASE RequestPause \/ ScriptsLoaded \/ ScriptsFail \/ ScriptsUnloaded \/ PollResult \/ LogResult
             \/ FreeSlot
    BY <1>3 DEF RequestPause, ScriptsLoaded, ScriptsFail, ScriptsUnloaded, PollResult, LogResult,
                FreeSlot
  <1>4. CASE PopNothing \/ LockQueue \/ TestPredicate \/ Block \/ Wake
    BY <1>4 DEF PopNothing, LockQueue, TestPredicate, Block, Wake
  <1>5. CASE WakeSpuriously \/ UNCHANGED vars
    BY <1>5 DEF WakeSpuriously, vars
  <1> QED BY <1>1, <1>2, <1>3, <1>4, <1>5

\* The plugin stops and what waits is discarded.
LEMMA StopKeepsQueue ==
  ASSUME QueueInv, Stop
  PROVE  QueueInv'
  <1> USE DEF QueueInv
  <1>1. /\ size' = 0 /\ stopping' = TRUE
        /\ UNCHANGED <<ring, head, tail, accepted, inHand, processed, events, gamePc, workerPc>>
    BY DEF Stop, worker, history
  <1>2. 0 .. size' - 1 = {}
    BY <1>1
  <1>3. QueueType'
    BY <1>1, ScriptingAssumption DEF QueueType
  <1>4. RingInPlace' /\ RingInOrder'
    BY <1>1, <1>2 DEF RingInPlace, RingInOrder
  <1>5. PastIsAccountedFor' /\ NewestLast'
    BY <1>1 DEF PastIsAccountedFor, NewestLast
  <1> QED BY <1>3, <1>4, <1>5

\* The worker is done with its event, or gives up on it.
LEMMA EventDoneKeepsQueue ==
  ASSUME QueueInv, EventProcessed \/ WorkerFails
  PROVE  QueueInv'
  <1> USE DEF QueueInv
  <1>1. /\ UNCHANGED <<ring, head, tail, size, accepted, events, gamePc, stopping>>
        /\ workerPc = "process" /\ workerPc' # "process" /\ inHand' = NoEvent
        /\ \/ processed' = processed \cup {inHand} /\ workerFailed' = workerFailed
           \/ processed' = processed /\ workerFailed' = TRUE
    BY DEF EventProcessed, WorkerFails, GoesWorker, queue, stop, history
  <1>2. inHand # NoEvent /\ inHand \in accepted /\ inHand \in Events
    BY <1>1 DEF PastIsAccountedFor, QueueType
  <1>3. \A i : Waiting(i)' = Waiting(i)
    BY <1>1 DEF Waiting
  <1>4. QueueType' /\ RingInPlace' /\ NewestLast'
    BY <1>1, <1>2 DEF QueueType, RingInPlace, NewestLast
  <1>5. RingInOrder'
    BY <1>1, <1>2, <1>3 DEF RingInOrder
  <1>6. PastIsAccountedFor'
    BY <1>1, <1>2, <1>3 DEF PastIsAccountedFor
  <1> QED BY <1>4, <1>5, <1>6

\* A daily event comes in.
LEMMA DailyUpdateKeepsQueue ==
  ASSUME QueueInv, DailyUpdate
  PROVE  QueueInv'
  <1> USE DEF QueueInv
  <1>1. /\ UNCHANGED <<ring, head, tail, size, accepted, inHand, processed, stopping, workerFailed>>
        /\ UNCHANGED workerPc /\ events < MaxEvents /\ events' = events + 1
    BY DEF DailyUpdate, queue, stop, worker
  <1>2. events \in Nat /\ accepted \subseteq 1 .. events
    BY ScriptingAssumption DEF QueueType, NewestLast
  <1>3. \A i : Waiting(i)' = Waiting(i)
    BY <1>1 DEF Waiting
  <1>4. QueueType' /\ RingInPlace'
    BY <1>1, <1>2, ScriptingAssumption DEF QueueType, RingInPlace
  <1>5. RingInOrder' /\ PastIsAccountedFor'
    BY <1>1, <1>3 DEF RingInOrder, PastIsAccountedFor
  <1>6. NewestLast'
    <2>1. (1 .. events) \subseteq 1 .. events' /\ events' \notin 1 .. events /\ events' # 0
      BY <1>1, <1>2
    <2> QED BY <1>1, <1>2, <2>1 DEF NewestLast
  <1> QED BY <1>4, <1>5, <1>6

LEMMA QueueKept ==
  ASSUME ThreadType, LifeInOrder, QueueInv, [Next]_vars
  PROVE  QueueInv'
  BY IdleQueueSteps, LeavesQueueKeeps, StopKeepsQueue, EventDoneKeepsQueue, DailyUpdateKeepsQueue,
     PushKeepsQueue, PopKeepsQueue
     DEF Next, Mains, MainStep, GameStep, WorkerStep

-----------------------------------------------------------------------------
(* The theorems.                                                           *)

LEMMA InitIInv == Init => IInv
  <1> SUFFICES ASSUME Init PROVE IInv
    OBVIOUS
  <1> USE ScriptingAssumption DEF Init
  <1>1. ThreadType /\ LifeInOrder
    BY DEF ThreadType, LifeInOrder, MainPcs, GamePcs, WorkerPcs
  <1>2. SlotInv
    BY DEF SlotInv, SlotType, InOnePlace, PlaceIsKnown, TakenInTurn, SlotHeldUntilLogged, OneFate,
           Asked, Pausing, Answering, Answered, Reporting, Finishing, NoRequest
  <1>3. QueueInv
    <2>1. 0 \in Positions /\ 0 \in 0 .. Capacity /\ 0 \in 0 .. MaxEvents
      BY DEF Positions
    <2>2. (0 + 0) % Capacity = 0
      BY ModSmall
    <2>3. QueueType
      BY <2>1 DEF QueueType
    <2>4. 0 .. size - 1 = {}
      OBVIOUS
    <2> QED BY <2>2, <2>3, <2>4 DEF QueueInv, RingInPlace, RingInOrder, PastIsAccountedFor, NewestLast
  <1> QED BY <1>1, <1>2, <1>3 DEF IInv

LEMMA NextIInv == IInv /\ [Next]_vars => IInv'
  BY LifeKept, SlotKept, QueueKept DEF IInv

\* The inductive invariant: the threads, the slot and the ring.
THEOREM SpecIInv == Spec => []IInv
  BY InitIInv, NextIInv, PTL DEF Spec

\* One pause at a time, each with one fate, and nobody on a runtime that is gone
\* (scripting_runtime.cpp, pause_request_state_).
THEOREM SpecOnePauseAtATime == Spec => []OnePauseAtATime
  <1>1. IInv => OnePauseAtATime
    <2> SUFFICES ASSUME IInv PROVE OnePauseAtATime
      OBVIOUS
    <2>1. TypeOK /\ SlotHeldUntilLogged /\ OneFate
      BY DEF IInv, TypeOK, SlotInv, QueueInv, TakenInTurn
    <2>2. RuntimeOutlivesUse
      BY DEF IInv, LifeInOrder, RuntimeOutlivesUse
    <2> QED BY <2>1, <2>2 DEF OnePauseAtATime
  <1> QED BY <1>1, SpecIInv, PTL

\* No result is stored over another, and no pause begins once OnUnload has closed
\* the slot (scripting_plugin.cpp, ApplyPauseRequest and ReportPauseResult).
THEOREM SpecNoPauseLostOrLate == Spec => NoPauseLostOrLate
  <1> DEFINE A == /\ result # NoRequest => result' \in {result, NoRequest}
                  /\ gamePc' = "set_paused" /\ gamePc # "set_paused" => mainPc = "loaded"
  <1>1. ASSUME IInv, Next PROVE A
    <2>1. result # NoRequest => result' \in {result, NoRequest}
      <3>1. CASE CancelRequest
        BY <1>1, <3>1 DEF CancelRequest, GoesMain, IInv, SlotInv, InOnePlace, Asked, Answered, LifeInOrder
      <3>2. CASE ReportResult
        BY <1>1, <3>2 DEF ReportResult, GoesGame, IInv, SlotInv, InOnePlace, Answering, Answered
      <3>3. CASE PollResult
        BY <3>3 DEF PollResult
      <3>4. CASE \/ Load \/ Started \/ StartFails \/ Register \/ RegisterFails
                 \/ Unregister \/ Drained \/ NotifyCancel \/ Stop \/ NotifyStop \/ Join \/ CloseSlot
        BY <3>4 DEF Load, Started, StartFails, Register, RegisterFails, Unregister, Drained,
                    NotifyCancel, Stop, NotifyStop, Join, CloseSlot
      <3>5. CASE \/ DailyUpdate \/ ClaimRequest \/ NoRequestToApply \/ SetPaused \/ NotifyResult
                 \/ TryPush \/ DropEvent \/ PushEvent \/ NotifyPush
        BY <3>5 DEF DailyUpdate, ClaimRequest, NoRequestToApply, SetPaused, NotifyResult, TryPush,
                    DropEvent, PushEvent, NotifyPush
      <3>6. CASE \/ RequestPause \/ ScriptsLoaded \/ ScriptsFail \/ EventProcessed \/ WorkerFails
                 \/ ScriptsUnloaded \/ LogResult \/ FreeSlot \/ PopEvent \/ PopNothing
                 \/ LockQueue \/ TestPredicate \/ Block \/ Wake \/ WakeSpuriously
        BY <3>6 DEF RequestPause, ScriptsLoaded, ScriptsFail, EventProcessed, WorkerFails,
                    ScriptsUnloaded, LogResult, FreeSlot, PopEvent, PopNothing, LockQueue,
                    TestPredicate, Block, Wake, WakeSpuriously
      <3> QED BY <1>1, <3>1, <3>2, <3>3, <3>4, <3>5, <3>6 DEF Next, MainStep, GameStep, WorkerStep
    <2>2. gamePc' = "set_paused" /\ gamePc # "set_paused" => mainPc = "loaded"
      <3>1. CASE ClaimRequest
        BY <1>1, <3>1 DEF ClaimRequest, GoesGame, IInv, LifeInOrder
      <3>2. CASE Games /\ ~ClaimRequest
        BY <3>2 DEF Games, DailyUpdate, GameStep, NoRequestToApply, SetPaused, ReportResult,
             NotifyResult, TryPush, DropEvent, PushEvent, NotifyPush, GoesGame
      <3>3. CASE Mains
        BY <3>3 DEF Mains, MainStep, Load, Started, StartFails, Register, RegisterFails, CloseSlot,
             Unregister, Drained, CancelRequest, NotifyCancel, Stop, NotifyStop, Join
      <3>4. CASE Workers
        BY <3>4 DEF Workers, RequestPause, WorkerStep, ScriptsLoaded, ScriptsFail, EventProcessed,
             WorkerFails, ScriptsUnloaded, PollResult, LogResult, FreeSlot, PopEvent, PopNothing,
             LockQueue, TestPredicate, Block, Wake
      <3>5. CASE WakeSpuriously
        BY <3>5 DEF WakeSpuriously
      <3> QED BY <1>1, <3>1, <3>2, <3>3, <3>4, <3>5, StepsOfThreads
    <2> QED BY <2>1, <2>2
  <1>2. IInv /\ [Next]_vars => [A]_vars
    BY <1>1
  <1> QED BY <1>2, SpecIInv, PTL DEF Spec, NoPauseLostOrLate

\* The waiting events that are newer than one are those after it in the ring.
LEMMA NewerThanWaiting ==
  ASSUME QueueInv, NEW i \in 0 .. size - 1
  PROVE  Cardinality({e \in accepted : e > Waiting(i)}) = size - 1 - i
  <1> USE DEF QueueInv
  <1> DEFINE S == {e \in accepted : e > Waiting(i)}
             later == i + 1 .. size - 1
             f == [j \in later |-> Waiting(j)]
  <1>1. size \in Nat /\ i \in Nat /\ i <= size - 1
    BY ScriptingAssumption DEF QueueType
  <1>2. /\ \A e \in accepted : e \in Nat
        /\ \A j \in 0 .. size - 1 : Waiting(j) \in accepted
    BY DEF QueueType, Events, RingInOrder
  <1>3. \A j \in later : j \in 0 .. size - 1 /\ i < j
    BY <1>1
  <1>4. \A j \in later : Waiting(j) \in S
    BY <1>2, <1>3 DEF RingInOrder
  <1>5. ASSUME NEW e \in S PROVE \E j \in later : e = Waiting(j)
    <2>1. e \in accepted /\ e >= Waiting(i) /\ e > Waiting(i)
      BY <1>2
    <2>2. PICK j \in 0 .. size - 1 : e = Waiting(j)
      BY <2>1 DEF RingInOrder
    <2>3. ~(j <= i)
      <3>1. j < i => Waiting(j) < Waiting(i)
        BY <2>2 DEF RingInOrder
      <3>2. j = i => Waiting(j) = Waiting(i)
        OBVIOUS
      <3>3. Waiting(j) \in Nat /\ Waiting(i) \in Nat
        BY <1>2
      <3> QED BY <1>1, <2>1, <2>2, <3>1, <3>2, <3>3
    <2> QED BY <1>1, <2>2, <2>3
  <1>6. f \in Bijection(later, S)
    <2>1. f \in Surjection(later, S)
      BY <1>4, <1>5 DEF Surjection
    <2>2. ASSUME NEW j \in later, NEW k \in later, f[j] = f[k] PROVE j = k
      <3>1. Waiting(j) = Waiting(k) /\ Waiting(j) \in Nat /\ j \in Int /\ k \in Int
        BY <1>1, <1>2, <1>3, <2>2
      <3>2. ~(j < k) /\ ~(k < j)
        BY <1>3, <3>1 DEF RingInOrder
      <3> QED BY <3>1, <3>2
    <2> QED BY <2>1, <2>2 DEF Bijection, Injection, IsInjective, Surjection
  <1>7. IsFiniteSet(later) /\ Cardinality(later) = size - 1 - i
    <2>1. i + 1 \in Int /\ size - 1 \in Int
      BY <1>1
    <2>2. Cardinality(later) = IF i + 1 > size - 1 THEN 0 ELSE (size - 1) - (i + 1) + 1
      BY <2>1, FS_Interval
    <2> QED BY <1>1, <2>1, <2>2, FS_Interval
  <1> HIDE DEF S, later, f
  <1>8. ExistsBijection(later, S)
    BY <1>6 DEF ExistsBijection
  <1>9. Cardinality(S) = Cardinality(later)
    BY <1>7, <1>8, FS_Bijection
  <1> QED BY <1>7, <1>9 DEF S

\* The accepted events are processed in the order they were accepted in, each
\* once, and none is lost while the worker runs (scripting_runtime.cpp, TryPush
\* and Pop), however often the ring wraps.
THEOREM SpecEventsInOrder == Spec => []EventsInOrder
  <1>1. IInv => EventsInOrder
    <2> SUFFICES ASSUME IInv PROVE EventsInOrder
      OBVIOUS
    <2> USE DEF IInv, QueueInv
    <2>1. \A i \in 0 .. size - 1 : Cardinality({e \in accepted : e > Waiting(i)}) = size - 1 - i
      BY NewerThanWaiting
    <2> DEFINE inRing == {Waiting(i) : i \in 0 .. size - 1}
    <2>2. ~stopping /\ ~workerFailed =>
            accepted = processed \cup inRing \cup ({inHand} \ {NoEvent})
      <3>1. \A e \in accepted : e # NoEvent
        BY DEF QueueType, Events, NoEvent
      <3>2. ~stopping /\ ~workerFailed =>
              \A e \in accepted : e \in processed \/ e = inHand \/ e \in inRing
        BY DEF PastIsAccountedFor
      <3>3. processed \subseteq accepted /\ inRing \subseteq accepted
        BY DEF PastIsAccountedFor, RingInOrder
      <3>4. inHand # NoEvent => inHand \in accepted
        BY DEF PastIsAccountedFor
      <3> HIDE DEF inRing
      <3> QED BY <3>1, <3>2, <3>3, <3>4
    <2>3. inHand # NoEvent => inHand \in accepted \ processed
      BY DEF PastIsAccountedFor
    <2> HIDE DEF IInv, QueueInv
    <2> QED BY <2>1, <2>2, <2>3 DEF EventsInOrder
  <1> QED BY <1>1, SpecIInv, PTL

-----------------------------------------------------------------------------
(* The callbacks a script has scheduled (ScriptSchedule).                  *)

\* The list without its i-th entry keeps the order of the others.
LEMMA RemoveAtIs ==
  ASSUME NEW S, NEW s \in Seq(S), NEW i \in 1 .. Len(s)
  PROVE  /\ RemoveAt(s, i) \in Seq(S)
         /\ Len(RemoveAt(s, i)) = Len(s) - 1
         /\ \A j \in 1 .. Len(s) - 1 : RemoveAt(s, i)[j] = IF j < i THEN s[j] ELSE s[j + 1]
  <1> DEFINE a == SubSeq(s, 1, i - 1)
             z == SubSeq(s, i + 1, Len(s))
  <1>1. Len(s) \in Nat /\ \A j \in 1 .. Len(s) : s[j] \in S
    OBVIOUS
  <1>2. a \in Seq(S) /\ Len(a) = i - 1 /\ \A j \in 1 .. i - 1 : a[j] = s[j]
    <2>1. \A j \in 1 .. i - 1 : s[j] \in S
      BY <1>1
    <2>2. /\ a \in Seq(S) /\ Len(a) = IF 1 <= i - 1 THEN (i - 1) - 1 + 1 ELSE 0
          /\ \A j \in 1 .. (i - 1) - 1 + 1 : a[j] = s[1 + j - 1]
      BY <2>1, SubSeqProperties
    <2> QED BY <2>2, <1>1
  <1>3. z \in Seq(S) /\ Len(z) = Len(s) - i /\ \A j \in 1 .. Len(s) - i : z[j] = s[i + j]
    <2>1. \A j \in i + 1 .. Len(s) : s[j] \in S
      BY <1>1
    <2>2. /\ z \in Seq(S) /\ Len(z) = IF i + 1 <= Len(s) THEN Len(s) - (i + 1) + 1 ELSE 0
          /\ \A j \in 1 .. Len(s) - (i + 1) + 1 : z[j] = s[(i + 1) + j - 1]
      BY <2>1, <1>1, SubSeqProperties
    <2> QED BY <2>2, <1>1
  <1> HIDE DEF a, z
  <1>4. /\ a \o z \in Seq(S) /\ Len(a \o z) = Len(a) + Len(z)
        /\ \A j \in 1 .. Len(a) + Len(z) : (a \o z)[j] = IF j <= Len(a) THEN a[j] ELSE z[j - Len(a)]
    BY <1>2, <1>3, ConcatProperties
  <1>5. \A j \in 1 .. Len(s) - 1 : (a \o z)[j] = IF j < i THEN s[j] ELSE s[j + 1]
    <2> SUFFICES ASSUME NEW j \in 1 .. Len(s) - 1
                 PROVE  (a \o z)[j] = IF j < i THEN s[j] ELSE s[j + 1]
      OBVIOUS
    <2>1. CASE j < i
      BY <2>1, <1>1, <1>2, <1>3, <1>4
    <2>2. CASE ~(j < i)
      <3>1. j - (i - 1) \in 1 .. Len(s) - i /\ i + (j - (i - 1)) = j + 1
        BY <2>2, <1>1
      <3>2. z[j - (i - 1)] = s[j + 1]
        BY <3>1, <1>3
      <3> QED BY <2>2, <3>2, <1>1, <1>2, <1>3, <1>4
    <2> QED BY <2>1, <2>2
  <1>6. RemoveAt(s, i) = a \o z
    BY DEF RemoveAt, a, z
  <1>7. a \o z \in Seq(S) /\ Len(a \o z) = Len(s) - 1
    BY <1>1, <1>2, <1>3, <1>4
  <1> QED BY <1>5, <1>6, <1>7

LEMMA IdsCount == ASSUME ScheduleType, IdsInOnePlace
                  PROVE  IsFiniteSet(ids) /\ Cardinality(ids) \in Nat
  <1>1. IsFiniteSet(Ids)
    BY ScheduleAssumption, FS_Interval DEF Ids
  <1> QED BY <1>1, FS_Subset, FS_CardinalityType DEF ScheduleType

\* A callback in hand has an id that is not 0.
LEMMA HandCounts ==
  ASSUME NEW x \in Entries
  PROVE  {x.id} \ {0} = {x.id} /\ Cardinality({x.id} \ {0}) = 1
  <1>1. x.id \in 1 .. MaxCallbacks
    BY DEF Entries, Ids
  <1>2. {x.id} \ {0} = {x.id}
    BY <1>1, ScheduleAssumption
  <1> QED BY <1>2, FS_Singleton

LEMMA EmptyHandCounts ==
  ASSUME running = Idle
  PROVE  InHand = {} /\ Cardinality(InHand) = 0
  BY FS_EmptySet DEF InHand, Idle

\* A step that leaves the callbacks where they are.
LEMMA PlacesKept ==
  ASSUME EachRunsOnce, IdsInOnePlace, UNCHANGED <<scheduled, running, ids, finished>>
  PROVE  EachRunsOnce' /\ IdsInOnePlace'
  <1>1. InList' = InList /\ InHand' = InHand /\ HasRun' = HasRun
    BY DEF InList, InHand, HasRun
  <1>2. scheduled' = scheduled /\ ids' = ids /\ finished' = finished
    OBVIOUS
  <1> QED BY <1>1, <1>2 DEF EachRunsOnce, IdsInOnePlace

LEMMA InitSchedule == ScheduleInit => ScheduleInv
  <1> SUFFICES ASSUME ScheduleInit PROVE ScheduleInv
    OBVIOUS
  <1> USE DEF ScheduleInit
  <1>1. ScheduleType
    <2>1. scheduled \in Seq(Entries) /\ Len(scheduled) = 0
      OBVIOUS
    <2>2. date \in Dates /\ errors \in 0 .. ErrorLimit /\ index \in 1 .. MaxScheduled + 1
      BY ScheduleAssumption DEF Dates
    <2>3. running \in Entries \cup {[target |-> 0, id |-> 0]}
      BY DEF Idle
    <2>4. Len(scheduled) <= MaxScheduled
      BY <2>1, ScheduleAssumption
    <2>5. ids \subseteq Ids /\ disabled \in BOOLEAN /\ pc \in {"idle", "daily", "walk", "due"}
          /\ finished \subseteq [target : 1 .. MaxDate + MaxDays, id : Ids, date : Dates]
      OBVIOUS
    <2> HIDE DEF ScheduleInit
    <2> QED BY <2>1, <2>2, <2>3, <2>4, <2>5 DEF ScheduleType
  <1>2. InList = {} /\ InHand = {} /\ HasRun = {} /\ Len(scheduled) = 0
    BY EmptyHandCounts DEF InList, HasRun
  <1>3. EachRunsOnce
    BY <1>2, FS_EmptySet DEF EachRunsOnce
  <1>4. IdsInOnePlace
    BY <1>2, FS_EmptySet, ScheduleAssumption DEF IdsInOnePlace
  <1>5. LimitHolds /\ NonePassedWasDue
    BY ScheduleAssumption DEF LimitHolds, NonePassedWasDue
  <1> QED BY <1>1, <1>3, <1>4, <1>5 DEF ScheduleInv

LEMMA EventKeeps == ScheduleInv /\ (\E d \in Dates : Event(d)) => ScheduleInv'
  <1> SUFFICES ASSUME ScheduleInv, NEW d \in Dates, Event(d) PROVE ScheduleInv'
    OBVIOUS
  <1> USE DEF Event, ScheduleInv
  <1>1. ScheduleType'
    BY DEF ScheduleType
  <1>2. LimitHolds' /\ NonePassedWasDue'
    BY DEF LimitHolds, NonePassedWasDue
  <1> QED BY <1>1, <1>2, PlacesKept

\* Two steps that only count an error or none.
LEMMA CountsKeep ==
  ASSUME ScheduleType, LimitHolds, CountsOrNot, pc \in {"daily", "due"}
  PROVE  errors' \in 0 .. ErrorLimit /\ disabled' \in BOOLEAN /\ (disabled' <=> errors' >= ErrorLimit)
  <1>1. ~disabled /\ errors \in 0 .. ErrorLimit /\ ~(errors >= ErrorLimit)
    BY DEF ScheduleType, LimitHolds
  <1>2. CASE NoError
    BY <1>1, <1>2 DEF NoError, ScheduleType
  <1>3. CASE CountError
    <2>1. errors' = errors + 1 /\ (disabled' = (errors' >= ErrorLimit))
      BY <1>3 DEF CountError
    <2>2. errors' \in 0 .. ErrorLimit
      BY <1>1, <2>1, ScheduleAssumption
    <2>3. CASE errors' >= ErrorLimit
      BY <2>1, <2>2, <2>3
    <2>4. CASE ~(errors' >= ErrorLimit)
      <3>1. (errors' >= ErrorLimit) = FALSE
        BY <2>4
      <3>2. disabled' = FALSE
        BY <2>1, <3>1
      <3> QED BY <2>2, <2>4, <3>2
    <2> QED BY <2>3, <2>4
  <1> QED BY <1>2, <1>3 DEF CountsOrNot

LEMMA DailyReturnsKeeps == ScheduleInv /\ DailyReturns => ScheduleInv'
  <1> SUFFICES ASSUME ScheduleInv, DailyReturns PROVE ScheduleInv'
    OBVIOUS
  <1> USE DEF DailyReturns, ScheduleInv
  <1>1. errors' \in 0 .. ErrorLimit /\ disabled' \in BOOLEAN /\ (disabled' <=> errors' >= ErrorLimit)
    BY CountsKeep
  <1>2. ScheduleType'
    BY <1>1, ScheduleAssumption DEF ScheduleType
  <1>3. LimitHolds'
    BY <1>1 DEF LimitHolds
  <1>4. NonePassedWasDue'
    BY DEF NonePassedWasDue
  <1> QED BY <1>2, <1>3, <1>4, PlacesKept

LEMMA SkipCallbackKeeps == ScheduleInv /\ SkipCallback => ScheduleInv'
  <1> SUFFICES ASSUME ScheduleInv, SkipCallback PROVE ScheduleInv'
    OBVIOUS
  <1> USE DEF SkipCallback, InWalk, ScheduleInv
  <1>1. index \in 1 .. Len(scheduled) /\ Len(scheduled) \in Nat
    BY DEF ScheduleType
  <1>2. ScheduleType'
    BY <1>1, ScheduleAssumption DEF ScheduleType
  <1>3. LimitHolds'
    BY DEF LimitHolds
  <1>4. NonePassedWasDue'
    BY <1>1 DEF NonePassedWasDue
  <1> QED BY <1>2, <1>3, <1>4, PlacesKept

LEMMA WalkEndsKeeps == ScheduleInv /\ WalkEnds => ScheduleInv'
  <1> SUFFICES ASSUME ScheduleInv, WalkEnds PROVE ScheduleInv'
    OBVIOUS
  <1> USE DEF WalkEnds, ScheduleInv
  <1>1. ScheduleType'
    BY ScheduleAssumption DEF ScheduleType
  <1>2. LimitHolds' /\ NonePassedWasDue'
    BY DEF LimitHolds, NonePassedWasDue
  <1> QED BY <1>1, <1>2, PlacesKept

LEMMA AfterDaysKeeps == ScheduleInv /\ (\E days \in 1 .. MaxDays : AfterDays(days)) => ScheduleInv'
  <1> SUFFICES ASSUME ScheduleInv, NEW days \in 1 .. MaxDays, AfterDays(days) PROVE ScheduleInv'
    OBVIOUS
  <1> USE DEF AfterDays, ScheduleInv
  <1> DEFINE n == Cardinality(ids) + 1
             new == [target |-> date + days, id |-> n]
             T == 1 .. MaxDate + MaxDays
  <1>1. IsFiniteSet(ids) /\ Cardinality(ids) \in Nat /\ n \in Ids /\ n \notin ids
    BY IdsCount, ScheduleAssumption DEF IdsInOnePlace, Ids
  <1>2. date + days \in T /\ date + days > date
    BY ScheduleAssumption DEF ScheduleType, Dates
  <1>3. new \in Entries
    BY <1>1, <1>2 DEF Entries
  <1>4. /\ scheduled' \in Seq(Entries) /\ Len(scheduled') = Len(scheduled) + 1
        /\ \A i \in 1 .. Len(scheduled) : scheduled'[i] = scheduled[i]
        /\ scheduled'[Len(scheduled) + 1] = new
    <2>1. scheduled' = Append(scheduled, new) /\ scheduled \in Seq(Entries)
      BY DEF ScheduleType
    <2> HIDE DEF new
    <2> QED BY <1>3, <2>1, AppendProperties
  <1>5. Len(scheduled) \in Nat
    BY DEF ScheduleType
  <1>6. ScheduleType'
    <2>1. Len(scheduled') <= MaxScheduled
      BY <1>4, <1>5, ScheduleAssumption
    <2>2. ids' \subseteq Ids
      BY <1>1 DEF ScheduleType
    <2> QED BY <1>4, <2>1, <2>2 DEF ScheduleType
  <1>7. InList' = InList \cup {n} /\ InHand' = InHand /\ HasRun' = HasRun
    <2>1. InHand' = InHand /\ HasRun' = HasRun
      BY DEF InHand, HasRun
    <2>2. new.id = n
      OBVIOUS
    <2>3. \A i \in 1 .. Len(scheduled') : i \in 1 .. Len(scheduled) \/ i = Len(scheduled) + 1
      BY <1>4, <1>5
    <2>4. 1 .. Len(scheduled) \subseteq 1 .. Len(scheduled') /\ Len(scheduled) + 1 \in 1 .. Len(scheduled')
      BY <1>4, <1>5
    <2> HIDE DEF new, n
    <2>5. ASSUME NEW x \in InList' PROVE x \in InList \cup {n}
      BY <1>4, <2>2, <2>3 DEF InList
    <2>6. ASSUME NEW x \in InList \cup {n} PROVE x \in InList'
      BY <1>4, <2>2, <2>4 DEF InList
    <2> QED BY <2>1, <2>5, <2>6
  <1>8. Cardinality(ids') = n /\ ids' = 1 .. n /\ n <= MaxCallbacks
    <2>1. Cardinality(ids') = n
      BY <1>1, FS_AddElement
    <2>2. ids' = 1 .. n
      BY <1>1 DEF IdsInOnePlace
    <2> QED BY <2>1, <2>2, <1>1, ScheduleAssumption DEF Ids
  <1>9. n \notin InList /\ n \notin InHand /\ n \notin HasRun
    BY <1>1 DEF EachRunsOnce
  <1>10. EachRunsOnce'
    <2>1. EachRunsOnce
      OBVIOUS
    <2>2. ids' = InList' \cup InHand' \cup HasRun'
      BY <1>7, <2>1 DEF EachRunsOnce
    <2>3. Cardinality(InHand) \in Nat /\ Cardinality(finished) \in Nat
      BY EmptyHandCounts, HandCounts, FS_CardinalityType DEF IdsInOnePlace, ScheduleType, Idle, InHand
    <2>4. Len(scheduled') + Cardinality(InHand') + Cardinality(finished') = Cardinality(ids')
      BY <1>1, <1>4, <1>5, <1>7, <1>8, <2>1, <2>3 DEF EachRunsOnce
    <2> QED BY <2>1, <2>2, <2>4 DEF EachRunsOnce
  <1>11. IdsInOnePlace'
    <2>1. \A i \in 1 .. Len(scheduled) : scheduled[i].id # n
      BY <1>9 DEF InList
    <2>2. \A i, j \in 1 .. Len(scheduled') : scheduled'[i].id = scheduled'[j].id => i = j
      <3> SUFFICES ASSUME NEW i \in 1 .. Len(scheduled'), NEW j \in 1 .. Len(scheduled'),
                          scheduled'[i].id = scheduled'[j].id
                   PROVE  i = j
        OBVIOUS
      <3>1. i \in 1 .. Len(scheduled) \/ i = Len(scheduled) + 1
        BY <1>4, <1>5
      <3>2. j \in 1 .. Len(scheduled) \/ j = Len(scheduled) + 1
        BY <1>4, <1>5
      <3>3. new.id = n
        OBVIOUS
      <3> HIDE DEF new, n
      <3> QED BY <3>1, <3>2, <3>3, <2>1, <1>4 DEF IdsInOnePlace
    <2>3. /\ InList' \cap InHand' = {} /\ InList' \cap HasRun' = {} /\ InHand' \cap HasRun' = {}
      BY <1>7, <1>9 DEF IdsInOnePlace
    <2> HIDE DEF n
    <2> QED BY <1>8, <2>2, <2>3 DEF IdsInOnePlace
  <1>12. LimitHolds'
    BY DEF LimitHolds
  <1>13. NonePassedWasDue'
    <2>1. new.target > date
      BY <1>2
    <2> HIDE DEF new
    <2>2. ASSUME pc = "due", NEW i \in 1 .. Len(scheduled'), i < index
          PROVE  scheduled'[i].target > date
      <3>1. i \in 1 .. Len(scheduled) \/ i = Len(scheduled) + 1
        BY <1>4, <1>5
      <3> QED BY <2>1, <2>2, <3>1, <1>4 DEF NonePassedWasDue
    <2> QED BY <2>2 DEF NonePassedWasDue
  <1> QED BY <1>6, <1>10, <1>11, <1>12, <1>13

LEMMA RunCallbackKeeps == ScheduleInv /\ RunCallback => ScheduleInv'
  <1> SUFFICES ASSUME ScheduleInv, RunCallback PROVE ScheduleInv'
    OBVIOUS
  <1> USE DEF RunCallback, InWalk, ScheduleInv
  <1> DEFINE len == Len(scheduled)
             From(j) == IF j < index THEN j ELSE j + 1
  <1>1. len \in Nat /\ index \in 1 .. len /\ scheduled \in Seq(Entries)
    BY DEF ScheduleType
  <1>2. /\ scheduled' \in Seq(Entries) /\ Len(scheduled') = len - 1
        /\ \A j \in 1 .. len - 1 : scheduled'[j] = scheduled[From(j)]
    BY <1>1, RemoveAtIs
  <1>3. running' \in Entries /\ running' = scheduled[index] /\ running = Idle
    BY <1>1 DEF ScheduleType, LimitHolds
  <1>4. ScheduleType'
    BY <1>1, <1>2, <1>3, ScheduleAssumption DEF ScheduleType
  <1>5. /\ \A j \in 1 .. len - 1 : From(j) \in 1 .. len /\ From(j) # index
        /\ \A j, k \in 1 .. len - 1 : From(j) = From(k) => j = k
        /\ \A i \in 1 .. len : i # index => \E j \in 1 .. len - 1 : From(j) = i
    <2>1. /\ \A j \in 1 .. len - 1 : From(j) \in 1 .. len /\ From(j) # index
          /\ \A j, k \in 1 .. len - 1 : From(j) = From(k) => j = k
      BY <1>1
    <2>2. ASSUME NEW i \in 1 .. len, i # index PROVE \E j \in 1 .. len - 1 : From(j) = i
      <3>1. CASE i < index
        BY <1>1, <3>1
      <3>2. CASE i > index
        <4>1. i - 1 \in 1 .. len - 1 /\ From(i - 1) = i
          BY <1>1, <3>2
        <4> QED BY <4>1
      <3> QED BY <1>1, <2>2, <3>1, <3>2
    <2> QED BY <2>1, <2>2
  <1> HIDE DEF From
  <1>6. InList = InList' \cup InHand' /\ InHand' = {running'.id} /\ InHand = {} /\ HasRun' = HasRun
        /\ Cardinality(InHand') = 1 /\ Cardinality(InHand) = 0
    <2>1. InHand' = {running'.id} /\ Cardinality(InHand') = 1
      BY <1>3, HandCounts DEF InHand
    <2>2. InHand = {} /\ Cardinality(InHand) = 0
      BY <1>3, EmptyHandCounts
    <2>3. HasRun' = HasRun
      BY DEF HasRun
    <2>4. ASSUME NEW x \in InList PROVE x \in InList' \cup {running'.id}
      <3>1. PICK i \in 1 .. len : x = scheduled[i].id
        BY <2>4 DEF InList
      <3>2. CASE i = index
        BY <1>3, <3>1, <3>2
      <3>3. CASE i # index
        <4>1. PICK j \in 1 .. len - 1 : From(j) = i
          BY <1>5, <3>3
        <4>2. j \in 1 .. Len(scheduled') /\ scheduled'[j].id = x
          BY <1>2, <3>1, <4>1
        <4> QED BY <4>2 DEF InList
      <3> QED BY <3>2, <3>3
    <2>5. ASSUME NEW x \in InList' PROVE x \in InList
      <3>1. PICK j \in 1 .. len - 1 : x = scheduled'[j].id
        BY <1>2, <2>5 DEF InList
      <3>2. From(j) \in 1 .. len /\ scheduled[From(j)].id = x
        BY <1>2, <1>5, <3>1
      <3> QED BY <3>2 DEF InList
    <2>6. running'.id \in InList
      BY <1>1, <1>3 DEF InList
    <2> QED BY <2>1, <2>2, <2>3, <2>4, <2>5, <2>6
  <1>7. running'.id \notin InList'
    <2> SUFFICES ASSUME running'.id \in InList' PROVE FALSE
      OBVIOUS
    <2>1. PICK j \in 1 .. len - 1 : running'.id = scheduled'[j].id
      BY <1>2 DEF InList
    <2>2. From(j) \in 1 .. len /\ From(j) # index /\ scheduled[From(j)].id = scheduled[index].id
      BY <1>2, <1>3, <1>5, <2>1
    <2> QED BY <1>1, <2>2 DEF IdsInOnePlace
  <1>8. EachRunsOnce'
    <2>1. Cardinality(finished) \in Nat
      BY FS_CardinalityType DEF IdsInOnePlace
    <2> QED BY <1>1, <1>2, <1>6, <2>1 DEF EachRunsOnce
  <1>9. IdsInOnePlace'
    <2>1. \A i, j \in 1 .. Len(scheduled') : scheduled'[i].id = scheduled'[j].id => i = j
      <3> SUFFICES ASSUME NEW i \in 1 .. len - 1, NEW j \in 1 .. len - 1,
                          scheduled'[i].id = scheduled'[j].id
                   PROVE  i = j
        BY <1>2
      <3>1. scheduled[From(i)].id = scheduled[From(j)].id
        BY <1>2
      <3>2. From(i) = From(j)
        BY <1>5, <3>1 DEF IdsInOnePlace
      <3> QED BY <1>5, <3>2
    <2>2. InList' \cap InHand' = {} /\ InList' \cap HasRun' = {} /\ InHand' \cap HasRun' = {}
      BY <1>6, <1>7 DEF IdsInOnePlace
    <2> QED BY <2>1, <2>2 DEF IdsInOnePlace
  <1>10. LimitHolds'
    BY <1>3, ScheduleAssumption DEF LimitHolds, Idle, Entries
  <1>11. NonePassedWasDue'
    BY <1>1, <1>2 DEF NonePassedWasDue, From
  <1> QED BY <1>4, <1>8, <1>9, <1>10, <1>11

LEMMA CallbackReturnsKeeps == ScheduleInv /\ CallbackReturns => ScheduleInv'
  <1> SUFFICES ASSUME ScheduleInv, CallbackReturns PROVE ScheduleInv'
    OBVIOUS
  <1> USE DEF CallbackReturns, ScheduleInv
  <1> DEFINE run == [target |-> running.target, id |-> running.id, date |-> date]
  <1>1. errors' \in 0 .. ErrorLimit /\ disabled' \in BOOLEAN /\ (disabled' <=> errors' >= ErrorLimit)
    BY CountsKeep
  <1>2. running \in Entries /\ running.target <= date
    BY DEF LimitHolds, ScheduleType, Idle
  <1>3. ScheduleType'
    <2>1. run \in [target : 1 .. MaxDate + MaxDays, id : Ids, date : Dates]
      BY <1>2 DEF Entries, ScheduleType
    <2> HIDE DEF run
    <2>2. finished' = finished \cup {run}
      BY DEF run
    <2> QED BY <1>1, <2>1, <2>2 DEF ScheduleType, Idle
  <1>4. /\ InList' = InList /\ HasRun' = HasRun \cup {running.id}
        /\ InHand' = {} /\ Cardinality(InHand') = 0
        /\ InHand = {running.id} /\ Cardinality(InHand) = 1
    <2>1. InList' = InList
      BY DEF InList
    <2>2. InHand = {running.id} /\ Cardinality(InHand) = 1
      BY <1>2, HandCounts DEF InHand
    <2>3. InHand' = {} /\ Cardinality(InHand') = 0
      BY EmptyHandCounts, FS_EmptySet DEF InHand, Idle
    <2>4. HasRun' = HasRun \cup {running.id}
      <3>1. finished' = finished \cup {run} /\ run.id = running.id
        OBVIOUS
      <3> HIDE DEF run
      <3>2. ASSUME NEW x \in HasRun' PROVE x \in HasRun \cup {running.id}
        BY <3>1, <3>2 DEF HasRun
      <3>3. ASSUME NEW x \in HasRun \cup {running.id} PROVE x \in HasRun'
        BY <3>1, <3>3 DEF HasRun
      <3> QED BY <3>2, <3>3
    <2> QED BY <2>1, <2>2, <2>3, <2>4
  <1>5. run \notin finished /\ running.id \notin HasRun
    BY <1>4 DEF IdsInOnePlace, HasRun
  <1>6. IsFiniteSet(finished') /\ Cardinality(finished') = Cardinality(finished) + 1
        /\ Cardinality(finished) \in Nat
    BY <1>5, FS_AddElement, FS_CardinalityType DEF IdsInOnePlace
  <1>7. EachRunsOnce'
    <2>1. Len(scheduled) \in Nat
      BY DEF ScheduleType
    <2>2. \A f \in finished' : f.target <= f.date
      BY <1>2 DEF EachRunsOnce
    <2> QED BY <1>4, <1>6, <2>1, <2>2 DEF EachRunsOnce
  <1>8. IdsInOnePlace'
    BY <1>4, <1>6 DEF IdsInOnePlace
  <1>9. LimitHolds'
    BY <1>1 DEF LimitHolds
  <1>10. NonePassedWasDue'
    BY DEF NonePassedWasDue
  <1> QED BY <1>3, <1>7, <1>8, <1>9, <1>10

LEMMA NextSchedule == ScheduleInv /\ [ScheduleNext]_scheduleVars => ScheduleInv'
  <1>1. ASSUME ScheduleInv, UNCHANGED scheduleVars PROVE ScheduleInv'
    <2> USE <1>1 DEF scheduleVars, ScheduleInv
    <2>1. ScheduleType'
      BY DEF ScheduleType
    <2>2. LimitHolds' /\ NonePassedWasDue'
      BY DEF LimitHolds, NonePassedWasDue
    <2> QED BY <2>1, <2>2, PlacesKept
  <1> QED BY <1>1, EventKeeps, AfterDaysKeeps, DailyReturnsKeeps, SkipCallbackKeeps, RunCallbackKeeps,
             CallbackReturnsKeeps, WalkEndsKeeps DEF ScheduleNext

\* For any limits and any sequence of events: while callbacks schedule callbacks
\* none is lost, run twice or run early, the error limit holds, and an event
\* leaves none waiting that was due on its date, unless the script was disabled
\* (scripting_runtime.cpp, Script::Process, AfterDays and Fail).
THEOREM ScheduleSpecScheduleIsKept == ScheduleSpec => ScheduleIsKept
  <1>1. ScheduleInv /\ ScheduleInv' /\ [ScheduleNext]_scheduleVars =>
          [/\ ScheduleType' /\ EachRunsOnce'
           /\ pc = "walk" /\ pc' = "idle" /\ ~disabled =>
                \A i \in 1 .. Len(scheduled) : scheduled[i].target > date]_scheduleVars
    <2> SUFFICES ASSUME ScheduleInv, ScheduleInv', ScheduleNext, pc = "walk", pc' = "idle", ~disabled,
                        NEW i \in 1 .. Len(scheduled)
                 PROVE  scheduled[i].target > date
      BY DEF ScheduleInv
    <2>1. WalkEnds
      BY DEF ScheduleNext, Event, AfterDays, DailyReturns, SkipCallback, RunCallback, CallbackReturns
    <2>2. i < index /\ Len(scheduled) \in Nat
      BY <2>1 DEF WalkEnds, ScheduleInv, ScheduleType
    <2> QED BY <2>2 DEF ScheduleInv, NonePassedWasDue
  <1> QED BY <1>1, InitSchedule, NextSchedule, PTL DEF ScheduleSpec, ScheduleIsKept

=============================================================================
