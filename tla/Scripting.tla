----------------------------- MODULE Scripting -----------------------------
(***************************************************************************)
(* The scripting plugin (plugins/scripting/src): the game thread copies    *)
(* each daily event into a bounded ring, a worker runs the Lua scripts on  *)
(* it, and a script may request one native pause at a time, which the game *)
(* thread performs at the next event and the worker reports in the log.    *)
(*                                                                         *)
(* Three threads: the loader's (OnLoad, OnUnload), the game's (the daily   *)
(* callback) and the worker's (Runtime::Run).  A step ends where another   *)
(* thread can see the difference.  The registration of the daily callback  *)
(* is the one Registration specifies: unregister stops new calls and waits *)
(* for one in flight.                                                      *)
(***************************************************************************)
EXTENDS Integers, FiniteSets

CONSTANTS
  Capacity,      \* queue_capacity
  MaxEvents,     \* bound of the checks on daily events
  MaxRequests,   \* bound of the checks on pause requests accepted
  LoadMayFail,   \* a script may fail to load, or the registration be refused
  WorkerMayFail  \* an exception may escape a script's processing

ASSUME ScriptingAssumption ==
  /\ Capacity \in Nat \ {0}
  /\ MaxEvents \in Nat
  /\ MaxRequests \in Nat
  /\ LoadMayFail \in BOOLEAN
  /\ WorkerMayFail \in BOOLEAN

Requests  == 1 .. MaxRequests
Events    == 1 .. MaxEvents
Positions == 0 .. Capacity - 1
NoEvent   == 0
NoRequest == 0

\* set_paused's answers and the cancellation at unload differ only in the
\* message logged: what is followed is the request a result answers.
VARIABLES
  \* Plugin: pause_request_state_, and the request it is about.
  request, current,
  \* Runtime: pause_result_ (the request whose result it holds), the ring,
  \* stopping_, worker_failed_, and the owner of mutex_.
  result, ring, head, tail, size, stopping, workerFailed, mutex,
  asleep,        \* the worker is blocked in wake_.wait
  mainPc, gamePc, workerPc,
  registered,    \* the daily callback may be entered
  alive,         \* runtime_ exists
  inHand,        \* the event the worker is processing
  reporting,     \* the request the worker is reporting
  cancelled,     \* OnUnload found the request pending
  \* History: events seen, accepted, processed; requests a script was told
  \* are queued, those whose pause was attempted, those logged.
  events, accepted, processed, taken, applied, logged

slot    == <<request, current>>
queue   == <<ring, head, tail, size, accepted>>
stop    == <<stopping, workerFailed>>
main    == <<mainPc, registered, alive, cancelled>>
worker  == <<workerPc, inHand, reporting, processed>>
history == <<events, taken, applied, logged>>
vars    == <<slot, result, queue, stop, mutex, asleep, main, gamePc, worker, history>>

MainPcs == {"start", "starting", "register", "abort", "loaded", "unregister", "drain",
            "report", "report_notify", "stop", "stop_notify", "join", "done"}
GamePcs == {"idle", "apply", "set_paused", "report", "notify", "push", "try", "push_notify"}
WorkerPcs == {"none", "load", "poll", "report", "consumed", "pop", "process", "lock",
              "test", "block", "wait", "last_poll", "last_report", "last_consumed",
              "unload", "ended"}

SlotType ==
  /\ request \in {"free", "pending", "awaiting", "closed"}
  /\ current \in Requests \cup {NoRequest}
  /\ result \in Requests \cup {NoRequest} /\ reporting \in Requests \cup {NoRequest}
  /\ taken \subseteq Requests /\ applied \subseteq Requests /\ logged \subseteq Requests

QueueType ==
  /\ ring \in [Positions -> Events \cup {NoEvent}]
  /\ head \in Positions /\ tail \in Positions /\ size \in 0 .. Capacity
  /\ inHand \in Events \cup {NoEvent}
  /\ events \in 0 .. MaxEvents
  /\ accepted \subseteq Events /\ processed \subseteq Events

ThreadType ==
  /\ stopping \in BOOLEAN /\ workerFailed \in BOOLEAN
  /\ mutex \in {"none", "worker"} /\ asleep \in BOOLEAN
  /\ mainPc \in MainPcs /\ gamePc \in GamePcs /\ workerPc \in WorkerPcs
  /\ registered \in BOOLEAN /\ alive \in BOOLEAN /\ cancelled \in BOOLEAN

TypeOK == SlotType /\ QueueType /\ ThreadType

Init ==
  /\ request = "closed" /\ current = NoRequest
  /\ result = NoRequest
  /\ ring = [p \in Positions |-> NoEvent] /\ head = 0 /\ tail = 0 /\ size = 0
  /\ stopping = FALSE /\ workerFailed = FALSE
  /\ mutex = "none" /\ asleep = FALSE
  /\ mainPc = "start" /\ gamePc = "idle" /\ workerPc = "none"
  /\ registered = FALSE /\ alive = FALSE /\ cancelled = FALSE
  /\ inHand = NoEvent /\ reporting = NoRequest
  /\ events = 0 /\ accepted = {} /\ processed = {}
  /\ taken = {} /\ applied = {} /\ logged = {}

GoesMain(from, to)   == mainPc = from /\ mainPc' = to
GoesGame(from, to)   == gamePc = from /\ gamePc' = to
GoesWorker(from, to) == workerPc = from /\ workerPc' = to

-----------------------------------------------------------------------------
(* The loader's thread: OnLoad                                             *)

\* The slot opens and Runtime::Start creates the worker and waits for it.
Load ==
  /\ GoesMain("start", "starting")
  /\ request' = "free"
  /\ alive' = TRUE
  /\ workerPc' = "load"
  /\ UNCHANGED <<current, result, queue, stop, mutex, asleep, registered, cancelled, gamePc,
                 inHand, reporting, processed, history>>

\* The worker reported that every script loaded.
Started ==
  /\ workerPc \notin {"load", "ended"}
  /\ GoesMain("starting", "register")
  /\ UNCHANGED <<slot, result, queue, stop, mutex, asleep, registered, alive, cancelled, gamePc,
                 worker, history>>

\* A script did not load: the worker ended, the slot closes, runtime_ goes and
\* OnLoad throws; the OnUnload that follows finds nothing to do.
StartFails ==
  /\ workerPc = "ended"
  /\ GoesMain("starting", "done")
  /\ request' = "closed"
  /\ alive' = FALSE
  /\ UNCHANGED <<current, result, queue, stop, mutex, asleep, registered, cancelled, gamePc,
                 worker, history>>

Register ==
  /\ GoesMain("register", "loaded")
  /\ registered' = TRUE
  /\ UNCHANGED <<slot, result, queue, stop, mutex, asleep, alive, cancelled, gamePc, worker, history>>

\* register_daily refused: the slot closes and the runtime is stopped.
RegisterFails ==
  /\ LoadMayFail
  /\ GoesMain("register", "stop")
  /\ request' = "closed"
  /\ UNCHANGED <<current, result, queue, stop, mutex, asleep, registered, alive, cancelled, gamePc,
                 worker, history>>

-----------------------------------------------------------------------------
(* The loader's thread: OnUnload                                           *)

\* pause_request_state_.exchange(2).
CloseSlot ==
  /\ GoesMain("loaded", "unregister")
  /\ request' = "closed"
  /\ cancelled' = (request = "pending")
  /\ UNCHANGED <<current, result, queue, stop, mutex, asleep, registered, alive, gamePc,
                 worker, history>>

\* unregister: no new call of the callback ...
Unregister ==
  /\ GoesMain("unregister", "drain")
  /\ registered' = FALSE
  /\ UNCHANGED <<slot, result, queue, stop, mutex, asleep, alive, cancelled, gamePc, worker, history>>

\* ... and none in flight.
Drained ==
  /\ gamePc = "idle"
  /\ GoesMain("drain", IF cancelled THEN "report" ELSE "stop")
  /\ UNCHANGED <<slot, result, queue, stop, mutex, asleep, registered, alive, cancelled, gamePc,
                 worker, history>>

\* ReportPauseResult(Shutdown).
CancelRequest ==
  /\ GoesMain("report", "report_notify")
  /\ result' = current
  /\ UNCHANGED <<slot, queue, stop, mutex, asleep, registered, alive, cancelled, gamePc, worker, history>>

NotifyCancel ==
  /\ GoesMain("report_notify", "stop")
  /\ asleep' = FALSE
  /\ UNCHANGED <<slot, result, queue, stop, mutex, registered, alive, cancelled, gamePc, worker, history>>

\* Runtime::Stop, under the mutex: accepted events are discarded.
Stop ==
  /\ mutex = "none"
  /\ GoesMain("stop", "stop_notify")
  /\ stopping' = TRUE
  /\ size' = 0
  /\ UNCHANGED <<slot, result, ring, head, tail, accepted, workerFailed, mutex, asleep, registered,
                 alive, cancelled, gamePc, worker, history>>

NotifyStop ==
  /\ GoesMain("stop_notify", "join")
  /\ asleep' = FALSE
  /\ UNCHANGED <<slot, result, queue, stop, mutex, registered, alive, cancelled, gamePc, worker, history>>

\* join, then runtime_.reset().
Join ==
  /\ workerPc = "ended"
  /\ GoesMain("join", "done")
  /\ alive' = FALSE
  /\ UNCHANGED <<slot, result, queue, stop, mutex, asleep, registered, cancelled, gamePc, worker, history>>

-----------------------------------------------------------------------------
(* The game's thread: OnDailyUpdate                                        *)

\* A daily event reaches the callback.
DailyUpdate ==
  /\ registered
  /\ events < MaxEvents
  /\ GoesGame("idle", "apply")
  /\ events' = events + 1
  /\ UNCHANGED <<slot, result, queue, stop, mutex, asleep, main, worker, taken, applied, logged>>

\* Fault: the slot is freed as the pause is attempted.
ClaimRequest_Frees ==
  /\ request = "pending"
  /\ GoesGame("apply", "set_paused")
  /\ request' = "free"
  /\ UNCHANGED <<current, result, queue, stop, mutex, asleep, main, worker, history>>

\* ApplyPauseRequest: the exchange from pending to awaiting ...
ClaimRequest ==
  /\ request = "pending"
  /\ GoesGame("apply", "set_paused")
  /\ request' = "awaiting"
  /\ UNCHANGED <<current, result, queue, stop, mutex, asleep, main, worker, history>>

\* ... fails: there is no request to apply.
NoRequestToApply ==
  /\ request # "pending"
  /\ GoesGame("apply", "push")
  /\ UNCHANGED <<slot, result, queue, stop, mutex, asleep, main, worker, history>>

\* set_paused(1), whatever it answers.
SetPaused ==
  /\ GoesGame("set_paused", "report")
  /\ applied' = applied \cup {current}
  /\ UNCHANGED <<slot, result, queue, stop, mutex, asleep, main, worker, events, taken, logged>>

\* ReportPauseResult: the store, not under the mutex, ...
ReportResult ==
  /\ GoesGame("report", "notify")
  /\ result' = current
  /\ UNCHANGED <<slot, queue, stop, mutex, asleep, main, worker, history>>

\* ... and notify_one.
NotifyResult ==
  /\ GoesGame("notify", "push")
  /\ asleep' = FALSE
  /\ UNCHANGED <<slot, result, queue, stop, mutex, main, worker, history>>

\* Another thread is in a critical section of mutex_ (Pop, the wait's
\* predicate, Stop), or may be.
Contended == mutex # "none" \/ workerPc \in {"pop", "lock"} \/ mainPc = "stop"

\* TryPush looks whether the worker failed ...
TryPush ==
  /\ GoesGame("push", IF workerFailed THEN "idle" ELSE "try")
  /\ UNCHANGED <<slot, result, queue, stop, mutex, asleep, main, worker, history>>

\* ... and drops the event if the mutex is taken, the runtime is stopping or
\* the ring is full.
DropEvent ==
  /\ Contended \/ stopping \/ size = Capacity
  /\ GoesGame("try", "idle")
  /\ UNCHANGED <<slot, result, queue, stop, mutex, asleep, main, worker, history>>

PushEvent ==
  /\ mutex = "none" /\ ~stopping /\ size < Capacity
  /\ GoesGame("try", "push_notify")
  /\ ring' = [ring EXCEPT ![tail] = events]
  /\ tail' = (tail + 1) % Capacity
  /\ size' = size + 1
  /\ accepted' = accepted \cup {events}
  /\ UNCHANGED <<slot, result, head, stop, mutex, asleep, main, worker, history>>

\* Fault: TryPush does not notify.
NotifyPush_Silent ==
  /\ GoesGame("push_notify", "idle")
  /\ UNCHANGED <<slot, result, queue, stop, mutex, asleep, main, worker, history>>

NotifyPush ==
  /\ GoesGame("push_notify", "idle")
  /\ asleep' = FALSE
  /\ UNCHANGED <<slot, result, queue, stop, mutex, main, worker, history>>

-----------------------------------------------------------------------------
(* The worker's thread: scripts                                            *)

\* Lua runs while scripts load, on each event and when they unload.
InLua == workerPc \in {"load", "process", "unload"}

\* Fault: a request enters an occupied slot.
RequestPause_Occupied ==
  /\ InLua
  /\ request \in {"free", "awaiting"}
  /\ Cardinality(taken) < MaxRequests
  /\ request' = "pending"
  /\ current' = Cardinality(taken) + 1
  /\ taken' = taken \cup {current'}
  /\ UNCHANGED <<result, queue, stop, mutex, asleep, main, gamePc, worker, events, applied, logged>>

\* smedley.request_pause() returns true; while the slot is not free it
\* returns false and changes nothing.
RequestPause ==
  /\ InLua
  /\ request = "free"
  /\ Cardinality(taken) < MaxRequests
  /\ request' = "pending"
  /\ current' = Cardinality(taken) + 1
  /\ taken' = taken \cup {current'}
  /\ UNCHANGED <<result, queue, stop, mutex, asleep, main, gamePc, worker, events, applied, logged>>

\* Every script loaded, or one did not and the others are deleted.
ScriptsLoaded ==
  /\ GoesWorker("load", "poll")
  /\ UNCHANGED <<slot, result, queue, stop, mutex, asleep, main, gamePc, inHand, reporting,
                 processed, history>>

ScriptsFail ==
  /\ LoadMayFail
  /\ GoesWorker("load", "ended")
  /\ UNCHANGED <<slot, result, queue, stop, mutex, asleep, main, gamePc, inHand, reporting,
                 processed, history>>

\* The scripts have run on the event, errors of theirs included ...
EventProcessed ==
  /\ GoesWorker("process", "poll")
  /\ processed' = processed \cup {inHand}
  /\ inHand' = NoEvent
  /\ UNCHANGED <<slot, result, queue, stop, mutex, asleep, main, gamePc, reporting, history>>

\* ... or an exception escaped: the worker leaves its loop.
WorkerFails ==
  /\ WorkerMayFail
  /\ GoesWorker("process", "unload")
  /\ workerFailed' = TRUE
  /\ inHand' = NoEvent
  /\ UNCHANGED <<slot, result, queue, stopping, mutex, asleep, main, gamePc, reporting, processed, history>>

\* on_unload ran, the scripts are deleted.
ScriptsUnloaded ==
  /\ GoesWorker("unload", "ended")
  /\ UNCHANGED <<slot, result, queue, stop, mutex, asleep, main, gamePc, inHand, reporting,
                 processed, history>>

-----------------------------------------------------------------------------
(* The worker's thread: Runtime::Run                                       *)

\* ProcessPauseResult: pause_result_.exchange(0) finds a result or none.
PollResult ==
  /\ workerPc \in {"poll", "last_poll"}
  /\ workerPc' = IF result # NoRequest
                 THEN IF workerPc = "poll" THEN "report" ELSE "last_report"
                 ELSE IF workerPc = "poll" THEN "pop" ELSE "unload"
  /\ reporting' = result
  /\ result' = NoRequest
  /\ UNCHANGED <<slot, queue, stop, mutex, asleep, main, gamePc, inHand, processed, history>>

LogResult ==
  /\ workerPc \in {"report", "last_report"}
  /\ workerPc' = IF workerPc = "report" THEN "consumed" ELSE "last_consumed"
  /\ logged' = logged \cup {reporting}
  /\ UNCHANGED <<slot, result, queue, stop, mutex, asleep, main, gamePc, inHand, reporting,
                 processed, events, taken, applied>>

\* pause_result_consumed_: the exchange from awaiting to free.
FreeSlot ==
  /\ workerPc \in {"consumed", "last_consumed"}
  /\ workerPc' = IF workerPc = "consumed" THEN "poll" ELSE "unload"
  /\ request' = IF request = "awaiting" THEN "free" ELSE request
  /\ reporting' = NoRequest
  /\ UNCHANGED <<current, result, queue, stop, mutex, asleep, main, gamePc, inHand, processed, history>>

\* Fault: Pop does not move the head.
PopEvent_KeepsHead ==
  /\ mutex = "none"
  /\ size # 0
  /\ GoesWorker("pop", "process")
  /\ inHand' = ring[head]
  /\ size' = size - 1
  /\ UNCHANGED <<slot, result, ring, head, tail, accepted, stop, mutex, asleep, main, gamePc,
                 reporting, processed, history>>

PopEvent ==
  /\ mutex = "none"
  /\ size # 0
  /\ GoesWorker("pop", "process")
  /\ inHand' = ring[head]
  /\ head' = (head + 1) % Capacity
  /\ size' = size - 1
  /\ UNCHANGED <<slot, result, ring, tail, accepted, stop, mutex, asleep, main, gamePc,
                 reporting, processed, history>>

PopNothing ==
  /\ mutex = "none"
  /\ size = 0
  /\ GoesWorker("pop", "lock")
  /\ UNCHANGED <<slot, result, queue, stop, mutex, asleep, main, gamePc, inHand, reporting,
                 processed, history>>

\* unique_lock; if (stopping_) break, with no look at the result.
LockQueue ==
  /\ mutex = "none"
  /\ IF stopping
     THEN GoesWorker("lock", "unload") /\ UNCHANGED mutex
     ELSE GoesWorker("lock", "test") /\ mutex' = "worker"
  /\ UNCHANGED <<slot, result, queue, stop, asleep, main, gamePc, inHand, reporting,
                 processed, history>>

\* The predicate of wake_.wait, under the mutex.
TestPredicate ==
  /\ workerPc = "test"
  /\ IF stopping \/ size # 0 \/ result # NoRequest
     THEN /\ workerPc' = IF stopping THEN "last_poll" ELSE "poll"
          /\ mutex' = "none"
     ELSE workerPc' = "block" /\ UNCHANGED mutex
  /\ UNCHANGED <<slot, result, queue, stop, asleep, main, gamePc, inHand, reporting,
                 processed, history>>

\* It was false: release the mutex and sleep, in one step.
Block ==
  /\ GoesWorker("block", "wait")
  /\ mutex' = "none"
  /\ asleep' = TRUE
  /\ UNCHANGED <<slot, result, queue, stop, main, gamePc, inHand, reporting, processed, history>>

\* Notified: take the mutex and test again.
Wake ==
  /\ ~asleep /\ mutex = "none"
  /\ GoesWorker("wait", "test")
  /\ mutex' = "worker"
  /\ UNCHANGED <<slot, result, queue, stop, asleep, main, gamePc, inHand, reporting,
                 processed, history>>

\* A condition variable may wake up of itself.
WakeSpuriously ==
  /\ asleep
  /\ asleep' = FALSE
  /\ UNCHANGED <<slot, result, queue, stop, mutex, main, gamePc, worker, history>>

-----------------------------------------------------------------------------
MainStep ==
  \/ Load \/ Started \/ StartFails \/ Register \/ RegisterFails
  \/ Unregister \/ Drained \/ CancelRequest \/ NotifyCancel \/ Stop \/ NotifyStop \/ Join

GameStep ==
  \/ ClaimRequest \/ NoRequestToApply \/ SetPaused \/ ReportResult \/ NotifyResult
  \/ TryPush \/ DropEvent \/ PushEvent \/ NotifyPush

WorkerStep ==
  \/ ScriptsLoaded \/ ScriptsFail \/ EventProcessed \/ WorkerFails \/ ScriptsUnloaded
  \/ PollResult \/ LogResult \/ FreeSlot \/ PopEvent \/ PopNothing
  \/ LockQueue \/ TestPredicate \/ Block \/ Wake

Next ==
  \/ MainStep \/ CloseSlot \/ DailyUpdate \/ GameStep
  \/ RequestPause \/ WorkerStep \/ WakeSpuriously

Spec == Init /\ [][Next]_vars

\* Each thread runs on: the game's callback and the scripts, stopped by their
\* instruction budget, return, and Stop gets the mutex the worker keeps taking
\* and releasing.  Nothing makes the game deliver an event (a
\* paused one does not), a script ask for a pause, the host unload the plugin
\* or a wait end of itself.
Fairness ==
  WF_vars(MainStep) /\ SF_vars(Stop) /\ WF_vars(GameStep) /\ WF_vars(WorkerStep)

FairSpec == Spec /\ Fairness

-----------------------------------------------------------------------------
(* What the plugin promises.                                               *)

\* "The one-slot queue remains occupied through native readback and
\* worker-side result logging": the slot is not free while a request has been
\* taken and its result is not in the log.
SlotHeldUntilLogged ==
  request = "free" => taken = logged

\* A pause is attempted for a request or the request is cancelled, never both,
\* and what is logged is one of the two.
OneFate ==
  /\ cancelled => current \notin applied
  /\ logged \subseteq applied \cup (IF cancelled THEN {current} ELSE {})

\* The callback never runs on a runtime that is gone, nor the worker.
RuntimeOutlivesUse ==
  gamePc # "idle" \/ workerPc \notin {"none", "ended"} => alive

\* The slot of the pause goes round over three threads and is closed by the
\* loader at any moment: each request has one fate, one at a time.
OnePauseAtATime == TypeOK /\ SlotHeldUntilLogged /\ OneFate /\ RuntimeOutlivesUse

\* A result is never stored over one the worker has not taken, and a game is
\* not paused after unload: once OnUnload closed the slot no pause is begun.
NoPauseLostOrLate ==
  [][/\ result # NoRequest => result' \in {result, NoRequest}
     /\ gamePc' = "set_paused" /\ gamePc # "set_paused" => mainPc = "loaded"]_vars

\* The ring holds the newest accepted events, oldest first; what is accepted
\* and not in it has been processed or is being processed, so none is lost,
\* run twice or run out of order.
Waiting(i) == ring[(head + i) % Capacity]

EventsInOrder ==
  LET places == 0 .. size - 1
      inRing == {Waiting(i) : i \in places}
  IN /\ \A i \in places : Cardinality({e \in accepted : e > Waiting(i)}) = size - 1 - i
     /\ ~stopping /\ ~workerFailed =>
          accepted = processed \cup inRing \cup ({inHand} \ {NoEvent})
     /\ inHand # NoEvent => inHand \in accepted \ processed

\* An accepted event is processed unless the runtime stops or the worker fails;
\* and OnUnload and a failed OnLoad return: the worker always ends.
WorkIsDone ==
  /\ \A e \in Events : e \in accepted ~> e \in processed \/ stopping \/ workerFailed
  /\ mainPc \notin {"start", "loaded"} ~> mainPc \in {"loaded", "done"}

\* "Completion or rejection is written to smedley.log": while the plugin stays
\* loaded.
AppliedIsLogged ==
  \A r \in Requests : r \in applied ~> r \in logged \/ mainPc # "loaded"

-----------------------------------------------------------------------------
(* The inductive invariants behind them.                                   *)

\* Which threads run at each point of the plugin's life, and when the slot is
\* closed.
LifeInOrder ==
  /\ mainPc # "abort"
  /\ alive <=> mainPc \notin {"start", "done"}
  /\ registered <=> mainPc \in {"loaded", "unregister"}
  /\ gamePc # "idle" => mainPc \in {"loaded", "unregister", "drain"}
  /\ mainPc = "start" => workerPc = "none"
  /\ mainPc = "done" => workerPc = "ended"
  /\ stopping => mainPc \in {"stop_notify", "join", "done"}
  /\ request = "closed" <=> mainPc \notin {"starting", "register", "loaded"}
  /\ cancelled => mainPc \notin {"start", "starting", "register", "loaded"}
  /\ mainPc = "report" => cancelled

\* Where the one request is that has been taken and is not done with.
Asked     == request = "pending" \/ (cancelled /\ mainPc \in {"unregister", "drain", "report"})
Pausing   == gamePc = "set_paused"
Answering == gamePc = "report"
Answered  == result # NoRequest
Reporting == workerPc \in {"report", "last_report"}
Finishing == workerPc \in {"consumed", "last_consumed"}

InOnePlace ==
  /\ Asked => ~(Pausing \/ Answering \/ Answered \/ Reporting \/ Finishing)
  /\ Pausing \/ Answering => ~(Answered \/ Reporting \/ Finishing)
  /\ Answered => ~(Reporting \/ Finishing)

\* The slot and the histories say where that is.
PlaceIsKnown ==
  /\ request = "free" => ~(Pausing \/ Answering \/ Answered \/ Reporting \/ Finishing)
  /\ request = "awaiting" => Pausing \/ Answering \/ Answered \/ Reporting \/ Finishing
  /\ Asked \/ Pausing => current \notin applied
  /\ Asked \/ Pausing \/ Answering \/ Answered \/ Reporting => current \in taken \ logged
  /\ Answering => current \in applied
  /\ Answered => result = current
  /\ Reporting \/ Finishing => reporting = current
  /\ Answered \/ Reporting => current \in applied \/ cancelled
  /\ Finishing => current \in logged

\* Requests are taken one after the other, each after the last was logged.
TakenInTurn ==
  /\ taken = 1 .. current /\ (mainPc = "start" => current = NoRequest)
  /\ 1 .. current - 1 \subseteq logged /\ logged \subseteq taken /\ applied \subseteq taken
  /\ SlotHeldUntilLogged /\ OneFate

\* The ring between head and tail.
RingInPlace ==
  /\ stopping => size = 0
  /\ ~stopping => tail = (head + size) % Capacity

\* The ring holds accepted events in the order they came, those that are past
\* came before, and nothing else is past until the plugin stops.
RingInOrder ==
  /\ \A i \in 0 .. size - 1 : Waiting(i) \in accepted
  /\ \A i, j \in 0 .. size - 1 : i < j => Waiting(i) < Waiting(j)
  /\ \A e \in accepted, i \in 0 .. size - 1 :
       e >= Waiting(i) => \E j \in 0 .. size - 1 : e = Waiting(j)
  /\ \A e \in processed, i \in 0 .. size - 1 : e < Waiting(i)
  /\ inHand # NoEvent => \A i \in 0 .. size - 1 : inHand < Waiting(i)

PastIsAccountedFor ==
  /\ processed \subseteq accepted
  /\ inHand # NoEvent <=> workerPc = "process"
  /\ inHand # NoEvent => inHand \in accepted \ processed
  /\ ~stopping /\ ~workerFailed =>
       \A e \in accepted :
         e \in processed \/ e = inHand \/ \E i \in 0 .. size - 1 : e = Waiting(i)

\* The event the game's thread carries is newer than every accepted one.
NewestLast ==
  /\ accepted \subseteq 1 .. events
  /\ gamePc \in GamePcs \ {"idle", "push_notify"} => events # 0 /\ events \notin accepted

SlotInv  == SlotType /\ InOnePlace /\ PlaceIsKnown /\ TakenInTurn
QueueInv == QueueType /\ RingInPlace /\ RingInOrder /\ PastIsAccountedFor /\ NewestLast
IInv     == ThreadType /\ LifeInOrder /\ SlotInv /\ QueueInv

=============================================================================
