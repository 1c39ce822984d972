----------------------------- MODULE Telemetry -----------------------------
(***************************************************************************)
(* The telemetry plugin's delivery path (plugins/telemetry/src): records   *)
(* get a sequence number and go into a bounded queue, one writer thread    *)
(* appends them to the file, and a drain stops everything in order.        *)
(*                                                                         *)
(* Threads: external emitters (two publication calls), the game's daily  *)
(* callback, the host (OnLoad, OnUnload), a client that drains, the writer *)
(* (Writer::Run) and the drain thread (Writer::Stop).  A record is its     *)
(* sequence number.  A step ends where another thread can see the          *)
(* difference; a lock held over several steps has its holder in the state. *)
(***************************************************************************)
EXTENDS Integers, Sequences, FiniteSets, SequencesExt

CONSTANTS
  External,        \* threads that call the publication ABI
  Capacity,        \* queue_capacity
  Reserve,         \* slots TryWrite leaves to reliable records
  MaxSequence,     \* the largest uint64_t: no number follows it
  WriteMayFail,    \* WriteFile or FlushFileBuffers may fail
  SpawnMayFail     \* the drain thread may fail to start

Drainers == {"client", "host"}
Emitters == External \cup {"game"} \cup Drainers
Numbers  == 1 .. MaxSequence
None     == "none"
NoRecord == 0
Fragment == 0    \* in the file: what a failed write left there

ASSUME TelemetryAssumption ==
  /\ Capacity \in Nat \ {0} /\ Reserve \in 0 .. Capacity
  /\ MaxSequence \in Nat \ {0}
  /\ WriteMayFail \in BOOLEAN /\ SpawnMayFail \in BOOLEAN
  /\ IsFiniteSet(External) /\ External \cap ({"game", None} \cup Drainers) = {}

VARIABLES
  sequence, emitting,           \* sequence_, owner of emission_mutex_
  queue, stopped, writeFailed,  \* queue_, stopped_, write_failed_
  writerPc, inHand,             \* Writer::Run and its line
  file, started,                \* what was written, started_ (output_ open)
  emitPc, mode, number,         \* each thread's EmitRecord
  inCallback, registered,       \* OnDailyUpdate holds producer_mutex_; daily_registration_
  sink, sinkOwner,              \* active_sink, exclusive owner of active_sink_mutex
  drainPc,                      \* each drainer's call
  draining, drainStarted, stopPc, summary, drainResult,  \* the drain and its thread
  alive,                        \* writer_ exists
  dropped                       \* history: numbers of records counted as dropped

emission == <<sequence, emitting, emitPc, mode, number, dropped>>
channel  == <<queue, stopped, writeFailed>>
writer   == <<writerPc, inHand>>
output   == <<file, started>>
daily    == <<inCallback, registered>>
sinkVars == <<sink, sinkOwner>>
drain    == <<drainPc, draining, drainStarted>>
stopping == <<stopPc, summary, drainResult>>
vars     == <<emission, channel, writer, output, daily, sinkVars, drain, stopping, alive>>

DrainPcs == {"idle", "load", "loading", "metadata", "register", "open", "loaded", "sink",
             "state", "quiesce", "unregister", "summaries", "summarizing", "spawn",
             "await", "reset", "join", "done"}

EmitType ==
  /\ sequence \in 0 .. MaxSequence /\ dropped \subseteq Numbers
  /\ emitting \in Emitters \cup {None}
  /\ emitPc \in [Emitters -> {"idle", "gate", "publish", "push"}]
  /\ mode \in [Emitters -> {"fast", "reliable", "initial"}]
  /\ number \in [Emitters -> Numbers \cup {NoRecord}]

OutputType ==
  /\ queue \in Seq(Numbers) /\ Len(queue) <= Capacity
  /\ stopped \in BOOLEAN /\ writeFailed \in BOOLEAN
  /\ writerPc \in {"pop", "write", "flush_now", "tick", "flush", "check", "wait", "ended"}
  /\ inHand \in Numbers \cup {NoRecord}
  /\ file \in Seq(Numbers \cup {Fragment}) /\ started \in BOOLEAN /\ alive \in BOOLEAN
  /\ stopPc \in {"none", "stop", "join", "summary", "write", "flush", "close", "result", "done"}
  /\ summary \in Numbers \cup {NoRecord}
  /\ drainResult \in {"none", "completed", "failed"}

DrainType ==
  /\ inCallback \in BOOLEAN /\ registered \in BOOLEAN
  /\ sink \in BOOLEAN /\ sinkOwner \in Drainers \cup {None}
  /\ drainPc \in [Drainers -> DrainPcs]
  /\ draining \in BOOLEAN /\ drainStarted \in BOOLEAN

TypeOK == EmitType /\ OutputType /\ DrainType

\* OnLoad has started the writer.
Init ==
  /\ sequence = 0 /\ emitting = None
  /\ queue = <<>> /\ stopped = FALSE /\ writeFailed = FALSE
  /\ writerPc = "pop" /\ inHand = NoRecord
  /\ file = <<>> /\ started = TRUE
  /\ emitPc = [t \in Emitters |-> "idle"]
  /\ mode = [t \in Emitters |-> "fast"]
  /\ number = [t \in Emitters |-> NoRecord]
  /\ inCallback = FALSE /\ registered = FALSE
  /\ sink = FALSE /\ sinkOwner = None
  /\ drainPc = [d \in Drainers |-> IF d = "host" THEN "load" ELSE "idle"]
  /\ draining = FALSE /\ drainStarted = FALSE
  /\ stopPc = "none" /\ summary = NoRecord /\ drainResult = "none"
  /\ alive = TRUE
  /\ dropped = {}

-----------------------------------------------------------------------------
(* EmitRecord and PublishPreparedRecord                                    *)

StartsRecord(t, m, pc) ==
  /\ emitPc[t] = "idle"
  /\ emitPc' = [emitPc EXCEPT ![t] = pc]
  /\ mode' = [mode EXCEPT ![t] = m]
  /\ UNCHANGED <<sequence, emitting, number, dropped>>

EmitReturns(t) ==
  /\ emitPc' = [emitPc EXCEPT ![t] = "idle"]
  /\ mode' = [mode EXCEPT ![t] = "fast"]
  /\ number' = [number EXCEPT ![t] = NoRecord]

\* SmedleyTelemetryEmitV1, whose try-lock fails while a drain owns the sink,
\* and SmedleyTelemetryEmitReliableV1, which waits for it.
ExternalEmit(t, m) ==
  /\ sinkOwner = None
  /\ sink
  /\ StartsRecord(t, m, "gate")
  /\ UNCHANGED <<channel, writer, output, daily, sinkVars, drain, stopping, alive>>

\* draining_ refuses every record but an initial one.
PassGate(t) ==
  /\ emitPc[t] = "gate"
  /\ IF draining
     THEN EmitReturns(t)
     ELSE emitPc' = [emitPc EXCEPT ![t] = "publish"] /\ UNCHANGED <<mode, number>>
  /\ UNCHANGED <<sequence, emitting, dropped, channel, writer, output, daily, sinkVars,
                 drain, stopping, alive>>

\* emission_mutex_ is taken and the next number with it; after the last one
\* the record is dropped.
TakeNumber(t) ==
  /\ emitPc[t] = "publish"
  /\ emitting = None
  /\ IF sequence = MaxSequence
     THEN EmitReturns(t) /\ UNCHANGED <<sequence, emitting>>
     ELSE /\ sequence' = sequence + 1
          /\ emitting' = t
          /\ number' = [number EXCEPT ![t] = sequence + 1]
          /\ emitPc' = [emitPc EXCEPT ![t] = "push"]
          /\ UNCHANGED mode
  /\ UNCHANGED <<dropped, channel, writer, output, daily, sinkVars, drain, stopping, alive>>

\* Fault: the nonblocking path goes on to the queue without the mutex.
LoseRace_Queues(t) ==
  /\ emitPc[t] = "publish"
  /\ emitting # None /\ mode[t] = "fast"
  /\ sequence < MaxSequence
  /\ sequence' = sequence + 1
  /\ number' = [number EXCEPT ![t] = sequence + 1]
  /\ emitPc' = [emitPc EXCEPT ![t] = "push"]
  /\ UNCHANGED <<emitting, mode, dropped, channel, writer, output, daily, sinkVars, drain,
                 stopping, alive>>

\* Nonblocking and the mutex is taken: a number is used up and dropped.
LoseRace(t) ==
  /\ emitPc[t] = "publish"
  /\ emitting # None /\ mode[t] = "fast"
  /\ IF sequence = MaxSequence
     THEN UNCHANGED <<sequence, dropped>>
     ELSE sequence' = sequence + 1 /\ dropped' = dropped \cup {sequence + 1}
  /\ EmitReturns(t)
  /\ UNCHANGED <<emitting, channel, writer, output, daily, sinkVars, drain, stopping, alive>>

\* Somebody may be inside the queue's lock.
Contended == writerPc \in {"pop", "check"} \/ stopPc = "stop"

\* What TryWrite's records may fill; Push has every slot.
Room(t) == IF mode[t] = "fast" THEN Capacity - Reserve ELSE Capacity

Push(t) ==
  /\ emitPc[t] = "push"
  /\ ~stopped
  /\ Len(queue) < Room(t)
  /\ queue' = Append(queue, number[t])
  /\ emitting' = None
  /\ EmitReturns(t)
  /\ UNCHANGED <<sequence, dropped, stopped, writeFailed, writer, output, daily, sinkVars,
                 drain, stopping, alive>>

\* A host that cannot queue the records of the session's start stops the load.
FailsLoad(t) ==
  drainPc' = IF t = "host" /\ drainPc["host"] \in {"loading", "metadata"}
             THEN [drainPc EXCEPT !["host"] = "reset"] ELSE drainPc

\* Fault: emission_mutex_ is kept.
PushRefused_KeepsMutex(t) ==
  /\ emitPc[t] = "push"
  /\ stopped \/ Len(queue) >= Room(t) \/ (mode[t] = "fast" /\ Contended)
  /\ dropped' = dropped \cup {number[t]}
  /\ FailsLoad(t)
  /\ EmitReturns(t)
  /\ UNCHANGED <<sequence, emitting, channel, writer, output, daily, sinkVars, draining,
                 drainStarted, stopping, alive>>

\* The queue is stopped or full, or TryPush finds its lock taken.
PushRefused(t) ==
  /\ emitPc[t] = "push"
  /\ stopped \/ Len(queue) >= Room(t) \/ (mode[t] = "fast" /\ Contended)
  /\ dropped' = dropped \cup {number[t]}
  /\ emitting' = None
  /\ FailsLoad(t)
  /\ EmitReturns(t)
  /\ UNCHANGED <<sequence, channel, writer, output, daily, sinkVars, draining,
                 drainStarted, stopping, alive>>

-----------------------------------------------------------------------------
(* OnDailyUpdate                                                           *)

\* DrainUntil owns producer_mutex_.
Quiesced == \E d \in Drainers : drainPc[d] \in {"unregister", "summaries", "summarizing", "spawn"}

\* A callback that cannot share producer_mutex_, or sees draining_, returns.
BeginDaily ==
  /\ registered /\ ~inCallback
  /\ ~Quiesced /\ ~draining
  /\ inCallback' = TRUE
  /\ UNCHANGED <<emission, channel, writer, output, registered, sinkVars, drain, stopping, alive>>

\* A collector's record goes through EmitRecord or, prepared by PrepareEnvelope,
\* straight to PublishPreparedRecord.
DailyEmit(m, pc) ==
  /\ inCallback
  /\ StartsRecord("game", m, pc)
  /\ UNCHANGED <<channel, writer, output, daily, sinkVars, drain, stopping, alive>>

EndDaily ==
  /\ inCallback /\ emitPc["game"] = "idle"
  /\ inCallback' = FALSE
  /\ UNCHANGED <<emission, channel, writer, output, registered, sinkVars, drain, stopping, alive>>

-----------------------------------------------------------------------------
(* Writer::Run                                                             *)

\* FailWrite.
WriteFails == writeFailed' = TRUE /\ stopped' = TRUE

Pop ==
  /\ writerPc = "pop"
  /\ IF queue = <<>>
     THEN writerPc' = "tick" /\ UNCHANGED <<inHand, queue>>
     ELSE /\ inHand' = Head(queue) /\ queue' = Tail(queue)
          /\ writerPc' = "write"
  /\ UNCHANGED <<emission, stopped, writeFailed, output, daily, sinkVars, drain, stopping, alive>>

\* WriteLine, then a flush when the interval is over.
Write ==
  /\ writerPc = "write"
  /\ file' = Append(file, inHand)
  /\ inHand' = NoRecord
  /\ writerPc' \in {"pop", "flush_now"}
  /\ UNCHANGED <<emission, channel, started, daily, sinkVars, drain, stopping, alive>>

\* A failed WriteFile may leave part of the line; the loop over the queue ends.
WriteBreaks ==
  /\ writerPc = "write" /\ WriteMayFail
  /\ WriteFails
  /\ file' \in {file, Append(file, Fragment)}
  /\ inHand' = NoRecord
  /\ writerPc' = "tick"
  /\ UNCHANGED <<emission, queue, started, daily, sinkVars, drain, stopping, alive>>

\* FlushFileBuffers inside the loop over the queue.
FlushNow ==
  /\ writerPc = "flush_now"
  /\ \/ writerPc' = "pop" /\ UNCHANGED <<stopped, writeFailed>>
     \/ WriteMayFail /\ WriteFails /\ writerPc' = "tick"
  /\ UNCHANGED <<emission, queue, inHand, output, daily, sinkVars, drain, stopping, alive>>

Tick ==
  /\ writerPc = "tick"
  /\ writerPc' \in {"flush", "check"}
  /\ UNCHANGED <<emission, channel, inHand, output, daily, sinkVars, drain, stopping, alive>>

\* FlushFileBuffers after it; a failure ends the thread.
Flush ==
  /\ writerPc = "flush"
  /\ \/ writerPc' = "check" /\ UNCHANGED <<stopped, writeFailed>>
     \/ WriteMayFail /\ WriteFails /\ writerPc' = "ended"
  /\ UNCHANGED <<emission, queue, inHand, output, daily, sinkVars, drain, stopping, alive>>

\* Fault: the thread ends with records in the queue.
CheckStopped_LeavesQueue ==
  /\ writerPc = "check"
  /\ writerPc' = IF stopped THEN "ended" ELSE "wait"
  /\ UNCHANGED <<emission, channel, inHand, output, daily, sinkVars, drain, stopping, alive>>

\* queue_.stopped(): stopped and empty.
CheckStopped ==
  /\ writerPc = "check"
  /\ writerPc' = IF stopped /\ queue = <<>> THEN "ended" ELSE "wait"
  /\ UNCHANGED <<emission, channel, inHand, output, daily, sinkVars, drain, stopping, alive>>

\* wait_until ends by a notification or after the interval: notifications are
\* sent without wake_mutex_ and may be missed.
Wake ==
  /\ writerPc = "wait"
  /\ writerPc' = "pop"
  /\ UNCHANGED <<emission, channel, inHand, output, daily, sinkVars, drain, stopping, alive>>

-----------------------------------------------------------------------------
(* OnLoad, after the writer has started                                    *)

HostGoes(from, to) == drainPc["host"] = from /\ drainPc' = [drainPc EXCEPT !["host"] = to]

\* session.started, then the capture metadata: pushed like reliable records.
LoadRecord ==
  /\ HostGoes("load", "loading") \/ HostGoes("loading", "metadata")
  /\ StartsRecord("host", "initial", "publish")
  /\ UNCHANGED <<channel, writer, output, daily, sinkVars, draining, drainStarted, stopping, alive>>

LoadRecordsQueued ==
  /\ emitPc["host"] = "idle"
  /\ HostGoes("loading", "open") \/ HostGoes("metadata", "register")
  /\ UNCHANGED <<emission, channel, writer, output, daily, sinkVars, draining, drainStarted,
                 stopping, alive>>

\* register_daily, refused: the writer is stopped and the load fails.
RegisterDaily ==
  /\ \/ HostGoes("register", "open") /\ registered' = TRUE
     \/ HostGoes("register", "reset") /\ UNCHANGED registered
  /\ UNCHANGED <<emission, channel, writer, output, inCallback, sinkVars, draining,
                 drainStarted, stopping, alive>>

OpenSink ==
  /\ HostGoes("open", "loaded")
  /\ sinkOwner = None
  /\ sink' = TRUE
  /\ UNCHANGED <<emission, channel, writer, output, daily, sinkOwner, draining, drainStarted,
                 stopping, alive>>

-----------------------------------------------------------------------------
(* SmedleyTelemetryDrainV1 and OnUnload: DrainUntil.  A second concurrent  *)
(* client is told BUSY and changes nothing, so there is one.               *)

Goes(d, from, to) == drainPc[d] = from /\ drainPc' = [drainPc EXCEPT ![d] = to]

\* What a drain call that is over goes on to: OnUnload destroys the writer.
After(d) == IF d = "host" THEN "reset" ELSE "idle"

LeavesSink(d) == sinkOwner' = IF sinkOwner = d THEN None ELSE sinkOwner

BeginDrain ==
  /\ Goes("client", "idle", "sink") \/ Goes("host", "loaded", "sink")
  /\ UNCHANGED <<emission, channel, writer, output, daily, sinkVars, draining, drainStarted,
                 stopping, alive>>

\* active_sink_mutex, exclusive: no external emitter is inside.
SinkFree == sinkOwner = None /\ \A t \in External : emitPc[t] = "idle"

\* A client keeps the sink for its whole call, or is told UNAVAILABLE ...
ClientTakesSink ==
  /\ SinkFree
  /\ Goes("client", "sink", IF sink THEN "state" ELSE "idle")
  /\ sinkOwner' = IF sink THEN "client" ELSE None
  /\ UNCHANGED <<emission, channel, writer, output, daily, sink, draining, drainStarted,
                 stopping, alive>>

\* ... and the host takes it away and lets go of the lock.
HostTakesSink ==
  /\ SinkFree
  /\ Goes("host", "sink", "state")
  /\ sink' = FALSE
  /\ UNCHANGED <<emission, channel, writer, output, daily, sinkOwner, draining, drainStarted,
                 stopping, alive>>

\* drain_mutex_ is held, except by a drainer waiting for drain_complete_.
InDrain(d)  == drainPc[d] \in {"quiesce", "unregister", "summaries", "summarizing", "spawn"}
StateFree   == \A d \in Drainers : ~InDrain(d)

\* Fault: a drain that was started is started again.
EnterDrain_Restarts(d) ==
  /\ StateFree
  /\ Goes(d, "state", "quiesce")
  /\ draining' = TRUE
  /\ UNCHANGED <<emission, channel, writer, output, daily, sinkVars, drainStarted, stopping, alive>>

\* The first drain closes the ingress; a later one joins what it started.
EnterDrain(d) ==
  /\ StateFree
  /\ Goes(d, "state", IF drainStarted THEN "await" ELSE "quiesce")
  /\ draining' = TRUE
  /\ UNCHANGED <<emission, channel, writer, output, daily, sinkVars, drainStarted, stopping, alive>>

\* producer_mutex_, exclusive: the daily callback is out.
QuiesceProducers(d) ==
  /\ ~inCallback
  /\ Goes(d, "quiesce", "unregister")
  /\ UNCHANGED <<emission, channel, writer, output, daily, sinkVars, draining, drainStarted,
                 stopping, alive>>

\* unregister waits for callbacks, which cannot share producer_mutex_ and return.
UnregisterDaily(d) ==
  /\ Goes(d, "unregister", "summaries")
  /\ registered' = FALSE
  /\ UNCHANGED <<emission, channel, writer, output, inCallback, sinkVars, draining, drainStarted,
                 stopping, alive>>

\* EmitFamilySummaries, for any families: initial records pass the gate.
EmitFamilySummary(d) ==
  /\ Goes(d, "summaries", "summarizing")
  /\ StartsRecord(d, "initial", "publish")
  /\ UNCHANGED <<channel, writer, output, daily, sinkVars, draining, drainStarted, stopping, alive>>

FamilySummariesDone(d) ==
  /\ emitPc[d] = "idle"
  /\ Goes(d, "summaries", "spawn") \/ Goes(d, "summarizing", "spawn")
  /\ UNCHANGED <<emission, channel, writer, output, daily, sinkVars, draining, drainStarted,
                 stopping, alive>>

SpawnDrainThread(d) ==
  /\ Goes(d, "spawn", "await")
  /\ drainStarted' = TRUE
  /\ stopPc' = "stop"
  /\ UNCHANGED <<emission, channel, writer, output, daily, sinkVars, draining, summary,
                 drainResult, alive>>

\* No thread: FAILED, and a later drain starts over.
SpawnFails(d) ==
  /\ SpawnMayFail
  /\ Goes(d, "spawn", After(d))
  /\ LeavesSink(d)
  /\ UNCHANGED <<emission, channel, writer, output, daily, sink, draining, drainStarted,
                 stopping, alive>>

\* drain_complete_, and the drain thread is joined.
DrainCompletes(d) ==
  /\ stopPc = "done"
  /\ Goes(d, "await", After(d))
  /\ LeavesSink(d)
  /\ UNCHANGED <<emission, channel, writer, output, daily, sink, draining, drainStarted,
                 stopping, alive>>

\* The client's deadline: each wait of a call can end the call.
DrainTimesOut ==
  /\ \E pc \in {"sink", "state", "quiesce", "await"} : Goes("client", pc, "idle")
  /\ LeavesSink("client")
  /\ UNCHANGED <<emission, channel, writer, output, daily, sink, draining, drainStarted,
                 stopping, alive>>

-----------------------------------------------------------------------------
(* Writer::Stop on the drain thread                                        *)

StopGoes(from, to) == stopPc = from /\ stopPc' = to

StopQueue ==
  /\ StopGoes("stop", "join")
  /\ stopped' = TRUE
  /\ UNCHANGED <<emission, queue, writeFailed, writer, output, daily, sinkVars, drain, summary,
                 drainResult, alive>>

JoinWriter ==
  /\ writerPc = "ended"
  /\ StopGoes("join", IF writeFailed THEN "close" ELSE "summary")
  /\ UNCHANGED <<emission, channel, writer, output, daily, sinkVars, drain, summary,
                 drainResult, alive>>

\* MakeSummaryEnvelope takes the next number, if there is one.
MakeSummary ==
  /\ emitting = None
  /\ IF sequence = MaxSequence
     THEN StopGoes("summary", "flush") /\ UNCHANGED <<sequence, summary>>
     ELSE /\ StopGoes("summary", "write")
          /\ sequence' = sequence + 1
          /\ summary' = sequence + 1
  /\ UNCHANGED <<emitting, emitPc, mode, number, dropped, channel, writer, output, daily,
                 sinkVars, drain, drainResult, alive>>

WriteSummary ==
  /\ \/ /\ StopGoes("write", "flush")
        /\ file' = Append(file, summary)
        /\ UNCHANGED <<stopped, writeFailed>>
     \/ /\ WriteMayFail /\ StopGoes("write", "close")
        /\ file' \in {file, Append(file, Fragment)}
        /\ WriteFails
  /\ UNCHANGED <<emission, queue, writer, started, daily, sinkVars, drain, summary, drainResult,
                 alive>>

FlushSummary ==
  /\ StopGoes("flush", "close")
  /\ \/ UNCHANGED <<stopped, writeFailed>>
     \/ WriteMayFail /\ WriteFails
  /\ UNCHANGED <<emission, queue, writer, output, daily, sinkVars, drain, summary, drainResult,
                 alive>>

CloseOutput ==
  /\ StopGoes("close", "result")
  /\ started' = FALSE
  /\ \/ UNCHANGED <<stopped, writeFailed>>
     \/ WriteMayFail /\ WriteFails
  /\ UNCHANGED <<emission, queue, writer, file, daily, sinkVars, drain, summary, drainResult,
                 alive>>

PostResult ==
  /\ StateFree
  /\ StopGoes("result", "done")
  /\ drainResult' = IF writeFailed THEN "failed" ELSE "completed"
  /\ UNCHANGED <<emission, channel, writer, output, daily, sinkVars, drain, summary, alive>>

-----------------------------------------------------------------------------
(* The host destroys the writer: Writer::Stop without a summary unless the *)
(* drain has stopped it.                                                   *)

ResetWriter ==
  /\ IF started
     THEN HostGoes("reset", "join") /\ stopped' = TRUE /\ UNCHANGED alive
     ELSE HostGoes("reset", "done") /\ alive' = FALSE /\ UNCHANGED stopped
  /\ UNCHANGED <<emission, queue, writeFailed, writer, output, daily, sinkVars, draining,
                 drainStarted, stopping>>

ResetJoins ==
  /\ writerPc = "ended"
  /\ HostGoes("join", "done")
  /\ started' = FALSE /\ alive' = FALSE
  /\ UNCHANGED <<emission, channel, writer, file, daily, sinkVars, draining, drainStarted,
                 stopping>>

-----------------------------------------------------------------------------
EmitStep(t) == PassGate(t) \/ TakeNumber(t) \/ LoseRace(t) \/ Push(t) \/ PushRefused(t)

WriterStep ==
  \/ Pop \/ Write \/ WriteBreaks \/ FlushNow \/ Tick \/ Flush \/ CheckStopped \/ Wake

LoadStep == LoadRecord \/ LoadRecordsQueued \/ RegisterDaily \/ OpenSink

DrainStep(d) ==
  \/ EnterDrain(d) \/ QuiesceProducers(d) \/ UnregisterDaily(d) \/ EmitFamilySummary(d)
  \/ FamilySummariesDone(d) \/ SpawnDrainThread(d) \/ SpawnFails(d) \/ DrainCompletes(d)

StopStep ==
  \/ StopQueue \/ JoinWriter \/ MakeSummary \/ WriteSummary \/ FlushSummary
  \/ CloseOutput \/ PostResult

Next ==
  \/ \E t \in External, m \in {"fast", "reliable"} : ExternalEmit(t, m)
  \/ \E t \in Emitters : EmitStep(t)
  \/ BeginDaily \/ EndDaily
  \/ \E m \in {"fast", "reliable"} : DailyEmit(m, "gate")
  \/ DailyEmit("reliable", "publish")
  \/ WriterStep \/ LoadStep
  \/ BeginDrain \/ ClientTakesSink \/ HostTakesSink \/ DrainTimesOut
  \/ \E d \in Drainers : DrainStep(d)
  \/ StopStep \/ ResetWriter \/ ResetJoins

Spec == Init /\ [][Next]_vars

\* Only the writer's thread has to run for what is queued to be written: its
\* wait is over after a second at the latest.
FairSpec == Spec /\ WF_vars(WriterStep)

-----------------------------------------------------------------------------
(* What the delivery path promises.                                        *)

\* The records on their way, oldest first: in the file, with the writer, in
\* the queue, with the emitter that owns emission_mutex_, in the summary.
\* NoRecord stands where there is none, and what a failed write left is none.
Pushed   == IF emitting = None THEN NoRecord ELSE number[emitting]
Summary  == IF stopPc = "write" THEN summary ELSE NoRecord
Pipeline == file \o <<inHand>> \o queue \o <<Pushed, Summary>>

\* "sequence: increasing per emitted record" and "Queue drops can leave gaps":
\* whatever threads compete, the file grows in sequence order and no number is
\* written twice; while writes succeed, a number missing from the pipeline was
\* counted as dropped, and no number is both.
InOrder(s) ==
  \A i, j \in DOMAIN s : i < j /\ s[i] # NoRecord /\ s[j] # NoRecord => s[i] < s[j]
SequenceOrder == InOrder(Pipeline)
GapsAreDrops ==
  ~writeFailed => Range(Pipeline) \ {NoRecord} = (1 .. sequence) \ dropped
NumbersAreExact == TypeOK /\ SequenceOrder /\ GapsAreDrops

\* "completed guarantees new ingress stopped, entered producers returned, every
\* accepted payload consumed, worker joined, final summary written".
CompletedIsComplete ==
  drainResult = "completed" =>
    /\ \A t \in Emitters : emitPc[t] \in {"idle", "gate"}
    /\ ~inCallback /\ ~registered
    /\ Range(file) = (1 .. sequence) \ dropped
    /\ summary = NoRecord \/ Last(file) = summary

\* The writer outlives everybody who uses it.
WriterOutlivesUse ==
  ~alive => /\ writerPc = "ended" /\ stopPc \in {"none", "done"} /\ ~inCallback
            /\ \A t \in Emitters : emitPc[t] = "idle"
            /\ drainPc["client"] \in {"idle", "sink"}

\* Drains end once and in order.  "Later non-recursive call ... never starts
\* another worker": whatever timed out or failed to start, the writer is stopped
\* by one drain thread, what is reported completed is, and nobody is left with a
\* writer that is gone.
DrainEndsOnce ==
  [][/\ stopPc # stopPc' /\ stopPc' = "stop" => stopPc = "none"
     /\ CompletedIsComplete' /\ WriterOutlivesUse']_vars

\* A record that entered the queue reaches the file, unless a write fails.
AcceptedIsWritten ==
  \A n \in Numbers : n \in Range(queue) ~> n \in Range(file) \/ writeFailed

\* Steps that bring a call nearer to its end; the writer's do so once it is to stop.
CallStep ==
  \/ \E t \in Emitters : EmitStep(t)
  \/ EndDaily \/ LoadStep \/ HostTakesSink
  \/ \E d \in Drainers : DrainStep(d)
  \/ StopStep \/ ResetWriter \/ ResetJoins
  \/ stopped /\ WriterStep

\* Nobody waits for ever: with four locks, a callback that is waited for and a
\* queue that refuses, some call can go on while one is under way, whatever
\* drains timed out or failed before.
NoneWaitsForEver ==
  \/ \E t \in Emitters : emitPc[t] # "idle"
  \/ inCallback \/ drainPc["host"] \notin {"loaded", "done"}
    => ENABLED CallStep
-----------------------------------------------------------------------------
(* The inductive invariants behind them.                                   *)

Loading == {"load", "loading", "metadata", "register", "open"}
Calling == {"state", "quiesce", "unregister", "summaries", "summarizing", "spawn", "await"}
Leaving == {"reset", "join", "done"}

\* Who may use the sink, and that no emitter is inside when nobody may.
SinkInOrder ==
  /\ sink <=> drainPc["host"] \in {"loaded", "sink"}
  /\ drainPc["client"] \in {"idle", "sink"} \cup Calling
  /\ sinkOwner = IF drainPc["client"] \in Calling THEN "client" ELSE None
  /\ sinkOwner # None => sink
  /\ sinkOwner # None \/ ~sink => \A t \in External : emitPc[t] = "idle"

\* One drain is started, by the one drainer that is in it.
OneDrain ==
  /\ \A d \in Drainers : InDrain(d) => draining /\ ~drainStarted
  /\ \A d \in Drainers : drainPc[d] = "await" => drainStarted
  /\ drainStarted => draining
  /\ draining => drainPc["host"] \notin Loading
  /\ stopPc = "none" <=> ~drainStarted
  /\ drainPc["host"] \in Leaving => stopPc \in {"none", "done"}

\* When the emitters are out: a drain closes the gate, then waits for the
\* callback, then emits its own records and is done with them.
ProducersOut ==
  /\ Quiesced \/ drainStarted \/ drainPc["host"] \in Leaving => ~inCallback
  /\ draining => \A t \in External : emitPc[t] \in {"idle", "gate"}
  /\ emitPc["game"] # "idle" => inCallback
  /\ \A d \in Drainers :
       emitPc[d] # "idle" => drainPc[d] \in {"loading", "metadata", "summarizing"}
  /\ drainPc["host"] \in Loading \ {"open"} => ~registered /\ ~inCallback
  /\ drainPc["host"] \in Leaving => ~registered \/ draining
  /\ drainStarted \/ (\E d \in Drainers : drainPc[d] \in {"summaries", "summarizing", "spawn"})
       => ~registered

\* The writer ends with its queue, unless a write fails, and before what
\* comes after it.
WriterInOrder ==
  /\ inHand # NoRecord <=> writerPc = "write"
  /\ writerPc = "ended" /\ ~writeFailed => stopped /\ queue = <<>>
  /\ stopPc \notin {"none", "stop", "join"} \/ ~started \/ ~alive => writerPc = "ended"
  /\ stopPc \in {"summary", "write"} => ~writeFailed
  /\ stopPc \in {"none", "stop", "join", "summary"} => summary = NoRecord
  /\ stopPc = "write" => summary # NoRecord
  /\ ~alive => drainPc["host"] = "done"
  /\ drainResult # "none" => stopPc = "done"
  /\ drainResult = "completed" => ~writeFailed

\* The owner of emission_mutex_ is the one that has a number.
OneNumber ==
  \A t \in Emitters : /\ emitPc[t] = "push" <=> emitting = t
                      /\ number[t] = NoRecord <=> emitPc[t] # "push"

\* n, if it is a record, came after everything the writer and the queue have.
Newest(n) ==
  n # NoRecord => \A m \in Range(file) \cup Range(queue) \cup {inHand} : m < n

NumbersInOrder ==
  /\ InOrder(file) /\ InOrder(queue)
  /\ inHand # NoRecord => \A m \in Range(file) : m < inHand
  /\ \A n \in Range(queue), m \in Range(file) \cup {inHand} : m < n
  /\ Newest(Pushed) /\ Newest(Summary) /\ Newest(sequence + 1)
  /\ Pushed <= sequence /\ Summary <= sequence /\ dropped \subseteq 1 .. sequence

\* While writes succeed the numbers given are those on their way and those
\* dropped, and the summary is the last line.
NumbersAreKept ==
  ~writeFailed =>
    /\ (Range(file) \cup Range(queue) \cup {inHand, Pushed, Summary}) \ {NoRecord}
         = (1 .. sequence) \ dropped
    /\ Fragment \notin Range(file)
    /\ stopPc \in {"flush", "close", "result", "done"} /\ summary # NoRecord
         => file # <<>> /\ file[Len(file)] = summary

DrainInv  == SinkInOrder /\ OneDrain /\ ProducersOut
NumberInv == OneNumber /\ NumbersInOrder /\ NumbersAreKept
IInv      == TypeOK /\ DrainInv /\ WriterInOrder /\ NumberInv

=============================================================================
