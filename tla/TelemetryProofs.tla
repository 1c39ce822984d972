---------------------------- MODULE TelemetryProofs ----------------------------
(***************************************************************************)
(* Theorems about Telemetry, for any number of emitters, any queue and any *)
(* number of records: records are written in the order of their numbers,   *)
(* every gap is a counted drop, and drains end once and complete.          *)
(***************************************************************************)
EXTENDS Telemetry, SequenceTheorems, TLAPS

USE DEF None, NoRecord, Fragment

\* What a step does is expanded where Next and vars are.
USE DEF EmitStep, WriterStep, LoadStep, DrainStep, StopStep, ExternalEmit, StartsRecord,
     PassGate, EmitReturns, TakeNumber, LoseRace, Push, PushRefused, FailsLoad, BeginDaily,
     EndDaily, DailyEmit, Pop, Write, WriteBreaks, WriteFails, FlushNow, Tick, Flush,
     CheckStopped, Wake, LoadRecord, HostGoes, LoadRecordsQueued, RegisterDaily, OpenSink,
     BeginDrain, Goes, ClientTakesSink, SinkFree, HostTakesSink, DrainTimesOut, LeavesSink,
     EnterDrain, StateFree, QuiesceProducers, UnregisterDaily, EmitFamilySummary,
     FamilySummariesDone, SpawnDrainThread, SpawnFails, After, DrainCompletes, StopQueue,
     StopGoes, JoinWriter, MakeSummary, WriteSummary, FlushSummary, CloseOutput, PostResult,
     ResetWriter, ResetJoins, emission, channel, writer, output, daily, sinkVars, drain,
     stopping

LEMMA EmittersAre ==
  /\ Emitters = External \cup {"game", "client", "host"} /\ Drainers = {"client", "host"}
  /\ External \cap {"game", "client", "host", None} = {}
  BY TelemetryAssumption DEF Emitters, Drainers

-----------------------------------------------------------------------------
(* Types.  A record in the queue has a number because its emitter had one. *)

LEMMA TypesStay ==
  ASSUME TypeOK, OneNumber, [Next]_vars
  PROVE  TypeOK'
  <1>a. MaxSequence \in Nat /\ Capacity \in Nat /\ \A n \in Numbers : n \in Nat \ {NoRecord}
    BY TelemetryAssumption DEF Numbers
  <1>b. sequence < MaxSequence => sequence + 1 \in Numbers
    BY <1>a DEF TypeOK, EmitType, Numbers
  <1>c. \A t \in Emitters : emitPc[t] = "push" => number[t] \in Numbers
    BY DEF OneNumber, TypeOK, EmitType
  <1>1. EmitType'
    <2>1. sequence' \in 0 .. MaxSequence
      BY TelemetryAssumption DEF Next, vars, TypeOK, EmitType, Numbers
    <2>2. emitting' \in Emitters \cup {None}
      BY EmittersAre DEF Next, vars, TypeOK, EmitType
    <2>3. emitPc' \in [Emitters -> {"idle", "gate", "publish", "push"}]
      BY EmittersAre DEF Next, vars, TypeOK, EmitType
    <2>4. mode' \in [Emitters -> {"fast", "reliable", "initial"}]
      BY EmittersAre DEF Next, vars, TypeOK, EmitType
    <2>5. number' \in [Emitters -> Numbers \cup {NoRecord}]
      <3>1. \/ number' = number
            \/ \E t \in Emitters :
                 \/ number' = [number EXCEPT ![t] = NoRecord]
                 \/ sequence < MaxSequence /\ number' = [number EXCEPT ![t] = sequence + 1]
        BY TelemetryAssumption DEF Next, vars, TypeOK, EmitType
      <3> QED BY <1>b, <3>1 DEF TypeOK, EmitType
    <2>6. dropped' \subseteq Numbers
      <3>1. \/ dropped' = dropped
            \/ \E t \in Emitters : emitPc[t] = "push" /\ dropped' = dropped \cup {number[t]}
            \/ sequence < MaxSequence /\ dropped' = dropped \cup {sequence + 1}
        BY TelemetryAssumption DEF Next, vars, TypeOK, EmitType
      <3> QED BY <1>b, <1>c, <3>1 DEF TypeOK, EmitType
    <2> QED BY <2>1, <2>2, <2>3, <2>4, <2>5, <2>6 DEF EmitType
  <1>2. OutputType'
    <2>1. queue' \in Seq(Numbers) /\ Len(queue') <= Capacity
      <3>1. \/ queue' = queue
            \/ queue # <<>> /\ queue' = Tail(queue)
            \/ \E t \in Emitters :
                 emitPc[t] = "push" /\ Len(queue) < Capacity /\ queue' = Append(queue, number[t])
        BY TelemetryAssumption DEF Next, vars, Room, TypeOK, OutputType
      <3>2. queue \in Seq(Numbers) /\ Len(queue) <= Capacity /\ Len(queue) \in Nat
        BY DEF TypeOK, OutputType
      <3>3. CASE queue' = queue
        BY <3>2, <3>3
      <3>4. CASE queue # <<>> /\ queue' = Tail(queue)
        BY <1>a, <3>2, <3>4
      <3>5. ASSUME NEW t \in Emitters, emitPc[t] = "push", Len(queue) < Capacity,
                   queue' = Append(queue, number[t])
            PROVE  queue' \in Seq(Numbers) /\ Len(queue') <= Capacity
        BY <1>a, <1>c, <3>2, <3>5
      <3> QED BY <3>1, <3>3, <3>4, <3>5
    <2>2. stopped' \in BOOLEAN /\ writeFailed' \in BOOLEAN /\ started' \in BOOLEAN /\ alive' \in BOOLEAN
      <3>1. /\ stopped' = stopped \/ stopped' = TRUE
            /\ writeFailed' = writeFailed \/ writeFailed' = TRUE
            /\ started' = started \/ started' = FALSE
            /\ alive' = alive \/ alive' = FALSE
        BY EmittersAre DEF Next, vars, TypeOK, OutputType
      <3> QED BY <3>1 DEF TypeOK, OutputType
    <2>3. writerPc' \in {"pop", "write", "flush_now", "tick", "flush", "check", "wait", "ended"}
      BY EmittersAre DEF Next, vars, TypeOK, OutputType
    <2>4. inHand' \in Numbers \cup {NoRecord}
      <3>1. inHand' = NoRecord \/ inHand' = inHand \/ (queue # <<>> /\ inHand' = Head(queue))
        BY EmittersAre DEF Next, vars, TypeOK, OutputType
      <3>2. queue # <<>> => Head(queue) \in Numbers
        BY DEF TypeOK, OutputType
      <3> QED BY <3>1, <3>2 DEF TypeOK, OutputType
    <2>5. file' \in Seq(Numbers \cup {Fragment})
      <3>1. \/ file' = file \/ file' = Append(file, inHand)
            \/ file' = Append(file, Fragment) \/ file' = Append(file, summary)
        BY EmittersAre DEF Next, vars, TypeOK, OutputType
      <3>2. file \in Seq(Numbers \cup {Fragment}) /\ {inHand, summary} \subseteq Numbers \cup {Fragment}
        BY DEF TypeOK, OutputType
      <3> HIDE DEF Fragment, NoRecord
      <3> QED BY <3>1, <3>2
    <2>6. stopPc' \in {"none", "stop", "join", "summary", "write", "flush", "close", "result", "done"}
      BY EmittersAre DEF Next, vars, TypeOK, OutputType
    <2>7. summary' \in Numbers \cup {NoRecord}
      <3>1. summary' = summary \/ (sequence # MaxSequence /\ summary' = sequence + 1)
        BY EmittersAre DEF Next, vars, TypeOK, OutputType
      <3>2. sequence # MaxSequence => sequence < MaxSequence
        BY <1>a DEF TypeOK, EmitType
      <3> QED BY <1>b, <3>1, <3>2 DEF TypeOK, OutputType
    <2>8. drainResult' \in {"none", "completed", "failed"}
      BY EmittersAre DEF Next, vars, TypeOK, OutputType
    <2> QED BY <2>1, <2>2, <2>3, <2>4, <2>5, <2>6, <2>7, <2>8 DEF OutputType
  <1>3. DrainType'
    <2>1. /\ inCallback' = inCallback \/ inCallback' = TRUE \/ inCallback' = FALSE
          /\ registered' = registered \/ registered' = TRUE \/ registered' = FALSE
          /\ sink' = sink \/ sink' = TRUE \/ sink' = FALSE
          /\ draining' = draining \/ draining' = TRUE
          /\ drainStarted' = drainStarted \/ drainStarted' = TRUE
      BY EmittersAre DEF Next, vars, TypeOK, DrainType
    <2>2. sinkOwner' \in Drainers \cup {None}
      BY EmittersAre DEF Next, vars, TypeOK, DrainType
    <2>3. drainPc' \in [Drainers -> DrainPcs]
      BY EmittersAre DEF Next, vars, TypeOK, DrainType, DrainPcs
    <2>4. /\ inCallback' \in BOOLEAN /\ registered' \in BOOLEAN /\ sink' \in BOOLEAN
          /\ draining' \in BOOLEAN /\ drainStarted' \in BOOLEAN
      BY <2>1 DEF TypeOK, DrainType
    <2> QED BY <2>2, <2>3, <2>4 DEF DrainType
  <1> QED BY <1>1, <1>2, <1>3 DEF TypeOK

-----------------------------------------------------------------------------
(* What any step may do to the drain.                                      *)

\* Flags that go one way.
FlagsLatch ==
  /\ stopped' = stopped \/ stopped' = TRUE
  /\ writeFailed' = writeFailed \/ writeFailed' = TRUE
  /\ draining' = draining \/ draining' = TRUE
  /\ drainStarted' = drainStarted \/ drainStarted' = TRUE
  /\ started' = started \/ started' = FALSE
  /\ alive' = alive \/ alive' = FALSE

\* Where the drainers come from, and what they have found there.
DrainersMove ==
  /\ drainStarted' => drainStarted \/ \E d \in Drainers : drainPc[d] = "spawn"
  /\ draining' /\ ~draining =>
       emitPc' = emitPc /\ \E d \in Drainers : drainPc[d] = "state"
  /\ \A d \in Drainers : drainPc'[d] = "state" => drainPc[d] \in {"sink", "state"}
  /\ Quiesced' => Quiesced \/ ~inCallback'
  /\ (\E d \in Drainers : drainPc'[d] \in {"summaries", "summarizing", "spawn"}) =>
       \/ \E d \in Drainers : drainPc[d] \in {"summaries", "summarizing", "spawn"}
       \/ ~registered'
  /\ drainPc'["host"] \in Loading => drainPc["host"] \in Loading
  /\ drainPc'["host"] \in Loading \ {"open"} => drainPc["host"] \in Loading \ {"open"}
  /\ drainPc'["host"] \in Leaving /\ drainPc["host"] \notin Leaving =>
       /\ stopPc' = stopPc
       /\ \/ drainPc["host"] \in Loading \ {"open"}
          \/ drainPc["host"] = "spawn"
          \/ drainPc["host"] = "await" /\ stopPc = "done"

\* When the callback and the emitters may begin, and the drain thread.
ProducersMove ==
  /\ inCallback' => inCallback \/ (registered /\ ~draining)
  /\ registered' => registered \/ (drainPc["host"] = "register" /\ drainPc'["host"] = "open")
  /\ \A t \in External :
       emitPc'[t] \in {"publish", "push"} =>
         emitPc[t] \in {"publish", "push"} \/ (~draining /\ draining' = draining)
  /\ stopPc' # stopPc => stopPc \notin {"none", "done"} \/ \E d \in Drainers : drainPc[d] = "spawn"

LEMMA StepsOfDrain ==
  ASSUME TypeOK, [Next]_vars
  PROVE  FlagsLatch /\ DrainersMove /\ ProducersMove
  <1> USE EmittersAre DEF Next, vars, TypeOK, EmitType, DrainType, Loading, Leaving, Quiesced
  <1>1. /\ stopped' = stopped \/ stopped' = TRUE
        /\ writeFailed' = writeFailed \/ writeFailed' = TRUE
        /\ draining' = draining \/ draining' = TRUE
    OBVIOUS
  <1>2. /\ drainStarted' = drainStarted \/ drainStarted' = TRUE
        /\ started' = started \/ started' = FALSE
        /\ alive' = alive \/ alive' = FALSE
    OBVIOUS
  <1>3. drainStarted' => drainStarted \/ \E d \in Drainers : drainPc[d] = "spawn"
    OBVIOUS
  <1>4. draining' /\ ~draining => emitPc' = emitPc /\ \E d \in Drainers : drainPc[d] = "state"
    OBVIOUS
  <1>5. \A d \in Drainers : drainPc'[d] = "state" => drainPc[d] \in {"sink", "state"}
    OBVIOUS
  <1>6. Quiesced' => Quiesced \/ ~inCallback'
    OBVIOUS
  <1>7. (\E d \in Drainers : drainPc'[d] \in {"summaries", "summarizing", "spawn"}) =>
          \/ \E d \in Drainers : drainPc[d] \in {"summaries", "summarizing", "spawn"}
          \/ ~registered'
    OBVIOUS
  <1>8. /\ drainPc'["host"] \in Loading => drainPc["host"] \in Loading
        /\ drainPc'["host"] \in Loading \ {"open"} => drainPc["host"] \in Loading \ {"open"}
    OBVIOUS
  <1>9. drainPc'["host"] \in Leaving /\ drainPc["host"] \notin Leaving =>
          /\ stopPc' = stopPc
          /\ \/ drainPc["host"] \in Loading \ {"open"}
             \/ drainPc["host"] = "spawn"
             \/ drainPc["host"] = "await" /\ stopPc = "done"
    OBVIOUS
  <1>10. inCallback' => inCallback \/ (registered /\ ~draining)
    OBVIOUS
  <1>11. registered' => registered \/ (drainPc["host"] = "register" /\ drainPc'["host"] = "open")
    OBVIOUS
  <1>12. \A t \in External :
           emitPc'[t] \in {"publish", "push"} =>
             emitPc[t] \in {"publish", "push"} \/ (~draining /\ draining' = draining)
    OBVIOUS
  <1>13. stopPc' # stopPc =>
           stopPc \notin {"none", "done"} \/ \E d \in Drainers : drainPc[d] = "spawn"
    OBVIOUS
  <1> QED
    BY <1>1, <1>2, <1>3, <1>4, <1>5, <1>6, <1>7, <1>8, <1>9, <1>10, <1>11, <1>12, <1>13, Zenon
       DEF FlagsLatch, DrainersMove, ProducersMove

-----------------------------------------------------------------------------
(* The drain.                                                              *)

LEMMA SinkStaysInOrder ==
  ASSUME TypeOK, SinkInOrder, [Next]_vars
  PROVE  SinkInOrder'
  <1> USE EmittersAre DEF Next, vars, TypeOK, EmitType, DrainType, SinkInOrder, Loading, Calling, Leaving
  <1>1. (sink <=> drainPc["host"] \in {"loaded", "sink"})'
    OBVIOUS
  <1>2. (drainPc["client"] \in {"idle", "sink"} \cup Calling)'
    OBVIOUS
  <1>3. (sinkOwner = IF drainPc["client"] \in Calling THEN "client" ELSE None)'
    OBVIOUS
  <1>4. (sinkOwner # None => sink)'
    OBVIOUS
  <1>5. (sinkOwner # None \/ ~sink => \A t \in External : emitPc[t] = "idle")'
    OBVIOUS
  <1> QED BY <1>1, <1>2, <1>3, <1>4, <1>5 DEF SinkInOrder

\* A client that has called and a host that leaves exclude each other: the
\* client holds the sink, which the host has taken away.
LEMMA OneCaller ==
  ASSUME TypeOK, SinkInOrder, OneDrain
  PROVE  /\ drainPc["client"] \in Calling => drainPc["host"] \in {"loaded", "sink"}
         /\ \A d \in Drainers : drainPc[d] = "state" => \A t \in External : emitPc[t] = "idle"

  BY EmittersAre DEF TypeOK, DrainType, SinkInOrder, OneDrain, Calling, InDrain

LEMMA DrainStaysOne ==
  ASSUME TypeOK, TypeOK', SinkInOrder, OneDrain, [Next]_vars
  PROVE  OneDrain'
  <1>0. FlagsLatch /\ DrainersMove /\ ProducersMove
    BY StepsOfDrain
  <1>a. /\ \A d \in Drainers : InDrain(d) => draining /\ ~drainStarted
        /\ \A d \in Drainers : drainPc[d] = "await" => drainStarted
    BY DEF OneDrain
  <1>b. \A d \in Drainers : InDrain(d)' =>
          InDrain(d) \/ (drainPc[d] = "state" /\ ~drainStarted /\ draining' /\ ~drainStarted')
    BY EmittersAre DEF Next, vars, InDrain, TypeOK, DrainType
  <1>c. drainStarted' /\ ~drainStarted =>
          \E d \in Drainers : drainPc[d] = "spawn" /\ drainPc' = [drainPc EXCEPT ![d] = "await"]
    BY EmittersAre DEF Next, vars, TypeOK, DrainType
  <1>1. (\A d \in Drainers : InDrain(d) => draining /\ ~drainStarted)'
    <2> SUFFICES ASSUME NEW d \in Drainers, InDrain(d)' PROVE draining' /\ ~drainStarted'
      OBVIOUS
    <2>1. CASE ~InDrain(d)
      BY <1>b, <2>1
    <2>2. CASE InDrain(d)
      <3>1. draining' /\ ~drainStarted
        BY <1>0, <1>a, <2>2 DEF FlagsLatch
      <3>2. SUFFICES ASSUME drainStarted' PROVE FALSE
        BY <3>1
      <3>3. PICK e \in Drainers : drainPc[e] = "spawn" /\ drainPc' = [drainPc EXCEPT ![e] = "await"]
        BY <1>c, <3>1, <3>2
      <3> QED BY <2>2, <3>3, OneCaller, EmittersAre DEF InDrain, Calling, TypeOK, DrainType
    <2> QED BY <2>1, <2>2
  <1>2. (\A d \in Drainers : drainPc[d] = "await" => drainStarted)'
    BY EmittersAre, <1>a DEF Next, vars, TypeOK, DrainType
  <1>3. (drainStarted => draining)'
    BY <1>0, <1>a DEF FlagsLatch, DrainersMove, OneDrain, InDrain
  <1>4. (draining => drainPc["host"] \notin Loading)'
    BY <1>0, EmittersAre DEF DrainersMove, OneDrain, SinkInOrder, Calling, Loading
  <1>5. (stopPc = "none" <=> ~drainStarted)'
    BY EmittersAre, <1>a DEF Next, vars, TypeOK, DrainType, OneDrain
  <1>6. (drainPc["host"] \in Leaving => stopPc \in {"none", "done"})'
    BY <1>0, <1>a, EmittersAre
       DEF InDrain, DrainersMove, ProducersMove, OneDrain, SinkInOrder, Calling, Loading, Leaving
  <1> QED BY <1>1, <1>2, <1>3, <1>4, <1>5, <1>6 DEF OneDrain

LEMMA ProducersStayOut ==
  ASSUME TypeOK, TypeOK', SinkInOrder, OneDrain, ProducersOut, [Next]_vars
  PROVE  ProducersOut'
  <1>0. FlagsLatch /\ DrainersMove /\ ProducersMove
    BY StepsOfDrain
  <1>a. /\ \A d \in Drainers : drainPc[d] = "spawn" => draining /\ ~drainStarted /\ Quiesced
        /\ Quiesced => draining
        /\ drainStarted => draining
        /\ drainPc["host"] \in Leaving => ~registered \/ draining
    BY DEF InDrain, Quiesced, OneDrain, ProducersOut
  <1>1. (Quiesced \/ drainStarted \/ drainPc["host"] \in Leaving => ~inCallback)'
    <2>1. SUFFICES ASSUME (Quiesced \/ drainStarted \/ drainPc["host"] \in Leaving)', inCallback'
                   PROVE  FALSE
      OBVIOUS
    <2>2. Quiesced \/ drainStarted \/ drainPc["host"] \in Leaving \cup (Loading \ {"open"})
      BY <1>0, <1>a, <2>1, EmittersAre DEF DrainersMove, OneDrain
    <2>3. ~inCallback
      BY <2>2 DEF ProducersOut
    <2>4. registered /\ ~draining
      BY <1>0, <2>1, <2>3 DEF ProducersMove
    <2>5. drainPc["host"] \in Loading \ {"open"}
      BY <1>a, <2>2, <2>4
    <2> QED BY <2>4, <2>5 DEF ProducersOut
  <1>2. (draining => \A t \in External : emitPc[t] \in {"idle", "gate"})'
    <2> SUFFICES ASSUME draining', NEW t \in External PROVE emitPc'[t] \in {"idle", "gate"}
      OBVIOUS
    <2>1. emitPc[t] \in {"idle", "gate", "publish", "push"} /\ emitPc'[t] \in {"idle", "gate", "publish", "push"}
      BY EmittersAre DEF TypeOK, EmitType
    <2>2. CASE draining
      BY <1>0, <2>1, <2>2 DEF ProducersMove, ProducersOut
    <2>3. CASE ~draining
      BY <1>0, <2>3, OneCaller DEF DrainersMove
    <2> QED BY <2>2, <2>3
  <1>3. (emitPc["game"] # "idle" => inCallback)'
    BY EmittersAre DEF Next, vars, ProducersOut, TypeOK, EmitType
  <1>4. (\A d \in Drainers : emitPc[d] # "idle" => drainPc[d] \in {"loading", "metadata", "summarizing"})'
    BY EmittersAre DEF Next, vars, ProducersOut, TypeOK, EmitType, DrainType
  <1>5. (drainPc["host"] \in Loading \ {"open"} => ~registered /\ ~inCallback)'
    <2> SUFFICES ASSUME (drainPc["host"] \in Loading \ {"open"})' PROVE ~registered' /\ ~inCallback'
      OBVIOUS
    <2>1. ~registered /\ ~inCallback
      BY <1>0 DEF DrainersMove, ProducersOut
    <2>2. drainPc'["host"] # "open"
      OBVIOUS
    <2> QED BY <1>0, <2>1, <2>2 DEF ProducersMove
  <1>6. (drainPc["host"] \in Leaving => ~registered \/ draining)'
    <2> SUFFICES ASSUME (drainPc["host"] \in Leaving)', ~draining' PROVE ~registered'
      OBVIOUS
    <2>1. ~draining /\ drainPc'["host"] # "open"
      BY <1>0 DEF FlagsLatch, Leaving
    <2>2. drainPc["host"] \in Leaving \cup (Loading \ {"open"})
      BY <1>0, <1>a, <2>1, EmittersAre DEF DrainersMove, OneDrain
    <2>3. ~registered
      BY <1>a, <2>1, <2>2 DEF ProducersOut
    <2> QED BY <1>0, <2>1, <2>3 DEF ProducersMove
  <1>7. (drainStarted \/ (\E d \in Drainers : drainPc[d] \in {"summaries", "summarizing", "spawn"})
           => ~registered)'
    <2> DEFINE Summing == \E d \in Drainers : drainPc[d] \in {"summaries", "summarizing", "spawn"}
    <2>1. SUFFICES ASSUME (drainStarted \/ Summing)', registered' PROVE FALSE
      OBVIOUS
    <2>2. drainStarted \/ Summing
      BY <1>0, <2>1 DEF DrainersMove
    <2>3. draining
      BY <1>a, <2>2 DEF Quiesced
    <2>4. ~registered
      BY <2>2 DEF ProducersOut
    <2> QED BY <1>0, <2>1, <2>3, <2>4 DEF ProducersMove, OneDrain, Loading
  <1> QED BY <1>1, <1>2, <1>3, <1>4, <1>5, <1>6, <1>7 DEF ProducersOut

-----------------------------------------------------------------------------
(* The writer and the drain's thread.                                      *)

\* What any step may do to them.
WriterMoves ==
  /\ \/ inHand' = NoRecord /\ writerPc' # "write"
     \/ inHand' = inHand /\ (writerPc' = "write" <=> writerPc = "write")
     \/ queue # <<>> /\ inHand' = Head(queue) /\ writerPc' = "write"
  /\ writerPc = "ended" => writerPc' = "ended" /\ inHand' = inHand
  /\ writerPc' = "ended" /\ writerPc # "ended" =>
       queue' = queue /\ ((stopped /\ queue = <<>>) \/ writeFailed')
  /\ stopped /\ queue = <<>> => queue' = <<>>
  /\ ~started' => ~started \/ writerPc = "ended" \/ stopPc = "close"
  /\ ~alive' => ~alive \/ (drainPc'["host"] = "done" /\ (~started \/ writerPc = "ended"))
  /\ drainPc["host"] = "done" => drainPc'["host"] = "done"

StopMoves ==
  /\ stopPc' \notin {"none", "stop", "join"} =>
       stopPc \notin {"none", "stop", "join"} \/ (stopPc = "join" /\ writerPc = "ended")
  /\ stopPc' \in {"summary", "write"} =>
       \/ stopPc = "join" /\ ~writeFailed /\ writeFailed' = writeFailed
       \/ stopPc \in {"summary", "write"} /\ (writeFailed' = writeFailed \/ writerPc # "ended")
  /\ stopPc' \in {"none", "stop", "join", "summary"} =>
       /\ summary' = summary
       /\ stopPc \in {"none", "stop", "join", "summary"} \/ \E d \in Drainers : drainPc[d] = "spawn"
  /\ stopPc' = "write" /\ stopPc # "write" => summary' = sequence + 1
  /\ stopPc' = "write" /\ stopPc = "write" => summary' = summary
  /\ stopPc = "done" => stopPc' = "done" \/ \E d \in Drainers : drainPc[d] = "spawn"
  /\ drainResult' # drainResult => stopPc' = "done"
  /\ drainResult' = "completed" => ~writeFailed' \/ drainResult = "completed"
  /\ stopPc = "done" => writeFailed' = writeFailed \/ writerPc # "ended"

LEMMA StepsOfWriter ==
  ASSUME TypeOK, [Next]_vars
  PROVE  WriterMoves /\ StopMoves
  <1> USE EmittersAre DEF Next, vars, TypeOK, OutputType, DrainType
  <1>1. \/ inHand' = NoRecord /\ writerPc' # "write"
        \/ inHand' = inHand /\ (writerPc' = "write" <=> writerPc = "write")
        \/ queue # <<>> /\ inHand' = Head(queue) /\ writerPc' = "write"
    OBVIOUS
  <1>2. writerPc = "ended" => writerPc' = "ended" /\ inHand' = inHand
    OBVIOUS
  <1>3. writerPc' = "ended" /\ writerPc # "ended" =>
          queue' = queue /\ ((stopped /\ queue = <<>>) \/ writeFailed')
    OBVIOUS
  <1>4. stopped /\ queue = <<>> => queue' = <<>>
    OBVIOUS
  <1>5. ~started' => ~started \/ writerPc = "ended" \/ stopPc = "close"
    OBVIOUS
  <1>6. ~alive' => ~alive \/ (drainPc'["host"] = "done" /\ (~started \/ writerPc = "ended"))
    OBVIOUS
  <1>7. drainPc["host"] = "done" => drainPc'["host"] = "done"
    OBVIOUS
  <1>8. stopPc' \notin {"none", "stop", "join"} =>
          stopPc \notin {"none", "stop", "join"} \/ (stopPc = "join" /\ writerPc = "ended")
    OBVIOUS
  <1>9. stopPc' \in {"summary", "write"} =>
          \/ stopPc = "join" /\ ~writeFailed /\ writeFailed' = writeFailed
          \/ stopPc \in {"summary", "write"} /\ (writeFailed' = writeFailed \/ writerPc # "ended")
    OBVIOUS
  <1>10. stopPc' \in {"none", "stop", "join", "summary"} =>
           /\ summary' = summary
           /\ stopPc \in {"none", "stop", "join", "summary"} \/ \E d \in Drainers : drainPc[d] = "spawn"
    OBVIOUS
  <1>11. /\ stopPc' = "write" /\ stopPc # "write" => summary' = sequence + 1
         /\ stopPc' = "write" /\ stopPc = "write" => summary' = summary
    OBVIOUS
  <1>12. stopPc = "done" => stopPc' = "done" \/ \E d \in Drainers : drainPc[d] = "spawn"
    OBVIOUS
  <1>13. drainResult' # drainResult => stopPc' = "done"
    OBVIOUS
  <1>14. drainResult' = "completed" => ~writeFailed' \/ drainResult = "completed"
    OBVIOUS
  <1>15. stopPc = "done" => writeFailed' = writeFailed \/ writerPc # "ended"
    OBVIOUS
  <1> QED
    BY <1>1, <1>2, <1>3, <1>4, <1>5, <1>6, <1>7, <1>8, <1>9, <1>10, <1>11, <1>12, <1>13, <1>14, <1>15,
       Zenon DEF WriterMoves, StopMoves

LEMMA WriterStaysInOrder ==
  ASSUME TypeOK, TypeOK', OneDrain, WriterInOrder, [Next]_vars
  PROVE  WriterInOrder'
  <1>0. FlagsLatch /\ WriterMoves /\ StopMoves
    BY StepsOfDrain, StepsOfWriter
  <1>a. \A d \in Drainers : drainPc[d] = "spawn" => stopPc = "none"
    BY DEF OneDrain, InDrain
  <1>1. (inHand # NoRecord <=> writerPc = "write")'
    <2>1. queue # <<>> => Head(queue) # NoRecord
      <3>1. queue # <<>> => Head(queue) \in Numbers
        BY DEF TypeOK, OutputType
      <3> QED BY <3>1 DEF Numbers
    <2> QED BY <1>0, <2>1 DEF WriterMoves, WriterInOrder
  <1>2. (writerPc = "ended" /\ ~writeFailed => stopped /\ queue = <<>>)'
    BY <1>0 DEF FlagsLatch, WriterMoves, WriterInOrder
  <1>3. (stopPc \notin {"none", "stop", "join"} \/ ~started \/ ~alive => writerPc = "ended")'
    BY <1>0 DEF WriterMoves, StopMoves, WriterInOrder
  <1>4. (stopPc \in {"summary", "write"} => ~writeFailed)'
    BY <1>0 DEF StopMoves, WriterInOrder
  <1>5. (stopPc \in {"none", "stop", "join", "summary"} => summary = NoRecord)'
    BY <1>0, <1>a DEF StopMoves, WriterInOrder
  <1>6. (stopPc = "write" => summary # NoRecord)'
    BY <1>0 DEF StopMoves, WriterInOrder, TypeOK, EmitType
  <1>7. (~alive => drainPc["host"] = "done")'
    BY <1>0 DEF WriterMoves, WriterInOrder
  <1>8. (drainResult # "none" => stopPc = "done")'
    BY <1>0, <1>a DEF StopMoves, WriterInOrder
  <1>9. (drainResult = "completed" => ~writeFailed)'
    BY <1>0 DEF StopMoves, WriterInOrder
  <1> QED BY <1>1, <1>2, <1>3, <1>4, <1>5, <1>6, <1>7, <1>8, <1>9 DEF WriterInOrder

-----------------------------------------------------------------------------
(* The numbers.                                                            *)

\* When the drain's thread has been started no emitter is under way.
LEMMA EmittersOut ==
  ASSUME TypeOK, DrainInv, drainStarted
  PROVE  \A t \in Emitters : emitPc[t] \in {"idle", "gate"}
  <1> SUFFICES ASSUME NEW t \in Emitters PROVE emitPc[t] \in {"idle", "gate"}
    OBVIOUS
  <1>1. CASE t \in External
    BY <1>1 DEF DrainInv, OneDrain, ProducersOut
  <1>2. CASE t = "game"
    BY <1>2 DEF DrainInv, ProducersOut
  <1>3. CASE t \in Drainers
    <2>1. drainPc[t] \notin {"loading", "metadata", "summarizing"}
      BY <1>3, EmittersAre DEF DrainInv, OneDrain, SinkInOrder, InDrain, Loading, Calling
    <2> QED BY <1>3, <2>1 DEF DrainInv, ProducersOut
  <1> QED BY <1>1, <1>2, <1>3, EmittersAre

LEMMA NumberStaysOne ==
  ASSUME TypeOK, OneNumber, [Next]_vars
  PROVE  OneNumber'
  <1> USE EmittersAre DEF Next, vars, TypeOK, EmitType, OneNumber
  <1>1. (\A t \in Emitters : emitPc[t] = "push" => emitting = t)'
    OBVIOUS
  <1>2. (\A t \in Emitters : emitting = t => emitPc[t] = "push")'
    OBVIOUS
  <1>3. (\A t \in Emitters : number[t] = NoRecord => emitPc[t] # "push")'
    OBVIOUS
  <1>4. (\A t \in Emitters : emitPc[t] # "push" => number[t] = NoRecord)'
    OBVIOUS
  <1> QED BY <1>1, <1>2, <1>3, <1>4 DEF OneNumber

\* What is pushed is the number of the emitter that pushes.
LEMMA PushedIs ==
  ASSUME TypeOK, OneNumber
  PROVE  /\ \A t \in Emitters : emitPc[t] = "push" => Pushed = number[t] /\ Pushed # NoRecord
         /\ (\A t \in Emitters : emitPc[t] # "push") => Pushed = NoRecord
         /\ Pushed \in Numbers \cup {NoRecord} /\ Summary \in Numbers \cup {NoRecord}
  BY EmittersAre DEF OneNumber, Pushed, Summary, TypeOK, EmitType, OutputType

\* What a step does with the numbers.
Stays  == file' = file /\ inHand' = inHand /\ queue' = queue
Counts == sequence' = sequence /\ dropped' = dropped
Waits  == Pushed' = Pushed /\ Summary' = Summary

NothingMoves == Stays /\ Counts /\ Waits
NumberTaken ==
  /\ Stays /\ dropped' = dropped /\ sequence' = sequence + 1
  /\ \/ Pushed = NoRecord /\ Pushed' = sequence + 1 /\ Summary' = Summary
     \/ Summary = NoRecord /\ Summary' = sequence + 1 /\ Pushed' = Pushed
NumberLost ==
  /\ Stays /\ Waits
  /\ sequence' = sequence + 1 /\ dropped' = dropped \cup {sequence + 1}
NumberPushed ==
  /\ file' = file /\ inHand' = inHand /\ queue' = Append(queue, Pushed) /\ Counts
  /\ Pushed # NoRecord /\ Pushed' = NoRecord /\ Summary = NoRecord /\ Summary' = NoRecord
NumberDropped ==
  /\ Stays /\ sequence' = sequence /\ dropped' = dropped \cup {Pushed}
  /\ Pushed # NoRecord /\ Pushed' = NoRecord /\ Summary' = Summary
NumberPopped ==
  /\ inHand = NoRecord /\ queue # <<>> /\ inHand' = Head(queue) /\ queue' = Tail(queue)
  /\ file' = file /\ Counts /\ Waits
NumberWritten ==
  /\ inHand # NoRecord /\ file' = Append(file, inHand) /\ inHand' = NoRecord /\ queue' = queue
  /\ Counts /\ Waits
WriteBroken ==
  /\ file' \in {file, Append(file, Fragment)} /\ writeFailed'
  /\ inHand' \in {NoRecord, inHand} /\ Summary' \in {NoRecord, Summary} /\ Pushed' = Pushed
  /\ queue' = queue /\ Counts
SummaryWritten ==
  /\ inHand = NoRecord /\ queue = <<>> /\ Pushed = NoRecord /\ Summary # NoRecord
  /\ file' = Append(file, Summary) /\ Summary' = NoRecord
  /\ inHand' = inHand /\ queue' = queue /\ Counts /\ Pushed' = Pushed

NumbersMove ==
  \/ NothingMoves \/ NumberTaken \/ NumberLost \/ NumberPushed \/ NumberDropped
  \/ NumberPopped \/ NumberWritten \/ WriteBroken \/ SummaryWritten

LEMMA StepsOfNumbers ==
  ASSUME TypeOK, TypeOK', DrainInv, WriterInOrder, OneNumber, OneNumber', [Next]_vars
  PROVE  NumbersMove
  <1>a. /\ \A t \in Emitters : emitPc[t] = "push" => Pushed = number[t] /\ Pushed # NoRecord
        /\ (\A t \in Emitters : emitPc[t] # "push") => Pushed = NoRecord
    BY PushedIs
  <1>b. emitting' = emitting /\ number' = number => Pushed' = Pushed
    BY DEF Pushed
  <1>c. stopPc' = stopPc /\ summary' = summary => Summary' = Summary
    BY DEF Summary
  <1>d. \A t \in Emitters : emitPc[t] # "push" /\ EmitReturns(t) /\ emitting' = emitting
                              => Pushed' = Pushed
    BY EmittersAre DEF EmitReturns, Pushed, OneNumber, TypeOK, EmitType
  <1>e. emitting' = None => Pushed' = NoRecord
    BY DEF Pushed
  <1>f. stopPc = "write" => Pushed = NoRecord /\ inHand = NoRecord /\ queue = <<>> /\ stopped
    <2>1. stopPc = "write" => Pushed = NoRecord
      BY <1>a, EmittersOut DEF DrainInv, OneDrain
    <2> QED BY <2>1 DEF WriterInOrder
  <1>1. ASSUME NEW t \in External, NEW m \in {"fast", "reliable"}, ExternalEmit(t, m)
        PROVE  NumbersMove
    BY <1>1, <1>b, <1>c DEF ExternalEmit, StartsRecord, NumbersMove, NothingMoves, Stays,
         Counts, Waits
  <1>2. ASSUME NEW t \in Emitters, PassGate(t) PROVE NumbersMove
    <2>1. Pushed' = Pushed
      BY <1>2, <1>b, <1>d DEF PassGate
    <2> QED BY <1>2, <1>c, <2>1 DEF PassGate, NumbersMove, NothingMoves, Stays, Counts, Waits
  <1>3. ASSUME NEW t \in Emitters, TakeNumber(t) PROVE NumbersMove
    <2>1. CASE sequence = MaxSequence
      <3>1. Pushed' = Pushed
        BY <1>3, <1>d, <2>1 DEF TakeNumber
      <3> QED
        BY <1>3, <1>c, <2>1, <3>1
           DEF TakeNumber, EmitReturns, NumbersMove, NothingMoves, Stays, Counts, Waits
    <2>2. CASE sequence # MaxSequence
      <3>1. Pushed = NoRecord
        BY <1>3 DEF TakeNumber, Pushed
      <3>2. Pushed' = sequence + 1
        BY <1>3, <2>2, EmittersAre DEF TakeNumber, Pushed, TypeOK, EmitType
      <3> QED
        BY <1>3, <1>c, <2>2, <3>1, <3>2 DEF TakeNumber, NumbersMove, NumberTaken, Stays
    <2> QED BY <2>1, <2>2
  <1>4. ASSUME NEW t \in Emitters, LoseRace(t) PROVE NumbersMove
    <2>1. Pushed' = Pushed
      BY <1>4, <1>d DEF LoseRace
    <2> QED
      BY <1>4, <1>c, <2>1
         DEF LoseRace, NumbersMove, NothingMoves, NumberLost, Stays, Counts, Waits
  <1>5. ASSUME NEW t \in Emitters, Push(t) PROVE NumbersMove
    <2>1. Pushed = number[t] /\ Pushed # NoRecord /\ Pushed' = NoRecord
      BY <1>5, <1>a, <1>e DEF Push
    <2>2. Summary = NoRecord /\ Summary' = NoRecord
      BY <1>5, <1>f DEF Push, Summary
    <2> QED BY <1>5, <2>1, <2>2 DEF Push, NumbersMove, NumberPushed, Counts
  <1>6. ASSUME NEW t \in Emitters, PushRefused(t) PROVE NumbersMove
    <2>1. Pushed = number[t] /\ Pushed # NoRecord /\ Pushed' = NoRecord
      BY <1>6, <1>a, <1>e DEF PushRefused
    <2> QED BY <1>6, <1>c, <2>1 DEF PushRefused, NumbersMove, NumberDropped, Stays
  <1>7. CASE BeginDaily
    BY <1>7, <1>b, <1>c DEF BeginDaily, NumbersMove, NothingMoves, Stays, Counts, Waits
  <1>8. CASE EndDaily
    BY <1>8, <1>b, <1>c DEF EndDaily, NumbersMove, NothingMoves, Stays, Counts, Waits
  <1>9. ASSUME NEW m \in {"fast", "reliable"}, NEW pc \in {"gate", "publish"}, DailyEmit(m, pc)
        PROVE  NumbersMove
    BY <1>9, <1>b, <1>c DEF DailyEmit, StartsRecord, NumbersMove, NothingMoves, Stays, Counts,
         Waits
  <1>10. CASE Pop
    BY <1>10, <1>b, <1>c
       DEF Pop, NumbersMove, NothingMoves, NumberPopped, Stays, Counts, Waits, WriterInOrder
  <1>11. CASE Write
    BY <1>11, <1>b, <1>c DEF Write, NumbersMove, NumberWritten, Counts, Waits, WriterInOrder
  <1>12. CASE WriteBreaks
    BY <1>12, <1>b, <1>c DEF WriteBreaks, WriteFails, NumbersMove, WriteBroken, Counts
  <1>13. CASE FlushNow
    BY <1>13, <1>b, <1>c DEF FlushNow, WriteFails, NumbersMove, NothingMoves, Stays, Counts,
         Waits
  <1>14. CASE Tick
    BY <1>14, <1>b, <1>c DEF Tick, NumbersMove, NothingMoves, Stays, Counts, Waits
  <1>15. CASE Flush
    BY <1>15, <1>b, <1>c DEF Flush, WriteFails, NumbersMove, NothingMoves, Stays, Counts, Waits
  <1>16. CASE CheckStopped
    BY <1>16, <1>b, <1>c DEF CheckStopped, NumbersMove, NothingMoves, Stays, Counts, Waits
  <1>17. CASE Wake
    BY <1>17, <1>b, <1>c DEF Wake, NumbersMove, NothingMoves, Stays, Counts, Waits
  <1>18. CASE LoadRecord
    BY <1>18, <1>b, <1>c DEF LoadRecord, HostGoes, StartsRecord, NumbersMove, NothingMoves,
         Stays, Counts, Waits
  <1>19. CASE LoadRecordsQueued
    BY <1>19, <1>b, <1>c DEF LoadRecordsQueued, HostGoes, NumbersMove, NothingMoves, Stays,
         Counts, Waits
  <1>20. CASE RegisterDaily
    BY <1>20, <1>b, <1>c DEF RegisterDaily, HostGoes, NumbersMove, NothingMoves, Stays, Counts,
         Waits
  <1>21. CASE OpenSink
    BY <1>21, <1>b, <1>c DEF OpenSink, HostGoes, NumbersMove, NothingMoves, Stays, Counts, Waits
  <1>22. CASE BeginDrain
    BY <1>22, <1>b, <1>c DEF BeginDrain, Goes, NumbersMove, NothingMoves, Stays, Counts, Waits
  <1>23. CASE ClientTakesSink
    BY <1>23, <1>b, <1>c DEF ClientTakesSink, Goes, SinkFree, NumbersMove, NothingMoves, Stays,
         Counts, Waits
  <1>24. CASE HostTakesSink
    BY <1>24, <1>b, <1>c DEF HostTakesSink, Goes, SinkFree, NumbersMove, NothingMoves, Stays,
         Counts, Waits
  <1>25. CASE DrainTimesOut
    BY <1>25, <1>b, <1>c DEF DrainTimesOut, Goes, LeavesSink, NumbersMove, NothingMoves, Stays,
         Counts, Waits
  <1>26. ASSUME NEW d \in Drainers, EnterDrain(d) PROVE NumbersMove
    BY <1>26, <1>b, <1>c DEF EnterDrain, Goes, StateFree, NumbersMove, NothingMoves, Stays,
         Counts, Waits
  <1>27. ASSUME NEW d \in Drainers, QuiesceProducers(d) PROVE NumbersMove
    BY <1>27, <1>b, <1>c DEF QuiesceProducers, Goes, NumbersMove, NothingMoves, Stays, Counts,
         Waits
  <1>28. ASSUME NEW d \in Drainers, UnregisterDaily(d) PROVE NumbersMove
    BY <1>28, <1>b, <1>c DEF UnregisterDaily, Goes, NumbersMove, NothingMoves, Stays, Counts,
         Waits
  <1>29. ASSUME NEW d \in Drainers, EmitFamilySummary(d) PROVE NumbersMove
    BY <1>29, <1>b, <1>c DEF EmitFamilySummary, Goes, StartsRecord, NumbersMove, NothingMoves,
         Stays, Counts, Waits
  <1>30. ASSUME NEW d \in Drainers, FamilySummariesDone(d) PROVE NumbersMove
    BY <1>30, <1>b, <1>c DEF FamilySummariesDone, Goes, NumbersMove, NothingMoves, Stays,
         Counts, Waits
  <1>31. ASSUME NEW d \in Drainers, SpawnDrainThread(d) PROVE NumbersMove
    <2>1. stopPc = "none"
      BY <1>31 DEF SpawnDrainThread, Goes, DrainInv, OneDrain, InDrain
    <2>2. Summary' = NoRecord /\ Summary = NoRecord
      BY <1>31, <2>1 DEF SpawnDrainThread, Summary
    <2> QED
      BY <1>31, <1>b, <2>2 DEF SpawnDrainThread, NumbersMove, NothingMoves, Stays, Counts, Waits
  <1>32. ASSUME NEW d \in Drainers, SpawnFails(d) PROVE NumbersMove
    BY <1>32, <1>b, <1>c DEF SpawnFails, Goes, After, LeavesSink, NumbersMove, NothingMoves,
         Stays, Counts, Waits
  <1>33. ASSUME NEW d \in Drainers, DrainCompletes(d) PROVE NumbersMove
    BY <1>33, <1>b, <1>c DEF DrainCompletes, Goes, After, LeavesSink, NumbersMove, NothingMoves,
         Stays, Counts, Waits
  <1>34. CASE StopQueue
    <2>1. Summary' = Summary
      BY <1>34 DEF StopQueue, StopGoes, Summary
    <2> QED
      BY <1>34, <1>b, <2>1 DEF StopQueue, StopGoes, NumbersMove, NothingMoves, Stays, Counts, Waits
  <1>35. CASE JoinWriter
    <2>1. Summary' = Summary
      BY <1>35 DEF JoinWriter, StopGoes, Summary
    <2> QED
      BY <1>35, <1>b, <2>1 DEF JoinWriter, StopGoes, NumbersMove, NothingMoves, Stays, Counts, Waits
  <1>36. CASE MakeSummary
    <2>1. Summary = NoRecord /\ Pushed' = Pushed
      BY <1>36, <1>b DEF MakeSummary, StopGoes, Summary
    <2>2. CASE sequence = MaxSequence
      <3>1. Summary' = NoRecord
        BY <1>36, <2>2 DEF MakeSummary, StopGoes, Summary
      <3> QED
        BY <1>36, <2>1, <2>2, <3>1
           DEF MakeSummary, NumbersMove, NothingMoves, Stays, Counts, Waits
    <2>3. CASE sequence # MaxSequence
      <3>1. Summary' = sequence + 1
        BY <1>36, <2>3 DEF MakeSummary, StopGoes, Summary
      <3> QED BY <1>36, <2>1, <2>3, <3>1 DEF MakeSummary, NumbersMove, NumberTaken, Stays
    <2> QED BY <2>2, <2>3
  <1>37. CASE WriteSummary
    <2>1. Summary = summary /\ Summary' = NoRecord /\ Pushed' = Pushed /\ stopPc = "write"
      BY <1>37, <1>b DEF WriteSummary, StopGoes, Summary
    <2>2. Summary # NoRecord
      BY <2>1 DEF WriterInOrder
    <2>3. CASE StopGoes("write", "flush")
      BY <1>37, <1>f, <2>1, <2>2, <2>3
         DEF WriteSummary, StopGoes, NumbersMove, SummaryWritten, Counts
    <2>4. CASE StopGoes("write", "close")
      BY <1>37, <2>1, <2>4
         DEF WriteSummary, StopGoes, WriteFails, NumbersMove, WriteBroken, Counts
    <2> QED BY <1>37, <2>3, <2>4 DEF WriteSummary
  <1>38. CASE FlushSummary
    <2>1. Summary' = Summary
      BY <1>38 DEF FlushSummary, StopGoes, Summary
    <2> QED
      BY <1>38, <1>b, <2>1 DEF FlushSummary, StopGoes, WriteFails, NumbersMove, NothingMoves, Stays, Counts, Waits
  <1>39. CASE CloseOutput
    <2>1. Summary' = Summary
      BY <1>39 DEF CloseOutput, StopGoes, Summary
    <2> QED
      BY <1>39, <1>b, <2>1 DEF CloseOutput, StopGoes, WriteFails, NumbersMove, NothingMoves, Stays, Counts, Waits
  <1>40. CASE PostResult
    <2>1. Summary' = Summary
      BY <1>40 DEF PostResult, StopGoes, Summary
    <2> QED
      BY <1>40, <1>b, <2>1 DEF PostResult, StopGoes, StateFree, NumbersMove, NothingMoves, Stays, Counts, Waits
  <1>41. CASE ResetWriter
    BY <1>41, <1>b, <1>c DEF ResetWriter, HostGoes, NumbersMove, NothingMoves, Stays, Counts,
         Waits
  <1>42. CASE ResetJoins
    BY <1>42, <1>b, <1>c DEF ResetJoins, HostGoes, NumbersMove, NothingMoves, Stays, Counts,
         Waits
  <1>43. CASE UNCHANGED vars
    BY <1>43, <1>b, <1>c DEF vars, NumbersMove, NothingMoves, Stays, Counts, Waits
  <1> QED BY <1>1, <1>2, <1>3, <1>4, <1>5, <1>6, <1>7, <1>8, <1>9, <1>10, <1>11, <1>12, <1>13,
       <1>14, <1>15, <1>16, <1>17, <1>18, <1>19, <1>20, <1>21, <1>22, <1>23, <1>24, <1>25,
       <1>26, <1>27, <1>28, <1>29, <1>30, <1>31, <1>32, <1>33, <1>34, <1>35, <1>36, <1>37,
       <1>38, <1>39, <1>40, <1>41, <1>42, <1>43 DEF Next, EmitStep, WriterStep, LoadStep,
       DrainStep, StopStep

\* What Append, Tail and concatenation do to the records of a sequence and to
\* their order.
LEMMA Appended ==
  \A s \in Seq(Nat), n \in Nat :
    /\ Range(Append(s, n)) = Range(s) \cup {n}
    /\ InOrder(s) /\ (n # NoRecord => \A m \in Range(s) : m < n) => InOrder(Append(s, n))
  <1> SUFFICES ASSUME NEW s \in Seq(Nat), NEW n \in Nat
               PROVE  /\ Range(Append(s, n)) = Range(s) \cup {n}
                      /\ InOrder(s) /\ (n # NoRecord => \A m \in Range(s) : m < n)
                           => InOrder(Append(s, n))
    OBVIOUS
  <1> DEFINE t == Append(s, n)
  <1>1. /\ DOMAIN t = 1 .. Len(s) + 1 /\ DOMAIN s = 1 .. Len(s) /\ Len(s) \in Nat
        /\ t[Len(s) + 1] = n /\ \A i \in 1 .. Len(s) : t[i] = s[i] /\ s[i] \in Nat
    OBVIOUS
  <1> HIDE DEF t
  <1>2. Range(t) = Range(s) \cup {n}
    <2>1. \A i \in DOMAIN t : i \in DOMAIN s \/ i = Len(s) + 1
      BY <1>1
    <2>2. \A i \in DOMAIN s : i \in DOMAIN t
      BY <1>1
    <2>3. Len(s) + 1 \in DOMAIN t
      BY <1>1
    <2> QED BY <1>1, <2>1, <2>2, <2>3 DEF Range
  <1>3. ASSUME InOrder(s), n # NoRecord => \A m \in Range(s) : m < n
        PROVE  InOrder(t)
    <2> SUFFICES ASSUME NEW i \in DOMAIN t, NEW j \in DOMAIN t,
                        i < j, t[i] # NoRecord, t[j] # NoRecord
                 PROVE  t[i] < t[j]
      BY DEF InOrder
    <2>1. i \in 1 .. Len(s) /\ s[i] \in Range(s)
      BY <1>1 DEF Range
    <2>2. CASE j = Len(s) + 1
      BY <1>1, <1>3, <2>1, <2>2
    <2>3. CASE j \in 1 .. Len(s)
      BY <1>1, <1>3, <2>1, <2>3 DEF InOrder
    <2> QED BY <1>1, <2>2, <2>3
  <1> QED BY <1>2, <1>3 DEF t

LEMMA Popped ==
  \A s \in Seq(Nat \ {NoRecord}) :
    s # <<>> => /\ Range(s) = {Head(s)} \cup Range(Tail(s))
                /\ InOrder(s) => InOrder(Tail(s)) /\ \A m \in Range(Tail(s)) : Head(s) < m
  <1> SUFFICES ASSUME NEW s \in Seq(Nat \ {NoRecord}), s # <<>>
               PROVE  /\ Range(s) = {Head(s)} \cup Range(Tail(s))
                      /\ InOrder(s) => InOrder(Tail(s)) /\ \A m \in Range(Tail(s)) : Head(s) < m
    OBVIOUS
  <1> DEFINE t == Tail(s)
  <1>1. /\ DOMAIN s = 1 .. Len(s) /\ Len(s) \in Nat \ {0} /\ DOMAIN t = 1 .. Len(s) - 1
        /\ Head(s) = s[1] /\ \A i \in 1 .. Len(s) - 1 : t[i] = s[i + 1]
        /\ \A i \in 1 .. Len(s) : s[i] \in Nat \ {NoRecord}
    OBVIOUS
  <1> HIDE DEF t
  <1>2. Range(s) = {Head(s)} \cup Range(t)
    <2>1. \A i \in DOMAIN s : i = 1 \/ (i - 1 \in DOMAIN t /\ s[i] = t[i - 1])
      <3> SUFFICES ASSUME NEW i \in DOMAIN s, i # 1 PROVE i - 1 \in DOMAIN t /\ s[i] = t[i - 1]
        OBVIOUS
      <3>1. i - 1 \in 1 .. Len(s) - 1 /\ (i - 1) + 1 = i
        BY <1>1
      <3> QED BY <1>1, <3>1
    <2>2. \A i \in DOMAIN t : i + 1 \in DOMAIN s /\ t[i] = s[i + 1]
      BY <1>1
    <2>3. 1 \in DOMAIN s /\ Head(s) = s[1]
      BY <1>1
    <2>4. Range(s) \subseteq {Head(s)} \cup Range(t)
      BY <2>1, <2>3 DEF Range
    <2>5. Head(s) \in Range(s) /\ Range(t) \subseteq Range(s)
      BY <2>2, <2>3 DEF Range
    <2> QED BY <2>4, <2>5
  <1>3. ASSUME InOrder(s) PROVE InOrder(t) /\ \A m \in Range(t) : Head(s) < m
    <2>1. \A i, j \in DOMAIN s : i < j => s[i] < s[j]
      BY <1>1, <1>3 DEF InOrder
    <2>2. \A i \in DOMAIN t : i \in Int /\ i + 1 \in DOMAIN s /\ 1 < i + 1 /\ t[i] = s[i + 1]
      BY <1>1
    <2>3. \A i \in DOMAIN t : s[1] < t[i]
      BY <1>1, <2>1, <2>2
    <2>4. InOrder(t)
      BY <2>1, <2>2 DEF InOrder
    <2> QED BY <1>1, <2>3, <2>4 DEF Range
  <1> QED BY <1>2, <1>3 DEF t

LEMMA Joined ==
  \A s, t \in Seq(Nat) :
    /\ s \o t \in Seq(Nat) /\ Range(s \o t) = Range(s) \cup Range(t)
    /\ InOrder(s) /\ InOrder(t)
         /\ (\A m \in Range(s), n \in Range(t) : m # NoRecord /\ n # NoRecord => m < n)
       => InOrder(s \o t)
  <1> SUFFICES ASSUME NEW s \in Seq(Nat), NEW t \in Seq(Nat)
               PROVE  /\ s \o t \in Seq(Nat) /\ Range(s \o t) = Range(s) \cup Range(t)
                      /\ InOrder(s) /\ InOrder(t)
                           /\ (\A m \in Range(s), n \in Range(t) :
                                 m # NoRecord /\ n # NoRecord => m < n)
                         => InOrder(s \o t)
    OBVIOUS
  <1> DEFINE u == s \o t
  <1>1. /\ u \in Seq(Nat) /\ DOMAIN u = 1 .. Len(s) + Len(t)
        /\ DOMAIN s = 1 .. Len(s) /\ DOMAIN t = 1 .. Len(t) /\ Len(s) \in Nat /\ Len(t) \in Nat
        /\ \A i \in 1 .. Len(s) : u[i] = s[i]
        /\ \A i \in Len(s) + 1 .. Len(s) + Len(t) : u[i] = t[i - Len(s)]
    BY ConcatProperties
  <1> HIDE DEF u
  <1>2. \A i \in DOMAIN u : i \in DOMAIN s \/ (i > Len(s) /\ i - Len(s) \in DOMAIN t)
    BY <1>1
  <1>3. ASSUME NEW i \in DOMAIN u
        PROVE  u[i] = IF i \in DOMAIN s THEN s[i] ELSE t[i - Len(s)]
    <2>1. i \in 1 .. Len(s) \/ i \in Len(s) + 1 .. Len(s) + Len(t)
      BY <1>1
    <2>2. i \in Len(s) + 1 .. Len(s) + Len(t) => i \notin DOMAIN s
      BY <1>1
    <2> QED BY <1>1, <2>1, <2>2
  <1>4. /\ \A i \in DOMAIN s : i \in DOMAIN u
        /\ \A i \in DOMAIN t : i + Len(s) \in DOMAIN u /\ u[i + Len(s)] = t[i]
    <2>1. \A i \in DOMAIN s : i \in DOMAIN u
      BY <1>1
    <2>2. ASSUME NEW i \in DOMAIN t PROVE i + Len(s) \in DOMAIN u /\ u[i + Len(s)] = t[i]
      <3>1. i + Len(s) \in Len(s) + 1 .. Len(s) + Len(t) /\ (i + Len(s)) - Len(s) = i
        BY <1>1
      <3> QED BY <1>1, <3>1
    <2> QED BY <2>1, <2>2
  <1>5. Range(u) = Range(s) \cup Range(t)
    <2>1. Range(u) \subseteq Range(s) \cup Range(t)
      BY <1>2, <1>3 DEF Range
    <2>2. Range(s) \subseteq Range(u)
      BY <1>3, <1>4 DEF Range
    <2>3. Range(t) \subseteq Range(u)
      BY <1>4 DEF Range
    <2> QED BY <2>1, <2>2, <2>3
  <1>6. ASSUME InOrder(s), InOrder(t),
               \A m \in Range(s), n \in Range(t) : m # NoRecord /\ n # NoRecord => m < n
        PROVE  InOrder(u)
    <2> SUFFICES ASSUME NEW i \in DOMAIN u, NEW j \in DOMAIN u,
                        i < j, u[i] # NoRecord, u[j] # NoRecord
                 PROVE  u[i] < u[j]
      BY DEF InOrder
    <2>1. CASE j \in DOMAIN s
      <3>1. i \in DOMAIN s
        BY <1>1, <2>1
      <3> QED BY <1>3, <1>6, <2>1, <3>1 DEF InOrder
    <2>2. CASE i \in DOMAIN s /\ j \notin DOMAIN s
      BY <1>2, <1>3, <1>6, <2>2 DEF Range
    <2>3. CASE i \notin DOMAIN s /\ j \notin DOMAIN s
      <3>1. i - Len(s) < j - Len(s)
        BY <1>1
      <3> QED BY <1>2, <1>3, <1>6, <2>3, <3>1 DEF InOrder
    <2> QED BY <2>1, <2>2, <2>3
  <1> QED BY <1>1, <1>5, <1>6 DEF u

LEMMA SequencesAre ==
  ASSUME TypeOK
  PROVE  /\ file \in Seq(Nat) /\ queue \in Seq(Nat \ {NoRecord}) /\ queue \in Seq(Nat)
         /\ inHand \in Nat /\ sequence \in Nat
         /\ Pushed \in Nat /\ Summary \in Nat
         /\ Range(file) \subseteq Nat /\ Range(queue) \subseteq Nat \ {NoRecord}
  <1>1. Numbers \subseteq Nat \ {NoRecord}
    BY DEF Numbers
  <1>2. file \in Seq(Nat) /\ queue \in Seq(Nat \ {NoRecord}) /\ queue \in Seq(Nat)
    <2>1. file \in Seq(Numbers \cup {Fragment}) /\ queue \in Seq(Numbers)
      BY DEF TypeOK, OutputType
    <2>2. \A S, T : S \subseteq T => Seq(S) \subseteq Seq(T)
      <3> SUFFICES ASSUME NEW S, NEW T, S \subseteq T, NEW s \in Seq(S) PROVE s \in Seq(T)
        OBVIOUS
      <3>1. Len(s) \in Nat /\ s \in [1 .. Len(s) -> T]
        OBVIOUS
      <3> QED BY <3>1, SeqDef
    <2>3. Numbers \cup {Fragment} \subseteq Nat /\ Nat \ {NoRecord} \subseteq Nat
      BY <1>1
    <2> HIDE DEF NoRecord, Fragment
    <2> QED BY <1>1, <2>1, <2>2, <2>3
  <1>3. inHand \in Nat /\ summary \in Nat /\ sequence \in Nat
    BY <1>1, TelemetryAssumption DEF TypeOK, OutputType, EmitType
  <1>4. Pushed \in Nat /\ Summary \in Nat
    <2>1. emitting # None => number[emitting] \in Nat
      <3>1. emitting # None => number[emitting] \in Numbers \cup {NoRecord}
        BY DEF TypeOK, EmitType
      <3>2. Numbers \cup {NoRecord} \subseteq Nat
        BY <1>1
      <3> HIDE DEF NoRecord, None
      <3> QED BY <3>1, <3>2
    <2> QED BY <1>3, <2>1 DEF Pushed, Summary
  <1>5. Range(file) \subseteq Nat /\ Range(queue) \subseteq Nat \ {NoRecord}
    BY <1>2 DEF Range
  <1> QED BY <1>2, <1>3, <1>4, <1>5

LEMMA NumbersStayInOrder ==
  ASSUME TypeOK, NumbersInOrder, NumbersMove
  PROVE  NumbersInOrder'
  <1> USE SequencesAre
  <1>o. /\ InOrder(file) /\ InOrder(queue)
        /\ inHand # NoRecord => \A m \in Range(file) : m < inHand
        /\ \A n \in Range(queue), m \in Range(file) \cup {inHand} : m < n
        /\ Newest(Pushed) /\ Newest(Summary) /\ Newest(sequence + 1)
        /\ Pushed <= sequence /\ Summary <= sequence /\ dropped \subseteq 1 .. sequence
    BY DEF NumbersInOrder
  <1>1. CASE NothingMoves
    BY <1>1 DEF NothingMoves, Stays, Counts, Waits, NumbersInOrder, Newest, InOrder
  <1>2. CASE NumberTaken
    <2>1. /\ file' = file /\ inHand' = inHand /\ queue' = queue
          /\ dropped' = dropped /\ sequence' = sequence + 1
          /\ Pushed' \in {Pushed, sequence + 1} /\ Summary' \in {Summary, sequence + 1}
      BY <1>2 DEF NumberTaken, Stays
    <2>2. (Newest(Pushed) /\ Newest(Summary) /\ Newest(sequence + 1))'
      BY <1>o, <2>1 DEF Newest
    <2>3. Pushed' <= sequence' /\ Summary' <= sequence'
      BY <1>o, <2>1
    <2>4. dropped' \subseteq 1 .. sequence'
      <3> SUFFICES ASSUME NEW n \in dropped' PROVE n \in 1 .. sequence + 1
        BY <2>1
      <3> QED BY <1>o, <2>1
    <2> QED BY <1>o, <2>1, <2>2, <2>3, <2>4 DEF NumbersInOrder, InOrder
  <1>3. CASE NumberLost
    <2>1. /\ file' = file /\ inHand' = inHand /\ queue' = queue
          /\ dropped' = dropped \cup {sequence + 1} /\ sequence' = sequence + 1
          /\ Pushed' = Pushed /\ Summary' = Summary
      BY <1>3 DEF NumberLost, Stays, Waits
    <2>2. (Newest(Pushed) /\ Newest(Summary) /\ Newest(sequence + 1))'
      BY <1>o, <2>1 DEF Newest
    <2>3. Pushed' <= sequence' /\ Summary' <= sequence'
      BY <1>o, <2>1
    <2>4. dropped' \subseteq 1 .. sequence'
      <3> SUFFICES ASSUME NEW n \in dropped' PROVE n \in 1 .. sequence + 1
        BY <2>1
      <3> QED BY <1>o, <2>1
    <2> QED BY <1>o, <2>1, <2>2, <2>3, <2>4 DEF NumbersInOrder, InOrder
  <1>4. CASE NumberPushed
    <2> USE <1>4 DEF NumberPushed, Counts
    <2>1. Range(queue') = Range(queue) \cup {Pushed}
      BY Appended
    <2>2. \A m \in Range(file) \cup Range(queue) \cup {inHand} : m < Pushed
      BY <1>o DEF Newest
    <2>3. InOrder(file)' /\ InOrder(queue)'
      <3>1. InOrder(Append(queue, Pushed))
        BY <1>o, <2>2, Appended
      <3> QED BY <1>o, <3>1 DEF InOrder
    <2>4. (inHand # NoRecord => \A m \in Range(file) : m < inHand)'
      BY <1>o
    <2>5. (\A n \in Range(queue), m \in Range(file) \cup {inHand} : m < n)'
      BY <1>o, <2>1, <2>2
    <2>6. (Newest(Pushed) /\ Newest(Summary) /\ Newest(sequence + 1))'
      BY <1>o, <2>1 DEF Newest
    <2>7. (Pushed <= sequence /\ Summary <= sequence /\ dropped \subseteq 1 .. sequence)'
      BY <1>o
    <2> QED BY <2>3, <2>4, <2>5, <2>6, <2>7 DEF NumbersInOrder
  <1>5. CASE NumberDropped
    <2>1. /\ file' = file /\ inHand' = inHand /\ queue' = queue
          /\ dropped' = dropped \cup {Pushed} /\ sequence' = sequence
          /\ Pushed # NoRecord /\ Pushed' = NoRecord /\ Summary' = Summary
      BY <1>5 DEF NumberDropped, Stays
    <2>2. (Newest(Pushed) /\ Newest(Summary) /\ Newest(sequence + 1))'
      BY <1>o, <2>1 DEF Newest
    <2>3. Pushed' <= sequence' /\ Summary' <= sequence'
      BY <1>o, <2>1
    <2>4. dropped' \subseteq 1 .. sequence'
      <3> SUFFICES ASSUME NEW n \in dropped' PROVE n \in 1 .. sequence
        BY <2>1
      <3> QED BY <1>o, <2>1
    <2> QED BY <1>o, <2>1, <2>2, <2>3, <2>4 DEF NumbersInOrder, InOrder
  <1>6. CASE NumberPopped
    <2>1. /\ inHand = NoRecord /\ inHand' = Head(queue) /\ queue' = Tail(queue)
          /\ file' = file /\ sequence' = sequence /\ dropped' = dropped
          /\ Pushed' = Pushed /\ Summary' = Summary
      BY <1>6 DEF NumberPopped, Counts, Waits
    <2>2. /\ Range(queue) = {Head(queue)} \cup Range(Tail(queue))
          /\ InOrder(Tail(queue)) /\ \A m \in Range(Tail(queue)) : Head(queue) < m
      BY <1>6, <1>o, Popped DEF NumberPopped
    <2>3. InOrder(file)' /\ InOrder(queue)'
      BY <1>o, <2>1, <2>2 DEF InOrder
    <2>4. (inHand # NoRecord => \A m \in Range(file) : m < inHand)'
      BY <1>o, <2>1, <2>2
    <2>5. (\A n \in Range(queue), m \in Range(file) \cup {inHand} : m < n)'
      BY <1>o, <2>1, <2>2
    <2>6. (Newest(Pushed) /\ Newest(Summary) /\ Newest(sequence + 1))'
      BY <1>o, <2>1, <2>2 DEF Newest
    <2> QED BY <1>o, <2>1, <2>3, <2>4, <2>5, <2>6 DEF NumbersInOrder
  <1>7. CASE NumberWritten
    <2>1. /\ inHand # NoRecord /\ file' = Append(file, inHand) /\ inHand' = NoRecord
          /\ queue' = queue /\ sequence' = sequence /\ dropped' = dropped
          /\ Pushed' = Pushed /\ Summary' = Summary
      BY <1>7 DEF NumberWritten, Counts, Waits
    <2>2. Range(file') = Range(file) \cup {inHand} /\ InOrder(Append(file, inHand))
      BY <1>o, <2>1, Appended
    <2>3. InOrder(file)' /\ InOrder(queue)'
      BY <1>o, <2>1, <2>2 DEF InOrder
    <2>4. (\A n \in Range(queue), m \in Range(file) \cup {inHand} : m < n)'
      BY <1>o, <2>1, <2>2
    <2>5. (Newest(Pushed) /\ Newest(Summary) /\ Newest(sequence + 1))'
      BY <1>o, <2>1, <2>2 DEF Newest
    <2> QED BY <1>o, <2>1, <2>3, <2>4, <2>5 DEF NumbersInOrder
  <1>8. CASE WriteBroken
    <2>1. /\ file' = file \/ file' = Append(file, Fragment)
          /\ inHand' \in {NoRecord, inHand} /\ queue' = queue
          /\ sequence' = sequence /\ dropped' = dropped
          /\ Pushed' = Pushed /\ Summary' \in {NoRecord, Summary}
      BY <1>8 DEF WriteBroken, Counts
    <2>2. Range(file') \subseteq Range(file) \cup {NoRecord} /\ InOrder(file)'
      BY <1>o, <2>1, Appended DEF InOrder
    <2>3. InOrder(queue)'
      BY <1>o, <2>1 DEF InOrder
    <2>4. (inHand # NoRecord => \A m \in Range(file) : m < inHand)'
      BY <1>o, <2>1, <2>2
    <2>5. (\A n \in Range(queue), m \in Range(file) \cup {inHand} : m < n)'
      BY <1>o, <2>1, <2>2
    <2>6. (Newest(Pushed) /\ Newest(Summary) /\ Newest(sequence + 1))'
      BY <1>o, <2>1, <2>2 DEF Newest
    <2>7. (Pushed <= sequence /\ Summary <= sequence /\ dropped \subseteq 1 .. sequence)'
      BY <1>o, <2>1
    <2> QED BY <2>2, <2>3, <2>4, <2>5, <2>6, <2>7 DEF NumbersInOrder
  <1>9. CASE SummaryWritten
    <2>1. /\ inHand = NoRecord /\ queue = <<>> /\ Pushed = NoRecord /\ Summary # NoRecord
          /\ file' = Append(file, Summary) /\ Summary' = NoRecord /\ Pushed' = NoRecord
          /\ inHand' = NoRecord /\ queue' = <<>> /\ sequence' = sequence /\ dropped' = dropped
      BY <1>9 DEF SummaryWritten, Counts
    <2>2. /\ \A m \in Range(file) : m < Summary
          /\ Range(file') = Range(file) \cup {Summary} /\ InOrder(Append(file, Summary))
      <3>1. \A m \in Range(file) : m < Summary
        BY <1>o, <2>1 DEF Newest
      <3> QED BY <1>o, <2>1, <3>1, Appended
    <2>3. InOrder(file)' /\ InOrder(queue)' /\ Range(queue') = {}
      BY <2>1, <2>2 DEF InOrder, Range
    <2>4. (Newest(Pushed) /\ Newest(Summary) /\ Newest(sequence + 1))'
      BY <1>o, <2>1, <2>2, <2>3 DEF Newest
    <2> QED BY <1>o, <2>1, <2>3, <2>4 DEF NumbersInOrder
  <1> QED BY <1>1, <1>2, <1>3, <1>4, <1>5, <1>6, <1>7, <1>8, <1>9 DEF NumbersMove

\* What any step may do once the summary was or was not written.
Closing == {"flush", "close", "result", "done"}
ClosingMoves ==
  /\ stopPc' \in Closing /\ ~writeFailed' =>
       \/ stopPc \in Closing /\ summary' = summary
       \/ stopPc = "write" /\ summary' = summary /\ file' = Append(file, summary)
       \/ stopPc = "summary" /\ summary' = summary
  /\ stopPc' = "stop" => stopPc = "stop" \/ \E d \in Drainers : drainPc[d] = "spawn"

LEMMA StepsOfClosing ==
  ASSUME TypeOK, WriterInOrder, [Next]_vars
  PROVE  ClosingMoves
  <1> USE EmittersAre DEF Next, vars, TypeOK, OutputType, Closing
  <1>1. stopPc' \in Closing /\ ~writeFailed' =>
          \/ stopPc \in Closing /\ summary' = summary
          \/ stopPc = "write" /\ summary' = summary /\ file' = Append(file, summary)
          \/ stopPc = "summary" /\ summary' = summary
    OBVIOUS
  <1>2. stopPc' = "stop" => stopPc = "stop" \/ \E d \in Drainers : drainPc[d] = "spawn"
    OBVIOUS
  <1> QED BY <1>1, <1>2, Zenon DEF ClosingMoves

LEMMA SummaryStaysLast ==
  ASSUME TypeOK, TypeOK', WriterInOrder, NumbersAreKept, NumbersMove, [Next]_vars,
         ~writeFailed', ~writeFailed, stopPc' \in Closing, summary' # NoRecord
  PROVE  file' # <<>> /\ file'[Len(file')] = summary'
  <1>1. ClosingMoves
    BY StepsOfClosing
  <1>2. CASE stopPc \in Closing /\ summary' = summary
    <2>1. writerPc = "ended" /\ inHand = NoRecord /\ Summary = NoRecord
      BY <1>2 DEF Closing, WriterInOrder, Summary
    <2>2. file' = file
      BY <2>1 DEF NumbersMove, NothingMoves, NumberTaken, NumberLost, NumberPushed, NumberDropped,
                  NumberPopped, NumberWritten, WriteBroken, SummaryWritten, Stays
    <2> QED BY <1>2, <2>2 DEF NumbersAreKept, Closing
  <1>3. CASE stopPc = "write" /\ summary' = summary /\ file' = Append(file, summary)
    <2>1. file \in Seq(Nat) /\ summary \in Nat
      BY SequencesAre, <1>3 DEF Summary
    <2> QED BY <1>3, <2>1
  <1>4. stopPc = "summary" => summary = NoRecord
    BY DEF WriterInOrder
  <1> QED BY <1>1, <1>2, <1>3, <1>4 DEF ClosingMoves

LEMMA NumbersStayKept ==
  ASSUME TypeOK, TypeOK', DrainInv, WriterInOrder, OneNumber,
         NumbersInOrder, NumbersAreKept, NumbersMove, [Next]_vars
  PROVE  NumbersAreKept'
  <1> SUFFICES ASSUME ~writeFailed'
               PROVE  /\ ((Range(file) \cup Range(queue) \cup {inHand, Pushed, Summary}) \ {NoRecord}
                             = (1 .. sequence) \ dropped)'
                      /\ (Fragment \notin Range(file))'
                      /\ (stopPc \in Closing /\ summary # NoRecord
                            => file # <<>> /\ file[Len(file)] = summary)'
    BY DEF NumbersAreKept, Closing
  <1>a. ~writeFailed
    BY StepsOfDrain DEF FlagsLatch
  <1>b. (stopPc \in Closing /\ summary # NoRecord => file # <<>> /\ file[Len(file)] = summary)'
    BY <1>a, SummaryStaysLast
  <1> DEFINE Way == (Range(file) \cup Range(queue) \cup {inHand, Pushed, Summary}) \ {NoRecord}
  <1>c. Way = (1 .. sequence) \ dropped /\ Fragment \notin Range(file)
    BY <1>a DEF NumbersAreKept
  <1>d. /\ \A m \in Range(file) \cup Range(queue) \cup {inHand} : m < sequence + 1
        /\ Pushed < sequence + 1 /\ Summary < sequence + 1
        /\ Pushed # NoRecord => \A m \in Range(file) \cup Range(queue) \cup {inHand} : m < Pushed
        /\ \A n \in dropped : n \in 1 .. sequence
    BY SequencesAre DEF NumbersInOrder, Newest
  <1>e. Pushed # NoRecord => Summary = NoRecord
    <2>1. SUFFICES ASSUME Pushed # NoRecord, Summary # NoRecord PROVE FALSE
      OBVIOUS
    <2>2. drainStarted
      BY <2>1 DEF Summary, DrainInv, OneDrain
    <2>3. \A t \in Emitters : emitPc[t] # "push"
      BY <2>2, EmittersOut
    <2> QED BY <2>1, <2>3, PushedIs
  <1> USE SequencesAre
  <1>1. CASE NothingMoves
    BY <1>1, <1>b, <1>c DEF NothingMoves, Stays, Counts, Waits
  <1>2. CASE NumberTaken
    <2>1. /\ file' = file /\ inHand' = inHand /\ queue' = queue
          /\ dropped' = dropped /\ sequence' = sequence + 1
      BY <1>2 DEF NumberTaken, Stays
    <2>2. Way' = Way \cup {sequence + 1}
      <3>1. \/ Pushed = NoRecord /\ Pushed' = sequence + 1 /\ Summary' = Summary
            \/ Summary = NoRecord /\ Summary' = sequence + 1 /\ Pushed' = Pushed
        BY <1>2 DEF NumberTaken
      <3>2. sequence + 1 # NoRecord
        OBVIOUS
      <3> QED BY <2>1, <3>1, <3>2
    <2>3. (1 .. sequence') \ dropped' = ((1 .. sequence) \ dropped) \cup {sequence + 1}
      BY <1>d, <2>1
    <2> QED BY <1>b, <1>c, <2>1, <2>2, <2>3
  <1>3. CASE NumberLost
    <2>1. /\ file' = file /\ inHand' = inHand /\ queue' = queue
          /\ dropped' = dropped \cup {sequence + 1} /\ sequence' = sequence + 1
          /\ Pushed' = Pushed /\ Summary' = Summary
      BY <1>3 DEF NumberLost, Stays, Waits
    <2>2. (1 .. sequence') \ dropped' = (1 .. sequence) \ dropped
      BY <1>d, <2>1
    <2> QED BY <1>b, <1>c, <2>1, <2>2
  <1>4. CASE NumberPushed
    <2>1. /\ file' = file /\ inHand' = inHand /\ queue' = Append(queue, Pushed)
          /\ sequence' = sequence /\ dropped' = dropped
          /\ Pushed # NoRecord /\ Pushed' = NoRecord /\ Summary = NoRecord /\ Summary' = NoRecord
      BY <1>4 DEF NumberPushed, Counts
    <2>2. Range(queue') = Range(queue) \cup {Pushed}
      BY <2>1, Appended
    <2>3. Way' = Way
      BY <2>1, <2>2
    <2> QED BY <1>b, <1>c, <2>1, <2>3
  <1>5. CASE NumberDropped
    <2>1. /\ file' = file /\ inHand' = inHand /\ queue' = queue
          /\ dropped' = dropped \cup {Pushed} /\ sequence' = sequence
          /\ Pushed # NoRecord /\ Pushed' = NoRecord /\ Summary' = Summary
      BY <1>5 DEF NumberDropped, Stays
    <2>2. Pushed \notin Range(file) \cup Range(queue) \cup {inHand, Summary}
      BY <1>d, <1>e, <2>1
    <2>3. Way' = Way \ {Pushed}
      BY <2>1, <2>2
    <2> QED BY <1>b, <1>c, <2>1, <2>3
  <1>6. CASE NumberPopped
    <2>1. /\ inHand = NoRecord /\ inHand' = Head(queue) /\ queue' = Tail(queue)
          /\ file' = file /\ sequence' = sequence /\ dropped' = dropped
          /\ Pushed' = Pushed /\ Summary' = Summary
      BY <1>6 DEF NumberPopped, Counts, Waits
    <2>2. Range(queue) = {inHand'} \cup Range(queue')
      BY <1>6, <2>1, Popped DEF NumberPopped
    <2>3. Way' = Way
      BY <2>1, <2>2
    <2> QED BY <1>b, <1>c, <2>1, <2>3
  <1>7. CASE NumberWritten
    <2>1. /\ inHand # NoRecord /\ file' = Append(file, inHand) /\ inHand' = NoRecord
          /\ queue' = queue /\ sequence' = sequence /\ dropped' = dropped
          /\ Pushed' = Pushed /\ Summary' = Summary
      BY <1>7 DEF NumberWritten, Counts, Waits
    <2>2. Range(file') = Range(file) \cup {inHand}
      BY <2>1, Appended
    <2>3. Way' = Way
      BY <2>1, <2>2
    <2> QED BY <1>b, <1>c, <2>1, <2>2, <2>3
  <1>8. CASE WriteBroken
    BY <1>8 DEF WriteBroken
  <1>9. CASE SummaryWritten
    <2>1. /\ Summary # NoRecord /\ file' = Append(file, Summary) /\ Summary' = NoRecord
          /\ inHand' = inHand /\ queue' = queue /\ Pushed' = Pushed
          /\ sequence' = sequence /\ dropped' = dropped
      BY <1>9 DEF SummaryWritten, Counts
    <2>2. Range(file') = Range(file) \cup {Summary}
      BY <2>1, Appended
    <2>3. Way' = Way
      BY <2>1, <2>2
    <2> QED BY <1>b, <1>c, <2>1, <2>2, <2>3
  <1> QED BY <1>1, <1>2, <1>3, <1>4, <1>5, <1>6, <1>7, <1>8, <1>9 DEF NumbersMove

-----------------------------------------------------------------------------
(* What the delivery path promises.                                        *)

LEMMA InitIsRight == Init => IInv
  <1> SUFFICES ASSUME Init PROVE IInv
    OBVIOUS
  <1> USE EmittersAre, TelemetryAssumption DEF Init
  <1>1. EmitType
    BY DEF EmitType, Numbers
  <1>2. OutputType
    <2>1. queue \in Seq(Numbers) /\ Len(queue) <= Capacity /\ file \in Seq(Numbers \cup {Fragment})
      OBVIOUS
    <2>2. stopped \in BOOLEAN /\ writeFailed \in BOOLEAN /\ started \in BOOLEAN /\ alive \in BOOLEAN
      OBVIOUS
    <2> QED BY <2>1, <2>2 DEF OutputType
  <1>3. DrainType
    BY DEF DrainType, DrainPcs
  <1>4. SinkInOrder
    BY DEF SinkInOrder, Calling
  <1>5. OneDrain
    BY DEF OneDrain, InDrain, Loading, Leaving
  <1>6. ProducersOut
    BY DEF ProducersOut, Quiesced, Loading, Leaving
  <1>7. WriterInOrder
    BY DEF WriterInOrder
  <1>8. OneNumber
    BY DEF OneNumber
  <1>9. Pushed = NoRecord /\ Summary = NoRecord /\ Range(file) = {} /\ Range(queue) = {}
    BY DEF Pushed, Summary, Range
  <1>10. NumbersInOrder
    BY <1>9 DEF NumbersInOrder, Newest, InOrder
  <1>11. NumbersAreKept
    BY <1>9 DEF NumbersAreKept
  <1> QED
    BY <1>1, <1>2, <1>3, <1>4, <1>5, <1>6, <1>7, <1>8, <1>10, <1>11
       DEF IInv, TypeOK, DrainInv, NumberInv

\* The drain's protocol, the writer's and the numbers keep their order: the
\* inductive invariant.
THEOREM SpecIInv == Spec => []IInv
  <1>1. Init => IInv
    BY InitIsRight
  <1>2. IInv /\ [Next]_vars => IInv'
    <2> SUFFICES ASSUME IInv, [Next]_vars PROVE IInv'
      OBVIOUS
    <2> USE DEF IInv, DrainInv, NumberInv
    <2>1. TypeOK' /\ OneNumber'
      BY TypesStay, NumberStaysOne
    <2>2. DrainInv'
      BY <2>1, SinkStaysInOrder, DrainStaysOne, ProducersStayOut
    <2>3. WriterInOrder'
      BY <2>1, WriterStaysInOrder
    <2>4. NumbersMove
      BY <2>1, StepsOfNumbers
    <2>5. NumbersInOrder' /\ NumbersAreKept'
      BY <2>1, <2>4, NumbersStayInOrder, NumbersStayKept
    <2> QED BY <2>1, <2>2, <2>3, <2>5
  <1> QED BY <1>1, <1>2, PTL DEF Spec

\* The file grows in the order of the numbers, no number is written twice, and
\* while writes succeed a number that is missing was counted as dropped
\* (PublishPreparedRecord, BoundedQueue, Writer::Run, Stop).
THEOREM SpecNumbersAreExact == Spec => []NumbersAreExact
  <1>1. IInv => NumbersAreExact
    <2> SUFFICES ASSUME IInv PROVE NumbersAreExact
      OBVIOUS
    <2> USE DEF IInv, NumberInv
    <2>a. /\ file \in Seq(Nat) /\ queue \in Seq(Nat) /\ inHand \in Nat /\ Pushed \in Nat
          /\ Summary \in Nat
      BY SequencesAre
    <2>b. Pushed # NoRecord /\ Summary # NoRecord => FALSE
      <3>1. SUFFICES ASSUME Pushed # NoRecord, Summary # NoRecord PROVE FALSE
        OBVIOUS
      <3>2. \A t \in Emitters : emitPc[t] # "push"
        BY <3>1, EmittersOut DEF Summary, DrainInv, OneDrain
      <3> QED BY <3>1, <3>2, PushedIs
    <2>c. /\ InOrder(file) /\ InOrder(queue)
          /\ inHand # NoRecord => \A m \in Range(file) : m < inHand
          /\ \A n \in Range(queue), m \in Range(file) \cup {inHand} : m < n
          /\ Newest(Pushed) /\ Newest(Summary)
      BY DEF NumbersInOrder
    <2> HIDE DEF IInv, NumberInv
    <2>1. /\ <<inHand>> \in Seq(Nat) /\ <<Pushed, Summary>> \in Seq(Nat)
          /\ Range(<<inHand>>) = {inHand} /\ Range(<<Pushed, Summary>>) = {Pushed, Summary}
          /\ InOrder(<<inHand>>) /\ InOrder(<<Pushed, Summary>>)
      BY <2>a, <2>b DEF Range, InOrder
    <2> DEFINE hand == <<inHand>>
               first == file \o hand
               front == first \o queue
               last == <<Pushed, Summary>>
    <2>h. hand \in Seq(Nat) /\ Range(hand) = {inHand} /\ InOrder(hand)
      BY <2>1
    <2>l. last \in Seq(Nat) /\ Range(last) = {Pushed, Summary} /\ InOrder(last)
      BY <2>1
    <2> HIDE DEF hand, last
    <2>2. first \in Seq(Nat) /\ Range(first) = Range(file) \cup {inHand} /\ InOrder(first)
      <3>1. \A m \in Range(file), n \in Range(hand) : m # NoRecord /\ n # NoRecord => m < n
        BY <2>c, <2>h
      <3> QED BY <2>a, <2>c, <2>h, <3>1, Joined
    <2> HIDE DEF first
    <2>3. /\ front \in Seq(Nat) /\ Range(front) = Range(file) \cup {inHand} \cup Range(queue)
          /\ InOrder(front)
      <3>1. \A m \in Range(first), n \in Range(queue) : m # NoRecord /\ n # NoRecord => m < n
        BY <2>c, <2>2
      <3> QED BY <2>a, <2>c, <2>2, <3>1, Joined
    <2> HIDE DEF front
    <2>4. \A m \in Range(front), n \in {Pushed, Summary} : n # NoRecord => m < n
      BY <2>c, <2>3 DEF Newest
    <2>5. Range(front \o last) = Range(front) \cup {Pushed, Summary} /\ InOrder(front \o last)
      <3>1. \A m \in Range(front), n \in Range(last) : m # NoRecord /\ n # NoRecord => m < n
        BY <2>l, <2>4
      <3> QED BY <2>l, <2>3, <3>1, Joined
    <2>6. Pipeline = front \o last
      BY DEF Pipeline, front, first, hand, last
    <2>7. SequenceOrder
      BY <2>5, <2>6 DEF SequenceOrder
    <2>8. GapsAreDrops
      BY <2>3, <2>5, <2>6 DEF GapsAreDrops, IInv, NumberInv, NumbersAreKept
    <2> QED BY <2>7, <2>8 DEF NumbersAreExact, IInv
  <1> QED BY <1>1, SpecIInv, PTL

\* Drains end once and in order: the writer is stopped by one drain thread, a
\* drain that completed is complete, and nobody is left with a writer that is
\* gone (DrainUntil, Writer::Stop, OnUnload).
THEOREM SpecDrainEndsOnce == Spec => DrainEndsOnce
  <1>1. IInv => CompletedIsComplete
    <2> SUFFICES ASSUME IInv, drainResult = "completed"
                 PROVE  /\ \A t \in Emitters : emitPc[t] \in {"idle", "gate"}
                        /\ ~inCallback /\ ~registered
                        /\ Range(file) = (1 .. sequence) \ dropped
                        /\ summary = NoRecord \/ Last(file) = summary
      BY DEF CompletedIsComplete
    <2> USE DEF IInv
    <2>1. stopPc = "done" /\ ~writeFailed /\ drainStarted
      BY DEF WriterInOrder, DrainInv, OneDrain
    <2>2. queue = <<>> /\ inHand = NoRecord
      BY <2>1 DEF WriterInOrder
    <2>3. \A t \in Emitters : emitPc[t] \in {"idle", "gate"}
      BY <2>1, EmittersOut
    <2>4. ~inCallback /\ ~registered
      BY <2>1 DEF DrainInv, ProducersOut
    <2>5. Pushed = NoRecord /\ Summary = NoRecord
      BY <2>1, <2>3, PushedIs DEF NumberInv, Summary
    <2>6. Range(queue) = {}
      BY <2>2 DEF Range
    <2>7. /\ (Range(file) \cup Range(queue) \cup {inHand, Pushed, Summary}) \ {NoRecord}
               = (1 .. sequence) \ dropped
          /\ Fragment \notin Range(file)
          /\ summary # NoRecord => file[Len(file)] = summary
      BY <2>1 DEF NumberInv, NumbersAreKept
    <2>8. Range(file) = (1 .. sequence) \ dropped
      BY <2>2, <2>5, <2>6, <2>7
    <2> QED BY <2>3, <2>4, <2>7, <2>8 DEF Last
  <1>2. IInv => WriterOutlivesUse
    <2> SUFFICES ASSUME IInv, ~alive
                 PROVE  /\ writerPc = "ended" /\ stopPc \in {"none", "done"} /\ ~inCallback
                        /\ \A t \in Emitters : emitPc[t] = "idle"
                        /\ drainPc["client"] \in {"idle", "sink"}
      BY DEF WriterOutlivesUse
    <2> USE DEF IInv, DrainInv
    <2>1. writerPc = "ended" /\ drainPc["host"] = "done"
      BY DEF WriterInOrder
    <2>2. stopPc \in {"none", "done"} /\ ~inCallback
      BY <2>1 DEF OneDrain, ProducersOut, Leaving
    <2>3. ~sink /\ drainPc["client"] \in {"idle", "sink"}
      BY <2>1 DEF SinkInOrder
    <2>4. \A t \in External : emitPc[t] = "idle"
      BY <2>3 DEF SinkInOrder
    <2>5. emitPc["game"] = "idle" /\ \A d \in Drainers : emitPc[d] = "idle"
      BY <2>1, <2>2, <2>3, EmittersAre DEF ProducersOut
    <2> QED BY <2>1, <2>2, <2>3, <2>4, <2>5, EmittersAre
  <1>3. IInv /\ [Next]_vars => (stopPc # stopPc' /\ stopPc' = "stop" => stopPc = "none")
    <2> SUFFICES ASSUME IInv, [Next]_vars, stopPc # stopPc', stopPc' = "stop"
                 PROVE  stopPc = "none"
      OBVIOUS
    <2>1. \E d \in Drainers : drainPc[d] = "spawn"
      BY StepsOfClosing DEF IInv, ClosingMoves
    <2> QED BY <2>1 DEF IInv, DrainInv, OneDrain, InDrain
  <1>4. IInv /\ IInv' /\ [Next]_vars =>
          [/\ stopPc # stopPc' /\ stopPc' = "stop" => stopPc = "none"
           /\ CompletedIsComplete' /\ WriterOutlivesUse']_vars
    <2>1. IInv' => CompletedIsComplete' /\ WriterOutlivesUse'
      BY <1>1, <1>2, PTL
    <2> QED BY <1>3, <2>1
  <1> QED BY <1>4, SpecIInv, PTL DEF Spec, DrainEndsOnce

=============================================================================
