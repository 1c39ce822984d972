--------------------------- MODULE BenchmarkTrace ---------------------------
(***************************************************************************)
(* What smedley_trace (src/apps/trace/trace.cpp) accepts as the benchmark  *)
(* records of a trace: the fields of one record (BenchmarkSchema), their   *)
(* order (BenchmarkTransition), what the summary keeps of them             *)
(* (CaptureBenchmark) and what assert-benchmark demands (VerifyBenchmark). *)
(* The module has no state: TraceStream reads traces with it, and          *)
(* CampaignRunner's records are held against it.                           *)
(*                                                                         *)
(* A record is [event, date, start, target, actual, days, late, reason,    *)
(* paused]; a field that is not in the payload is None.  The sampled       *)
(* metrics of a resources record are left out, and elapsed_us is only      *)
(* whether it reached the deadline.                                        *)
(***************************************************************************)
EXTENDS Integers, Sequences, FiniteSets

CONSTANTS
  Day,     \* raw_units_per_day
  None     \* an absent field

ASSUME DayAssumption == Day \in Nat \ {0}

FailureReasons ==
  {"timeout", "date_overshoot", "idler_unavailable", "invalid_pause_state", "pause_failed",
   "observer_invariant_failed", "date_regressed", "unexpected_pause", "game_over",
   "timer_unavailable", "invalid_target"}

Terminals == {"benchmark.completed", "benchmark.failed"}
BenchmarkEvents == Terminals \cup {"benchmark.started", "benchmark.resources"}

\* A target the runner may be given: later than the start, by whole days.
Reachable(start, target) == target > start /\ (target - start) % Day = 0

StartedSchema(rec) ==
  /\ rec.date = rec.start
  /\ Reachable(rec.start, rec.target)
  /\ rec.days = (rec.target - rec.start) \div Day

CompletedSchema(rec) ==
  /\ Reachable(rec.start, rec.target)
  /\ rec.date # None /\ rec.actual = rec.target /\ rec.date = rec.actual
  /\ rec.paused = TRUE
  /\ rec.days = (rec.target - rec.start) \div Day

\* The fields each reason of a failure demands.
ReasonSchema(rec) ==
  LET dated == rec.actual # None
      stopped == rec.paused = TRUE
  IN CASE rec.reason = "date_overshoot"    -> dated /\ rec.actual > rec.target /\ stopped
       [] rec.reason = "idler_unavailable" -> ~dated /\ rec.paused = None
       [] rec.reason = "pause_failed"      -> dated /\ ~stopped
       [] rec.reason = "timer_unavailable" -> dated
       [] rec.reason = "invalid_target"    -> dated /\ ~Reachable(rec.start, rec.target)
       [] OTHER                            -> dated /\ stopped

FailedSchema(rec) ==
  /\ rec.reason \in FailureReasons
  /\ rec.reason # "invalid_target" => Reachable(rec.start, rec.target)
  /\ rec.actual = rec.date
  /\ ReasonSchema(rec)

BenchmarkSchema(rec) ==
  CASE rec.event = "benchmark.started"   -> StartedSchema(rec)
    [] rec.event = "benchmark.completed" -> CompletedSchema(rec)
    [] rec.event = "benchmark.failed"    -> FailedSchema(rec)
    [] OTHER                             -> TRUE

\* BenchmarkTraceState.
NoBenchmark == [started |-> FALSE, resources |-> FALSE, terminal |-> FALSE,
                start |-> None, target |-> None, resourcesDate |-> None]

StartedInOrder(st) == ~st.started /\ ~st.terminal
ResourcesInOrder(st) == st.started /\ ~st.resources /\ ~st.terminal
TerminalInOrder(st, rec) ==
  /\ ~st.terminal
  /\ IF rec.reason = "invalid_target" THEN ~st.started
     ELSE st.started /\ st.start = rec.start /\ st.target = rec.target
  /\ st.resources => st.resourcesDate = rec.date
  /\ rec.reason = "timeout" => rec.late

InOrder(st, rec) ==
  CASE rec.event = "benchmark.started"   -> StartedInOrder(st)
    [] rec.event = "benchmark.resources" -> ResourcesInOrder(st)
    [] rec.event \in Terminals           -> TerminalInOrder(st, rec)
    [] OTHER                             -> TRUE

AfterRecord(st, rec) ==
  CASE rec.event = "benchmark.started" ->
         [st EXCEPT !.started = TRUE, !.start = rec.start, !.target = rec.target]
    [] rec.event = "benchmark.resources" ->
         [st EXCEPT !.resources = TRUE, !.resourcesDate = rec.date]
    [] rec.event \in Terminals -> [st EXCEPT !.terminal = TRUE]
    [] OTHER -> st

\* BenchmarkTransition over a whole trace: the state after its first n records.
StateAfter(trace) ==
  LET after[n \in 0 .. Len(trace)] ==
        IF n = 0 THEN NoBenchmark ELSE AfterRecord(after[n - 1], trace[n])
  IN after

Accepts(trace) ==
  \A n \in 1 .. Len(trace) :
    BenchmarkSchema(trace[n]) /\ InOrder(StateAfter(trace)[n - 1], trace[n])

\* BenchmarkSummary: the last started or terminal record decides it.
NoSummary == [status |-> "unavailable", start |-> None, target |-> None, actual |-> None,
              days |-> None, reason |-> None, paused |-> None]

CaptureBenchmark(sum, rec) ==
  IF rec.event \notin Terminals \cup {"benchmark.started"} THEN sum
  ELSE LET dated == [sum EXCEPT !.start = rec.start, !.target = rec.target]
           Kept(new, old) == IF new = None THEN old ELSE new
       IN IF rec.event = "benchmark.started" THEN [dated EXCEPT !.status = "started"]
          ELSE [dated EXCEPT
                  !.status = IF rec.event = "benchmark.completed" THEN "completed" ELSE "failed",
                  !.actual = Kept(rec.actual, @), !.days = Kept(rec.days, @),
                  !.reason = Kept(rec.reason, @), !.paused = Kept(rec.paused, @)]

\* VerifyBenchmark's part about the benchmark itself; progress says whether a
\* progress or summary record was seen, expected is the status or the reason.
VerifyCompleted(sum, progress, days) ==
  /\ sum.status = "completed"
  /\ sum.actual = sum.target /\ sum.target > sum.start /\ sum.days >= 1
  /\ sum.paused = TRUE /\ sum.reason = None
  /\ progress
  /\ days = None \/ sum.days = days

VerifyFailed(sum, progress, reason) ==
  /\ sum.status = "failed" /\ sum.reason = reason
  /\ reason = "date_overshoot" => progress

=============================================================================
