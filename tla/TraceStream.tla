---------------------------- MODULE TraceStream ----------------------------
(***************************************************************************)
(* One pass of smedley_trace over a trace file (src/apps/trace/trace.cpp): *)
(* what Stream accepts, what it keeps for the summary, and the health and  *)
(* capture metadata the strict exports demand.  The module has no state: a *)
(* file is a sequence of lines, read one after the other.                  *)
(*                                                                         *)
(* A line is [form, newline, event, env, seq, mono, run, date, ...]: form  *)
(* is what the JSON parser and the envelope made of it ("record",          *)
(* "truncated" or "malformed"), env stands for category, mapping and       *)
(* quality together, and the other fields are those of its event.          *)
(***************************************************************************)
EXTENDS Integers, Sequences, FiniteSets, SequencesExt

CONSTANTS
  None,      \* an absent field
  DayUnits   \* raw date units of a day

ASSUME DayUnitsAssumption == DayUnits \in Nat \ {0}

SumOver(S, Op(_)) == FoldSet(LAMBDA x, n : Op(x) + n, 0, S)

\* ---------------------------------------------------------------------------
\* Milestones of a campaign's start.

Milestones == {"campaign.save_selection_requested", "campaign.save_load_completed",
               "campaign.entered", "observer.configured"}

NoMilestone == [seq |-> 0, mono |-> 0, duplicate |-> FALSE]

\* An endpoint has the runner's envelope, no date and exactly its own payload.
IsLifecycleEndpoint(r) == r.env = "lifecycle" /\ r.date = None /\ r.wellformed

CaptureLifecycle(life, r) ==
  IF r.event \notin Milestones THEN life
  ELSE IF ~IsLifecycleEndpoint(r) \/ life[r.event].seq # 0
  THEN [life EXCEPT ![r.event].duplicate = TRUE]
  ELSE [life EXCEPT ![r.event] = [@ EXCEPT !.seq = r.seq, !.mono = r.mono]]

LifecycleDuration(start, end) ==
  IF \/ start.seq = 0 \/ end.seq = 0 \/ start.duplicate \/ end.duplicate
     \/ start.seq >= end.seq \/ start.mono > end.mono
  THEN None ELSE end.mono - start.mono

\* ---------------------------------------------------------------------------
\* Stream.

NothingRead(acc) ==
  [error |-> None, warning |-> FALSE, gaps |-> 0, regressed |-> FALSE, run |-> None,
   seq |-> 0, mono |-> 0, date |-> None, records |-> 0, progress |-> None,
   life |-> [m \in Milestones |-> NoMilestone], acc |-> acc]

\* The checks on a decoded record, in the order the code makes them.
Refusal(st, r) ==
  CASE st.run # None /\ st.run # r.run      -> "inconsistent run_id"
    [] st.records > 0 /\ r.seq <= st.seq    -> "sequence is not strictly increasing"
    [] st.records > 0 /\ r.mono < st.mono   -> "monotonic_us decreased"
    [] OTHER                                -> None

\* What the summary keeps of an accepted record.
Summarised(st, r) ==
  [st EXCEPT !.run = r.run, !.seq = r.seq, !.mono = r.mono, !.records = @ + 1,
     !.gaps = @ + (r.seq - st.seq - 1),
     !.regressed = @ \/ (r.date # None /\ st.date # None /\ r.date < st.date),
     !.date = IF r.date = None THEN @ ELSE r.date,
     !.progress = IF r.event \in {"telemetry.progress", "telemetry.summary"}
                  THEN [dropped |-> r.dropped, write_failed |-> r.write_failed] ELSE @,
     !.life = CaptureLifecycle(@, r)]

Visited(st, acc) == [st EXCEPT !.acc = acc, !.error = IF acc.bad THEN "visitor" ELSE None]

\* process: only an unterminated last line that stops too early is forgiven.
Process(st, line, Visit(_, _)) ==
  CASE st.error # None -> st
    [] line.form = "truncated" /\ ~line.newline -> [st EXCEPT !.warning = TRUE]
    [] line.form # "record" -> [st EXCEPT !.error = line.form]
    [] Refusal(st, line) # None -> [st EXCEPT !.error = Refusal(st, line)]
    [] OTHER -> Visited(Summarised(st, line), Visit(st.acc, line))

NotEmpty(st) == IF st.error = None /\ st.records = 0 THEN [st EXCEPT !.error = "no records"] ELSE st

Stream(file, acc, Visit(_, _)) ==
  LET read[n \in 0 .. Len(file)] ==
        IF n = 0 THEN NothingRead(acc) ELSE Process(read[n - 1], file[n], Visit)
  IN NotEmpty(read[Len(file)])

\* ---------------------------------------------------------------------------
\* Evidence of a healthy capture.  Visitors refuse by setting bad.

Bad(a) == [a EXCEPT !.bad = TRUE]
Refuse(a, ok, b) == IF ok THEN b ELSE Bad(a)

IsHealthRecord(r) == r.env = "health" /\ r.date = None

\* Mutant: drops are looked at, invalid records are not.
HealthyFamilySummary_IgnoresInvalid(r) ==
  IsHealthRecord(r) /\ r.dropped = 0

HealthyFamilySummary(r) ==
  IsHealthRecord(r) /\ r.dropped = 0 /\ r.invalid = 0

\* The last telemetry.summary must be the only one.
CaptureTerminalHealth(a, r) ==
  Refuse(a, IsHealthRecord(r) /\ r.dropped = 0 /\ ~r.write_failed /\ a.terminal = 0,
         [a EXCEPT !.terminal = r.seq])

\* One summary per family the export depends on; polls of the daily ones.
CaptureFamilyHealth(a, r, wanted) ==
  IF r.family \notin wanted THEN a
  ELSE Refuse(a, HealthyFamilySummary(r) /\ r.family \notin DOMAIN a.health,
              [a EXCEPT !.health = [f \in DOMAIN @ \cup {r.family} |->
                                      IF f = r.family THEN r.polls ELSE @[f]]])

\* telemetry.capture.rule, .field and .country of a family.
NoRule == [seen |-> FALSE, cadence |-> None, all |-> FALSE, bounded |-> FALSE,
           countries |-> 0, provinces |-> 0, fields |-> {}, tags |-> {}]

RuleOf(a, family) == IF family \in DOMAIN a.rules THEN a.rules[family] ELSE NoRule

CaptureMetadataOf(a, r, rule) ==
  LET With(new) == [a EXCEPT !.rules = [f \in DOMAIN @ \cup {r.family} |->
                                          IF f = r.family THEN new ELSE @[f]]]
  IN CASE ~IsHealthRecord(r) -> Bad(a)
       [] r.event = "telemetry.capture.rule" ->
            Refuse(a, ~rule.seen,
                   With([rule EXCEPT !.seen = TRUE, !.cadence = r.cadence, !.all = r.all,
                           !.bounded = r.bounded, !.countries = r.countries,
                           !.provinces = r.provinces]))
       [] r.event = "telemetry.capture.field" ->
            Refuse(a, r.field \notin rule.fields, With([rule EXCEPT !.fields = @ \cup {r.field}]))
       [] OTHER ->
            Refuse(a, r.country \notin rule.tags, With([rule EXCEPT !.tags = @ \cup {r.country}]))

CaptureMetadata(a, r) == CaptureMetadataOf(a, r, RuleOf(a, r.family))

HasFields(rule, required) == rule.all \/ required \subseteq rule.fields

\* What every strict export asks of the file as a whole.
Gapless(st) == ~st.warning /\ st.gaps = 0 /\ ~st.regressed
Ended(st) == st.acc.terminal # 0 /\ st.acc.terminal = st.seq

\* HealthyFactoryTrace also reads the last progress record.
HealthyFactoryTrace(st) ==
  /\ Gapless(st)
  /\ st.progress # None => st.progress.dropped = 0 /\ ~st.progress.write_failed

NoEvidence == [bad |-> FALSE, terminal |-> 0, health |-> <<>>, rules |-> <<>>]

Metadata == {"telemetry.capture.rule", "telemetry.capture.field", "telemetry.capture.country"}

\* The records every strict visitor treats alike.
VisitHealth(a, r, wanted) ==
  CASE r.event \in Metadata -> CaptureMetadata(a, r)
    [] r.event = "telemetry.family.summary" -> CaptureFamilyHealth(a, r, wanted)
    [] r.event = "telemetry.summary" -> CaptureTerminalHealth(a, r)
    [] OTHER -> a
=============================================================================
