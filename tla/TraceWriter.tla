---------------------------- MODULE TraceWriter ----------------------------
(***************************************************************************)
(* What every collector of the telemetry plugin shares                     *)
(* (src/plugins/telemetry/src/plugin.cpp): the records it makes, their     *)
(* sequence numbers, the record the queue refuses, and the lifecycle       *)
(* records around them: the capture rules at the head of a trace, the      *)
(* health of each family and the writer's summary at its end.              *)
(***************************************************************************)
EXTENDS TraceStream

Record(event, family, date, extra) ==
  extra @@ [form |-> "record", newline |-> TRUE, event |-> event, family |-> family,
            env |-> "state", date |-> date]

HealthLine(event, family, extra) ==
  extra @@ [form |-> "record", newline |-> TRUE, event |-> event, family |-> family,
            env |-> "health", date |-> None]

\* A rule with no country takes them all.
HasCountryTag(filter, tag) == filter = {} \/ tag \in filter

\* A line's clock is the number of the poll that emitted it.
Numbered(recs, from, clock) ==
  [i \in DOMAIN recs |-> recs[i] @@ [seq |-> from + i, mono |-> clock, run |-> "run"]]

SeqOfSet(S) == FoldSet(LAMBDA x, s : Append(s, x), <<>>, S)
RecordsOf(sets) == FoldLeft(LAMBDA s, S : s \o SeqOfSet(S), <<>>, sets)

\* Capture metadata at the head of the file: daily rules over all fields.
CaptureLines(families, filter) ==
  SeqOfSet({HealthLine("telemetry.capture.rule", f,
              [cadence |-> "daily", all |-> TRUE, bounded |-> FALSE,
               countries |-> Cardinality(filter), provinces |-> 0]) : f \in families})
  \o SeqOfSet({HealthLine("telemetry.capture.country", f, [country |-> tag]) :
                 f \in families, tag \in filter})

\* EmitFamilyState consumes a sequence number for the record the queue refused:
\* the first one of the family lost.
IsLost(lines, i, lost) ==
  lines[i].family = lost /\ \A j \in 1..(i - 1) : lines[j].family # lost
LostSeqs(lines, lost) == {lines[i].seq : i \in {j \in DOMAIN lines : IsLost(lines, j, lost)}}
Emitted(lines, lost) == SelectSeq(lines, LAMBDA r : r.seq \notin LostSeqs(lines, lost))

\* OnUnload writes the health of each family, then the terminal summary.
TerminalLines(families, health) ==
  SeqOfSet({HealthLine("telemetry.family.summary", f, health[f]) : f \in families})
  \o <<HealthLine("telemetry.summary", "",
         [dropped |-> SumOver(DOMAIN health, LAMBDA f : health[f].dropped),
          write_failed |-> FALSE])>>
=============================================================================
