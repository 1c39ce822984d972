----------------------------- MODULE Population -----------------------------
(***************************************************************************)
(* A campaign's POPs, the telemetry that observes them day by day, the     *)
(* trace file this makes, and the two POP exports of smedley_trace at its  *)
(* end.  The game changes the stock, the owners of the provinces and the   *)
(* money; the GiveMoney hook sees only part of the money; a poll may find  *)
(* an incomplete capture, a full hook buffer, a full queue, or be skipped; *)
(* the run may end without its last records.                               *)
(*                                                                         *)
(* TracePops folds the file, PopulationCollector makes its records; truth  *)
(* is a history variable: what each poll really found.                     *)
(***************************************************************************)
EXTENDS TracePops, PopulationCollector

CONSTANTS
  MaxDays,    \* bound: polls of a run
  MaxEvents,  \* bound: changes and faults of a run
  StartOwners, StartPops,  \* the worlds a run may start in
  Filters     \* the country filters a run may be configured with

VARIABLES pops, owner, posted, date, collector, health, file, seq, truth, filter, events, ended

vars == <<pops, owner, posted, date, collector, health, file, seq, truth, filter, events, ended>>

NoPost == [p \in Pops |-> [k \in Components |-> 0]]

\* ---------------------------------------------------------------------------
\* Capture metadata at the head of the file.

TraceFamilies == {"pop.aggregate", "pop.lifecycle", "pop.cashflow.aggregate"}

RuleLines == CaptureLines(TraceFamilies, filter)

Init ==
  /\ filter \in Filters
  /\ owner \in StartOwners /\ pops \in StartPops
  /\ posted = NoPost /\ date = 0
  /\ collector = NoCollector
  /\ health = [f \in Families |-> [polls |-> 0, invalid |-> 0, dropped |-> 0]]
  /\ file = Numbered(RuleLines, 0, 0) /\ seq = Len(RuleLines)
  /\ truth = <<>> /\ events = 0 /\ ended = "no"

\* ---------------------------------------------------------------------------
\* The game between two polls.

Happens == ended = "no" /\ events < MaxEvents /\ Len(truth) < MaxDays /\ events' = events + 1

World == <<pops, owner, posted>>
Observer == <<date, collector, health, file, seq, truth, filter, ended>>

Change(p) ==
  /\ Happens
  /\ \/ \E s \in Provinces, t \in Types :
          /\ pops[p] = None
          /\ pops' = [pops EXCEPT ![p] = [prov |-> s, type |-> t, money |-> 1]]
     \/ pops[p] # None /\ pops' = [pops EXCEPT ![p] = None]
     \/ pops[p] # None /\ \E s \in Provinces, t \in Types :
          /\ <<s, t>> # <<pops[p].prov, pops[p].type>>
          /\ pops' = [pops EXCEPT ![p] = [@ EXCEPT !.prov = s, !.type = t]]
  /\ UNCHANGED <<owner, posted, Observer>>

Cede(s) ==
  /\ Happens
  /\ \E tag \in Countries \cup {None} : tag # owner[s] /\ owner' = [owner EXCEPT ![s] = tag]
  /\ UNCHANGED <<pops, posted, Observer>>

\* GiveMoneyHook records what it posts and the change it caused.
GiveMoney(p) ==
  /\ Happens /\ pops[p] # None
  /\ \E k \in Components : posted' = [posted EXCEPT ![p][k] = @ + 1]
  /\ pops' = [pops EXCEPT ![p].money = @ + 1]
  /\ UNCHANGED <<owner, Observer>>

\* Direct redistribution bypasses the hook.
Bypass(p) ==
  /\ Happens /\ pops[p] # None /\ pops[p].money > 0
  /\ pops' = [pops EXCEPT ![p].money = @ - 1]
  /\ UNCHANGED <<owner, posted, Observer>>

\* ---------------------------------------------------------------------------
\* A poll.

Emit(lines, lost, invalid) ==
  LET dropped(f) == IF f = lost THEN Cardinality(LostSeqs(lines, lost)) ELSE 0
  IN /\ file' = file \o Emitted(lines, lost)
     /\ seq' = seq + Len(lines)
     /\ health' = [f \in Families |->
          [polls |-> health[f].polls + 1, invalid |-> health[f].invalid + invalid[f],
           dropped |-> health[f].dropped + dropped(f)]]

Observe(day, w, lost) ==
  /\ \E poll \in {CollectPopulation(collector, w, day, filter)} :
       /\ collector' = poll.c
       /\ Emit(Numbered(RecordsOf(poll.recs), seq, Len(truth) + 1), lost, poll.invalid)
  /\ truth' = Append(truth, w @@ [date |-> day])
  /\ posted' = NoPost

Found(captured, hooked) ==
  [pops |-> pops, owner |-> owner, posted |-> posted, captured |-> captured, hooked |-> hooked]

\* What may go wrong in a poll: the capture, the hooks' buffer, or one family's record.
PollFaults ==
  {[captured |-> FALSE, hooked |-> TRUE, lost |-> None],
   [captured |-> TRUE, hooked |-> FALSE, lost |-> None]}
  \cup {[captured |-> TRUE, hooked |-> TRUE, lost |-> f] : f \in TraceFamilies}
NoFault == [captured |-> TRUE, hooked |-> TRUE, lost |-> None]

\* BeginHookDrain, Drain and Collect of one date; a regression resets first.
Poll ==
  /\ ended = "no" /\ Len(truth) < MaxDays
  /\ \E x \in PollFaults \cup {NoFault} :
       /\ IF x = NoFault THEN UNCHANGED events ELSE Happens
       /\ Observe(date, Found(x.captured, x.hooked), x.lost)
  /\ date' = date + DayUnits
  /\ UNCHANGED <<pops, owner, filter, ended>>

\* A day passes without a poll, or a save of the day before is loaded.
SkipDay == Happens /\ truth # <<>> /\ date' = date + DayUnits
           /\ UNCHANGED <<World, collector, health, file, seq, truth, filter, ended>>

LoadEarlier ==
  /\ Happens /\ truth # <<>>
  /\ date' = Last(truth).date - DayUnits
  /\ collector' = ResetCollector(collector)
  /\ UNCHANGED <<World, health, file, seq, truth, filter, ended>>

\* ---------------------------------------------------------------------------
\* The end of the run.

Terminal == TerminalLines(TraceFamilies, health)

Unload ==
  /\ ended = "no" /\ truth # <<>> /\ ended' = "unloaded"
  /\ file' = file \o Numbered(Terminal, seq, Len(truth) + 1) /\ seq' = seq + Len(Terminal)
  /\ UNCHANGED <<World, date, collector, health, truth, filter, events>>

\* The process dies: the file stops, perhaps inside a line.
Crash ==
  /\ Happens /\ truth # <<>> /\ ended' = "crashed"
  /\ \E n \in {0, Len(Terminal) - 1}, cut \in BOOLEAN :
       file' = file \o SubSeq(Numbered(Terminal, seq, Len(truth) + 1), 1, n)
                 \o (IF cut THEN <<[form |-> "truncated", newline |-> FALSE]>> ELSE <<>>)
  /\ UNCHANGED <<World, date, collector, health, seq, truth, filter>>

Stop == ended # "no" /\ UNCHANGED vars

Next ==
  \/ \E p \in Pops : Change(p) \/ GiveMoney(p) \/ Bypass(p)
  \/ \E s \in Provinces : Cede(s)
  \/ Poll \/ SkipDay \/ LoadEarlier \/ Unload \/ Crash \/ Stop

Spec == Init /\ [][Next]_vars

\* ---------------------------------------------------------------------------
\* What was really there.

Consecutive(i) == truth[i - 1].date + DayUnits = truth[i].date
AllConsecutive == \A i \in 2..Len(truth) : Consecutive(i)
Whole(t) == t.captured /\ Alive(t) = Resolved(t)

InGroup(t, tag, type) ==
  {p \in Selected(t, filter) : OwnerOf(t, p) = tag /\ type \in {None, t.pops[p].type}}
MoneyOf(t, S) == SumOver(S, LAMBDA p : t.pops[p].money)

TrueStock(t) ==
  LET group(p) == [country |-> OwnerOf(t, p), province |-> t.pops[p].prov, type |-> t.pops[p].type]
  IN {group(p) @@ [count |-> Cardinality({q \in Alive(t) : group(q) = group(p)})] : p \in Alive(t)}

TrueChanges(b, t) ==
  {[pop |-> p, event |-> "pop.lifecycle." \o
      (CASE b.pops[p] = None -> "observed_appeared" [] t.pops[p] = None -> "observed_disappeared"
         [] OTHER -> "scope_changed"),
    tags |-> {OwnerOf(x, p) : x \in {y \in {b, t} : y.pops[p] # None}}] :
     p \in {q \in Alive(b) \cup Alive(t) :
               q \in Alive(b) \cap Alive(t) => Scope(b, q) # Scope(t, q)}}

\* ---------------------------------------------------------------------------
\* Properties.

\* Whatever the export of the stock publishes for a country is the stock of
\* every polled day and exactly what changed between them: no lost record,
\* incomplete capture, skipped day or cut file gets through the exporter.
StockRowsAreTrue(tag, x) ==
    LET of(kind, t) == {r.row : r \in {q \in x.rows : q.kind = kind /\ q.date = t.date}}
        mine(S) == {y \in S : tag \in {None, y.country}}
    IN x.published =>
         /\ filter = {} /\ AllConsecutive /\ \A i \in DOMAIN truth : Whole(truth[i])
         /\ \A i \in DOMAIN truth : of("stock", truth[i]) = mine(TrueStock(truth[i]))
         /\ \A i \in 2..Len(truth) : of("detail", truth[i]) =
              {d \in TrueChanges(truth[i - 1], truth[i]) : tag = None \/ tag \in d.tags}

StockIsTrue ==
  ended # "no" => \A tag \in Countries \cup {None} :
    StockRowsAreTrue(tag, ExportPopStockLifecycle(file, tag))

\* Whatever the export of the cash flows publishes is an account of money that
\* was there on two consecutive days: opening and closing are the sums of the
\* group's POPs, delta what the hook posted to those still in it.
CashRowsAreTrue(x) ==
    LET holds(r, i) ==
          /\ i > 1 /\ Consecutive(i)
          /\ r.account.opening = MoneyOf(truth[i - 1], InGroup(truth[i - 1], r.country, r.type))
          /\ r.account.closing = MoneyOf(truth[i], InGroup(truth[i], r.country, r.type))
          /\ r.account.delta = SumOver(InGroup(truth[i], r.country, r.type),
                                       LAMBDA p : MoneyDelta(truth[i], p))
    IN x.published =>
         /\ \A i \in DOMAIN truth : Whole(truth[i]) /\ truth[i].hooked
         /\ \A r \in x.rows : \E i \in DOMAIN truth : truth[i].date = r.date /\ holds(r, i)

CashIsTrue == ended # "no" => CashRowsAreTrue(ExportPopCashFlow(file, None))

\* Neither population export publishes a row that is not true of the days it is for.
ExportsAreTrue == StockIsTrue /\ CashIsTrue

\* Every record is true of the poll that emitted it, the last one here: a lifecycle
\* that claims an opening and a POP's or a type's account compare with the
\* complete stock of exactly the day before, and an account adds up.
RecordsAreTrue ==
  \A n \in {i \in DOMAIN file : file[i].form = "record" /\ file[i].mono = Len(truth)} :
    LET r == file[n]
        t == truth[r.mono]
        b == truth[r.mono - 1]
        adds == r.body.closing - r.body.opening = r.body.delta + r.body.residual
    IN CASE r.event = "pop.lifecycle.summary" ->
              /\ r.body.closing = Cardinality(Alive(t))
              /\ r.body.opening_seen =>
                   /\ r.mono > 1 /\ Consecutive(r.mono) /\ Whole(b)
                   /\ r.body.appeared + r.body.disappeared + r.body.changed
                        = Cardinality(TrueChanges(b, t))
         [] r.event = "pop.cashflow.account" ->
              /\ adds /\ r.mono > 1 /\ Consecutive(r.mono)
              /\ r.body.opening = b.pops[r.pop].money /\ Scope(b, r.pop) = Scope(t, r.pop)
         [] r.event = "type.account" ->
              /\ adds /\ r.mono > 1 /\ Consecutive(r.mono)
              /\ r.body.opening = MoneyOf(b, InGroup(b, r.country, r.type))
         [] OTHER -> TRUE

\* A country that has POPs of some type it did not have the day before.
NewTypeIn(i) ==
  \E p \in Alive(truth[i]) :
    /\ InGroup(truth[i - 1], OwnerOf(truth[i], p), None) # {}
    /\ InGroup(truth[i - 1], OwnerOf(truth[i], p), truth[i].pops[p].type) = {}

\* A run without a fault is published: an exporter that refuses everything
\* would be as safe as this one.
HealthyIsPublished ==
  /\ ended = "unloaded" /\ AllConsecutive
  /\ \A i \in DOMAIN truth : Whole(truth[i]) /\ Alive(truth[i]) # {} /\ truth[i].hooked
  /\ \A f \in Families : health[f].dropped = 0
  => /\ filter = {} => ExportPopStockLifecycle(file, None).published
     /\ (/\ \E i \in 2..Len(truth), tag \in Countries :
             InGroup(truth[i - 1], tag, None) # {} /\ (filter = {} \/ tag \in filter)
         /\ \A i \in 2..Len(truth) : ~NewTypeIn(i))
          => ExportPopCashFlow(file, None).published
=============================================================================
