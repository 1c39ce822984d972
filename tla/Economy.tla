------------------------------ MODULE Economy ------------------------------
(***************************************************************************)
(* A campaign's producers, the hooks and polls that observe them day by    *)
(* day, the trace this makes, and the three economic exports of            *)
(* smedley_trace at its end.  Every day the game settles the factories,    *)
(* sells what was made and sets the prices; the hooks record a settlement  *)
(* only while they are installed, which the first poll does and a lost     *)
(* session undoes.                                                         *)
(*                                                                         *)
(* EconomyCollector makes the records, TraceEconomy folds the file; truth  *)
(* is a history variable: what each day really was, polled or not.         *)
(***************************************************************************)
EXTENDS TraceEconomy, EconomyCollector

CONSTANTS
  MaxDays,     \* bound: days of a run
  MaxEvents,   \* bound: changes and faults of a run
  Plans,       \* what each day may bring
  Queries,     \* the countries an export is asked for, None for all
  StartWorld,  \* the world a run starts in
  Markets,     \* the prices of even and of odd days
  Filters      \* the country filters a run may be configured with

VARIABLES world, hooked, buffer, date, collector, health, file, seq, truth, filter, events, ended

vars == <<world, hooked, buffer, date, collector, health, file, seq, truth, filter, events, ended>>

EmptyBuffer == [flows |-> <<>>, sales |-> <<>>]
Start == CaptureLines(Families, filter)

Init ==
  /\ filter \in Filters
  /\ world = StartWorld /\ hooked = FALSE /\ buffer = EmptyBuffer /\ date = 0
  /\ collector = NoCollector
  /\ health = [f \in Families |-> [polls |-> 0, invalid |-> 0, dropped |-> 0]]
  /\ file = Numbered(Start, 0, 0) /\ seq = Len(Start)
  /\ truth = <<>> /\ events = 0 /\ ended = "no"

\* ---------------------------------------------------------------------------
\* A day of the game.  A plan says whether producers settle, buy and sell.

Open(f) == world.factory[f] # None

Settle(x, plan) ==
  LET used == IF x.stock > 0 THEN 1 ELSE 0
      closing == IF plan.sells THEN 0 ELSE x.inventory + used
  IN IF ~plan.works THEN x
     ELSE [x EXCEPT !.stock = @ - used + (IF plan.buys THEN 2 ELSE 0), !.output = used,
             !.inventory = closing, !.income = x.inventory + used - closing]

\* RGOs and artisans always produce; their unsold output is the next opening.
Sell(x, plan) ==
  LET made == IF x.state = "inactive" THEN 0 ELSE 1
      closing == IF plan.sells THEN 0 ELSE x.leftover + made
  IN [x EXCEPT !.output = made, !.leftover = closing, !.income = x.leftover + made - closing]

FactoryDayOf(f, plan) ==
  LET x == world.factory[f]
  IN [old |-> x, new |-> Settle(x, plan)]

\* FactoryConsumptionHook and FactorySalesHook: what one settlement records.
FlowsOf(f, plan) ==
  LET d == FactoryDayOf(f, plan)
      post == d.new.stock - (IF plan.buys THEN 2 ELSE 0)
      rec(pool, amount) == [factory |-> f, pool |-> pool, amount |-> amount]
  IN IF ~plan.works THEN <<>>
     ELSE <<rec(0, post)>> \o (IF plan.buys THEN <<rec(1, post), rec(2, 1), rec(3, 1)>> ELSE <<>>)
SalesOf(f, plan) ==
  LET d == FactoryDayOf(f, plan)
  IN IF ~plan.works THEN <<>>
     ELSE <<[factory |-> f, opening |-> d.old.inventory, produced |-> d.new.output,
             closing |-> d.new.inventory, proceeds |-> d.new.income]>>

Concat(Op(_), S) == FoldSet(LAMBDA x, s : s \o Op(x), <<>>, S)
OpenFactories == {f \in Factories : Open(f)}

Tomorrow(plan) ==
  [world EXCEPT
     !.price = Markets[(date \div DayUnits) % 2],
     !.factory = [f \in Factories |-> IF Open(f) THEN Settle(@[f], plan) ELSE None],
     !.rgo = [p \in Provinces |-> Sell(@[p], plan)],
     !.artisan = [a \in Artisans |-> Sell(@[a], plan)]]

Captured(plan) ==
  IF ~hooked THEN buffer
  ELSE [flows |-> buffer.flows \o Concat(LAMBDA f : FlowsOf(f, plan), OpenFactories),
        sales |-> buffer.sales \o Concat(LAMBDA f : SalesOf(f, plan), OpenFactories)]

\* What really happened, whoever watched.
Truth(plan, polled, w) ==
  [date |-> date, polled |-> polled, plan |-> plan,
   consumed |-> [f \in Factories |-> IF Open(f) THEN world.factory[f].stock - (Settle(world.factory[f], plan).stock
                    - (IF plan.works /\ plan.buys THEN 2 ELSE 0)) ELSE 0],
   sale |-> [f \in Factories |-> IF Open(f) /\ plan.works
               THEN LET d == FactoryDayOf(f, plan)
                    IN Sale(d.old.inventory, d.new.output, d.new.inventory) ELSE None],
   opening |-> [x \in Provinces \cup Artisans |->
                  IF x \in Provinces THEN world.rgo[x].leftover ELSE world.artisan[x].leftover],
   w |-> w]

\* ---------------------------------------------------------------------------
\* The poll of a day.

\* reopened: the session was lost and opened again, with what the hooks held.
Sound == [keeps |-> 8, captured |-> TRUE, unread |-> {}, lost |-> None, reopened |-> FALSE]
Faults ==
  {[Sound EXCEPT !.keeps = k] : k \in {1, 3}}
  \cup {[Sound EXCEPT !.captured = FALSE], [Sound EXCEPT !.reopened = TRUE]}
  \cup {[Sound EXCEPT !.unread = {x}] : x \in Provinces \cup Artisans \cup Countries}
  \cup {[Sound EXCEPT !.lost = f] : f \in Families \ {"country.economy"}}

\* A full ring keeps the first records and counts the others.
Read(w, drained, fault) ==
  LET kept == SubSeq(drained.flows, 1, IF fault.keeps < Len(drained.flows)
                                       THEN fault.keeps ELSE Len(drained.flows))
  IN w @@ [flows |-> kept, sales |-> drained.sales,
           dropped |-> Len(drained.flows) - Len(kept), captured |-> fault.captured,
           readable |-> [x \in Provinces \cup Countries |-> x \notin fault.unread]]

Blinded(w, fault) ==
  [w EXCEPT !.artisan = [a \in Artisans |-> IF a \in fault.unread
                                            THEN [@[a] EXCEPT !.state = "unreadable"] ELSE @[a]]]

LastPolled ==
  LET S == {i \in DOMAIN truth : truth[i].polled}
  IN IF S = {} THEN None ELSE truth[CHOOSE i \in S : \A j \in S : j <= i].date

Happens == ended = "no" /\ events < MaxEvents /\ Len(truth) < MaxDays /\ events' = events + 1

Emit(lines, lost, invalid) ==
  LET dropped(f) == IF f = lost THEN Cardinality(LostSeqs(lines, lost)) ELSE 0
  IN /\ file' = file \o Emitted(lines, lost) /\ seq' = seq + Len(lines)
     /\ health' = [f \in Families |->
          [polls |-> health[f].polls + 1, invalid |-> health[f].invalid + invalid[f],
           dropped |-> health[f].dropped + dropped(f)]]

Collect(read, lost) ==
  \E poll \in {CollectEconomy(collector, read, date, filter, LastPolled # None /\ date < LastPolled)} :
    /\ collector' = poll.c
    /\ Emit(Numbered(RecordsOf(poll.recs), seq, Len(truth) + 1), lost, poll.invalid)

Observe(plan, drained, fault) ==
  /\ \E w \in {Tomorrow(plan)} :
       /\ Collect(Read(Blinded(w, fault), drained, fault), fault.lost)
       /\ world' = w /\ truth' = Append(truth, Truth(plan, TRUE, w))
  /\ hooked' = TRUE /\ buffer' = EmptyBuffer /\ date' = date + DayUnits
  /\ UNCHANGED <<filter, ended>>

\* EnsureOpen finds its session, or opens one and installs the hooks: what was
\* captured before is gone.
Day ==
  /\ ended = "no" /\ Len(truth) < MaxDays
  /\ \E plan \in Plans[Len(truth) + 1], fault \in Faults \cup {Sound} :
       /\ IF fault = Sound THEN UNCHANGED events ELSE Happens
       /\ fault.reopened => hooked
       /\ Observe(plan, IF fault.reopened THEN EmptyBuffer ELSE Captured(plan), fault)

\* EnsureOpen fails: the hooks are gone and the day is not polled.
LoseSession ==
  /\ Happens /\ truth # <<>>
  /\ \E plan \in Plans[Len(truth) + 1] : LET w == Tomorrow(plan)
       IN world' = w /\ truth' = Append(truth, Truth(plan, FALSE, w))
  /\ hooked' = FALSE /\ buffer' = EmptyBuffer /\ date' = date + DayUnits
  /\ UNCHANGED <<collector, health, file, seq, filter, ended>>

\* ---------------------------------------------------------------------------
\* Changes between two days.

Rest == <<hooked, buffer, date, collector, health, file, seq, truth, filter, ended>>

Cede(p) ==
  /\ Happens
  /\ \E tag \in Countries \cup {None} : tag # world.owner[p] /\ world' = [world EXCEPT !.owner[p] = tag]
  /\ UNCHANGED Rest

\* A factory is demolished, rebuilt at the same address, or built.
Rebuild(f) ==
  /\ Happens
  /\ \/ Open(f) /\ world' = [world EXCEPT !.factory[f] = None]
     \/ Open(f) /\ world' = [world EXCEPT !.factory[f].id = 2, !.factory[f].stock = 1]
     \/ ~Open(f) /\ \E p \in Provinces :
          world' = [world EXCEPT !.factory[f] =
            [prov |-> p, id |-> 1, stock |-> 1, inventory |-> 0, good |-> Input, output |-> 0,
             income |-> 0]]
  /\ UNCHANGED Rest

\* An artisan stops, or turns to another good.
Retrain(a) ==
  /\ Happens
  /\ \/ world.artisan[a].state = "working" /\ world' = [world EXCEPT !.artisan[a].state = "inactive"]
     \/ world.artisan[a].good # Input /\ world' = [world EXCEPT !.artisan[a].good = Input, !.artisan[a].leftover = 0]
  /\ UNCHANGED Rest

\* A save of an earlier day is loaded.
LoadEarlier ==
  /\ Happens /\ truth # <<>> /\ date' = date - 2 * DayUnits
  /\ UNCHANGED <<world, hooked, buffer, collector, health, file, seq, truth, filter, ended>>

\* ---------------------------------------------------------------------------
\* The end of the run: Flush emits the open period, OnUnload the health.

LastLines ==
  RecordsOf(<<EmitCountryEconomyPeriod(collector.acc, filter)>>) \o TerminalLines(Families, health)

Unload ==
  /\ ended = "no" /\ truth # <<>> /\ ended' = "unloaded"
  /\ file' = file \o Numbered(LastLines, seq, Len(truth) + 1) /\ seq' = seq + Len(LastLines)
  /\ UNCHANGED <<world, hooked, buffer, date, collector, health, truth, filter, events>>

Crash ==
  /\ Happens /\ truth # <<>> /\ ended' = "crashed"
  /\ file' = file \o SubSeq(Numbered(LastLines, seq, Len(truth) + 1), 1, Len(LastLines) - 1)
  /\ UNCHANGED <<world, hooked, buffer, date, collector, health, seq, truth, filter>>

Stop == ended # "no" /\ UNCHANGED vars

Next ==
  \/ Day \/ LoseSession \/ LoadEarlier \/ Unload \/ Crash \/ Stop
  \/ \E p \in Provinces : Cede(p)
  \/ \E f \in Factories : Rebuild(f)
  \/ \E a \in Artisans : Retrain(a)

Spec == Init /\ [][Next]_vars

\* ---------------------------------------------------------------------------
\* What was really there.

Consecutive(i) == truth[i - 1].date + DayUnits = truth[i].date
Dated(d) == {i \in DOMAIN truth : truth[i].date = d}

TrueInputs(t, tag) == SumOver(FactoriesOf(t.w, tag), LAMBDA f : t.consumed[f])
TrueGross(t, tag, p) == SumOver(FactoriesOf(t.w, tag), LAMBDA f :
  IF t.plan.works THEN t.w.factory[f].output * p[t.w.factory[f].good] ELSE 0)
TrueValue(t, tag, p) ==
  TrueGross(t, tag, p) - TrueInputs(t, tag) * p[Input]
    + SumOver(RgosOf(t.w, tag), LAMBDA r : t.w.rgo[r].output * p[t.w.rgo[r].good])
    + SumOver({a \in ArtisansOf(t.w, tag) : t.w.artisan[a].state = "working"},
              LAMBDA a : t.w.artisan[a].output * p[t.w.artisan[a].good]
                           - t.w.artisan[a].need * t.w.artisan[a].producing * p[Input])

\* An RGO that could not be read leaves no record when no filter asks for it.
RgosRecorded(d) ==
  {r.who[2] : r \in {file[n] : n \in {m \in DOMAIN file :
      file[m].event = "province.rgo.identity" /\ file[m].date = d}}}
AllRgosRecorded(t) ==
  \A p \in Provinces : t.w.owner[p] # None /\ HasCountryTag(filter, t.w.owner[p])
                         => p \in RgosRecorded(t.date)

\* ---------------------------------------------------------------------------
\* Properties.

\* A published value added is what the factories of the country made and used
\* that day, and the file it came from missed no day: no overflow, lost record,
\* lost session, rebuilt factory or cut file gets through the exporter.
ValueAddedIsTrue ==
  ended # "no" => \A tag \in Queries :
    \A r \in ExportFactoryValueAdded(file, tag).rows : \A i \in Dated(r.date) :
      /\ i > 1 /\ Consecutive(i) /\ truth[i].polled /\ r.opening = truth[i - 1].date
      /\ r.factories = Cardinality(FactoriesOf(truth[i].w, r.country))
      /\ r.gross = TrueGross(truth[i], r.country, truth[i].w.price)
      /\ r.inputs = TrueInputs(truth[i], r.country) * truth[i].w.price[Input]

\* A published sale is the sale that happened: the factory's one settlement, or
\* the inventory an RGO closed the day before with the same good and owner.
SalesAreTrue ==
  ended # "no" =>
    LET holds(r, t) ==
          CASE r.family = "state.factory" ->
                 \E f \in FactoriesOf(t.w, r.who[1]) : r.quantity = t.sale[f]
            [] r.family = "province.rgo" ->
                 LET rgo == t.w.rgo[r.who[2]]
                 IN r.quantity = Sale(t.opening[r.who[2]], rgo.output, rgo.leftover)
            [] OTHER ->
                 LET artisan == t.w.artisan[r.who[2]]
                 IN /\ r.proceeds = artisan.income
                    /\ r.quantity = Sale(t.opening[r.who[2]], artisan.output, artisan.leftover)
        allHold(x) == x.published => \A r \in x.rows : \A i \in Dated(r.date) : holds(r, truth[i])
    IN allHold(ExportProducerSales(file, None))

\* A published GDP is the value every producer of the country added that day at
\* the day's and at the base prices, when its RGOs could be read.
GdpIsTrue ==
  ended # "no" => \A tag \in Queries :
    \A r \in ExportCountryGdp(file, tag, None).rows : \A i \in Dated(r.date) :
      AllRgosRecorded(truth[i]) =>
        /\ i > 2 /\ Consecutive(i) /\ truth[i].polled
        /\ r.nominal = TrueValue(truth[i], r.country, truth[i].w.price)
        /\ r.real = TrueValue(truth[i], r.country, truth[1].w.price)

Intervals == {n \in DOMAIN file : file[n].event = "country.economy.interval" /\ file[n].value.complete}
LatestOf(d, n) ==
  LET S == {i \in Dated(d) : i < n} IN CHOOSE i \in S : \A j \in S : j <= i
DaysOf(r) == {r.value.start + k * DayUnits : k \in 0..(PeriodDays - 1)}

TotalsOfInterval(r) ==
  /\ r.value.end = r.value.start + (PeriodDays - 1) * DayUnits
  /\ \A d \in DaysOf(r) : Dated(d) # {}
  /\ r.value.nominal = SumOver(DaysOf(r), LAMBDA d :
       LET t == truth[LatestOf(d, r.mono)] IN TrueValue(t, r.who, t.w.price))

\* Every day before n was polled with the hooks the day before installed.
Unbroken(n) == \A i \in DOMAIN truth : i < n => truth[i].polled
Reopened == \E n \in DOMAIN file : file[n].event = "state.factory.sales.summary"
              /\ file[n].mono > 1 /\ ~file[n].value.seen
              /\ truth[file[n].mono].plan.works

\* No economic export publishes a value, a quantity or a GDP that is not true of the
\* days it is for.
ExportsAreTrue == ValueAddedIsTrue /\ SalesAreTrue /\ GdpIsTrue

\* A complete period of the in-game account counts each of its days once and
\* adds up to what the country's producers really made, as long as no session
\* was lost.
IntervalIsTrue ==
  \A n \in Intervals :
    Unbroken(file[n].mono) /\ ~Reopened => TotalsOfInterval(file[n])

\* A run without a fault is published by all three exports.
HealthyIsPublished ==
  ended = "unloaded" /\ events = 0 /\ Len(truth) >= 4 /\ (\A i \in DOMAIN truth : truth[i].plan.works)
  => /\ ExportProducerSales(file, None).published
     /\ filter = {} => ExportFactoryValueAdded(file, None).published
     /\ \A tag \in filter \cup {None} : ExportCountryGdp(file, tag, None).published
=============================================================================
