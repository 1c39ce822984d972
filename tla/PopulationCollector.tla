------------------------- MODULE PopulationCollector -------------------------
(***************************************************************************)
(* The daily POP records of the telemetry plugin                           *)
(* (src/plugins/telemetry/src/population_collector.cpp, economic_capture,  *)
(* pop_identity_core): one poll as a function from what the collector      *)
(* remembers and what it reads to what it remembers next and the records   *)
(* it emits.  An emitter returns [c, recs, invalid]: the collector's next  *)
(* state, the set of records and the invalid count of each family.         *)
(*                                                                         *)
(* A POP is [prov, type, money] or None when it is not in the stock, and   *)
(* owner gives the normalized tag of a province or None.  Sums stay far    *)
(* from 64 bits, and the POP tables are never full: max_sample_pops bounds *)
(* the capture as well.                                                    *)
(***************************************************************************)
EXTENDS TraceWriter

CONSTANTS Pops, Provinces, Countries, Types, Components

Families == {"pop.aggregate", "pop.lifecycle", "pop.cashflow", "pop.cashflow.aggregate"}
CashFamilies == {"pop.cashflow", "pop.cashflow.aggregate"}
Invalid(fs, n) == [f \in Families |-> IF f \in fs THEN n ELSE 0]

\* What one date shows: the stock, its owners, what the hook drained, and
\* whether the capture of the stock and the hook's buffer were complete.
Alive(w) == {p \in Pops : w.pops[p] # None}
OwnerOf(w, p) == w.owner[w.pops[p].prov]
Resolved(w) == {p \in Alive(w) : OwnerOf(w, p) # None}

Selected(w, filter) == {p \in Resolved(w) : HasCountryTag(filter, OwnerOf(w, p))}

\* ---------------------------------------------------------------------------
\* pop.aggregate: the stock of each province and type.

EmitPopulationAggregate(c, w, date, filter) ==
  LET group(p) == <<w.pops[p].prov, w.pops[p].type>>
      chosen == Selected(w, filter)
      size(g) == Cardinality({p \in chosen : group(p) = g})
  IN IF ~w.captured THEN [c |-> c, recs |-> {}, invalid |-> Invalid({"pop.aggregate"}, 1)]
     ELSE [c |-> c,
           recs |-> {Record("pop.aggregate", "pop.aggregate", date,
                        [country |-> w.owner[g[1]], province |-> g[1], type |-> g[2],
                         count |-> size(g)]) : g \in {group(p) : p \in chosen}},
           invalid |-> Invalid({"pop.aggregate"}, Cardinality(Alive(w) \ Resolved(w)))]

\* ---------------------------------------------------------------------------
\* pop.lifecycle: the stock compared with the one of the day before.

Scope(w, p) == [prov |-> w.pops[p].prov, type |-> w.pops[p].type, country |-> OwnerOf(w, p)]

DiffPopIdentities(previous, current) ==
  LET kept == DOMAIN previous \cap DOMAIN current
  IN [appeared |-> DOMAIN current \ DOMAIN previous,
      disappeared |-> DOMAIN previous \ DOMAIN current,
      changed |-> {p \in kept : previous[p] # current[p]},
      unchanged |-> {p \in kept : previous[p] = current[p]}]

NoDiff == [appeared |-> {}, disappeared |-> {}, changed |-> {}, unchanged |-> {}]

WarmUpIdentity(c) == [c EXCEPT !.identityDate = None, !.identity = <<>>]

LifecycleDetails(diff, previous, current, date, filter) ==
  LET detail(kind, p, tags) ==
        Record("pop.lifecycle." \o kind, "pop.lifecycle", date, [pop |-> p, tags |-> tags])
  IN {r \in {detail("observed_appeared", p, {current[p].country}) : p \in diff.appeared}
       \cup {detail("observed_disappeared", p, {previous[p].country}) : p \in diff.disappeared}
       \cup {detail("scope_changed", p, {previous[p].country, current[p].country}) :
               p \in diff.changed} : \E tag \in r.tags : HasCountryTag(filter, tag)}

\* Mutant: any earlier stock will do.
LifecycleOpening_AnyDay(c, date) == c.identityDate # None

\* The stock of exactly one day earlier.
LifecycleOpening(c, date) == c.identityDate # None /\ c.identityDate + DayUnits = date

LifecycleRecords(diff, seen, previous, current, date, filter) ==
  {Record("pop.lifecycle.summary", "pop.lifecycle", date,
     [body |-> [opening_seen |-> seen, complete |-> seen,
        opening |-> IF seen THEN Cardinality(DOMAIN previous) ELSE 0,
        closing |-> Cardinality(DOMAIN current),
        appeared |-> Cardinality(diff.appeared),
        disappeared |-> Cardinality(diff.disappeared),
        changed |-> Cardinality(diff.changed),
        unchanged |-> Cardinality(diff.unchanged)]])}
  \cup LifecycleDetails(diff, previous, current, date, filter)

\* The comparison of the stock current with the one remembered.
Compared(c, current, seen, date, filter) ==
  [c |-> [c EXCEPT !.identityDate = date, !.identity = current],
   recs |-> LifecycleRecords(IF seen THEN DiffPopIdentities(c.identity, current) ELSE NoDiff,
                             seen, c.identity, current, date, filter),
   invalid |-> Invalid({}, 0)]

EmitPopLifecycle(c, w, date, filter) ==
  IF ~w.captured \/ Alive(w) # Resolved(w)
  THEN [c |-> WarmUpIdentity(c), recs |-> {}, invalid |-> Invalid({"pop.lifecycle"}, 1)]
  ELSE Compared(c, [p \in Alive(w) |-> Scope(w, p)], LifecycleOpening(c, date), date, filter)

\* ---------------------------------------------------------------------------
\* pop.cashflow and pop.cashflow.aggregate.

MoneyDelta(w, p) == SumOver(Components, LAMBDA x : w.posted[p][x])

\* What the table of single POPs remembers, seen again one day later in the
\* same province, type and country.
PopOpening(c, w, date, p) ==
  /\ c.states[p] # None /\ c.states[p].date + DayUnits = date
  /\ c.states[p].scope = Scope(w, p)

\* One account: opening and residual are 0 until there is an opening.
Account(seen, opening, closing, delta) ==
  [seen |-> seen, opening |-> IF seen THEN opening ELSE 0, closing |-> closing, delta |-> delta,
   residual |-> IF seen THEN closing - opening - delta ELSE 0]

\* summary, account and component records of one account.
AccountRecords(level, family, date, id, x, posted, counts, complete) ==
  LET rec(part, extra) ==
        Record(level \o "." \o part, family, date, id @@ [level |-> level, part |-> part] @@ extra)
  IN {rec("summary", [body |-> [seen |-> x.seen,
                        reconciled |-> x.seen /\ complete /\ x.residual = 0] @@ counts])}
     \cup {rec("account", [body |-> x]) : seen \in {TRUE} \cap {x.seen}}
     \cup {rec("component", [component |-> k, body |-> [posted |-> posted[k], delta |-> posted[k]]]) :
             k \in {j \in Components : posted[j] # 0}}

PopRecords(c, w, date, p) ==
  LET seen == PopOpening(c, w, date, p)
  IN AccountRecords("pop.cashflow", "pop.cashflow", date,
       [country |-> OwnerOf(w, p), type |-> w.pops[p].type, pop |-> p],
       Account(seen, IF seen THEN c.states[p].money ELSE 0, w.pops[p].money, MoneyDelta(w, p)),
       w.posted[p], [captured |-> w.hooked], w.hooked)

\* Sums by country and type, with yesterday's groups added as empty ones.
TypeGroups(c, w, chosen, previousSeen) ==
  {<<OwnerOf(w, p), w.pops[p].type>> : p \in chosen}
    \cup (IF previousSeen THEN DOMAIN c.aggregates ELSE {})

TypeAggregate(c, w, chosen, previousSeen, g) ==
  LET mine == {p \in chosen : <<OwnerOf(w, p), w.pops[p].type>> = g}
      before == IF previousSeen /\ g \in DOMAIN c.aggregates
                THEN c.aggregates[g] ELSE [count |-> 0, closing |-> 0]
      closing == SumOver(mine, LAMBDA p : w.pops[p].money)
      delta == SumOver(mine, LAMBDA p : MoneyDelta(w, p))
      known == before.count # 0
  IN [count |-> Cardinality(mine), openCount |-> before.count, opening |-> before.closing,
      closing |-> closing, delta |-> delta,
      residual |-> IF known THEN closing - before.closing - delta ELSE 0,
      posted |-> [k \in Components |-> SumOver(mine, LAMBDA p : w.posted[p][k])]]

\* A country's account is the sum of its types, the new types included.
CountryAggregate(aggs, tag) ==
  LET gs == {g \in DOMAIN aggs : g[1] = tag}
  IN [f \in {"count", "openCount", "opening", "closing", "delta", "residual"} |->
         SumOver(gs, LAMBDA g : aggs[g][f])]
     @@ [posted |-> [k \in Components |-> SumOver(gs, LAMBDA g : aggs[g].posted[k])]]

AggregateRecords(level, id, date, a, previousSeen, hooked) ==
  LET seen == previousSeen /\ a.openCount # 0
      x == [seen |-> seen] @@ [f \in {"opening", "closing", "delta", "residual"} |-> a[f]]
  IN AccountRecords(level, "pop.cashflow.aggregate", date, id, x, a.posted,
                    [openPops |-> a.openCount, closePops |-> a.count], hooked)

\* The state of every resolved POP is kept, whatever the rules select.
Summed(c, w, date, chosen, previousSeen, aggs) ==
  [c |-> [c EXCEPT
     !.states = [p \in Pops |-> IF p \notin Resolved(w) THEN @[p]
                   ELSE [date |-> date, scope |-> Scope(w, p), money |-> w.pops[p].money]],
     !.aggregateDate = date,
     !.aggregates = [g \in {h \in DOMAIN aggs : aggs[h].count # 0} |->
                       [count |-> aggs[g].count, closing |-> aggs[g].closing]]],
   recs |-> UNION {PopRecords(c, w, date, p) : p \in chosen}
     \cup UNION {AggregateRecords("type", [country |-> g[1], type |-> g[2]], date,
                   aggs[g], previousSeen, w.hooked) : g \in DOMAIN aggs}
     \cup UNION {AggregateRecords("country", [country |-> tag, type |-> None], date,
                   CountryAggregate(aggs, tag), previousSeen, w.hooked) :
                     tag \in {g[1] : g \in DOMAIN aggs}},
   invalid |-> Invalid(CashFamilies, Cardinality(Alive(w) \ Resolved(w))
                                       + (IF w.hooked THEN 0 ELSE 1))]

EmitPopCashFlows(c, w, date, filter) ==
  LET From(chosen, previousSeen) ==
        Summed(c, w, date, chosen, previousSeen,
               [g \in TypeGroups(c, w, chosen, previousSeen) |->
                  TypeAggregate(c, w, chosen, previousSeen, g)])
  IN IF ~w.captured THEN [c |-> c, recs |-> {}, invalid |-> Invalid(CashFamilies, 1)]
     ELSE From(Selected(w, filter), c.aggregateDate # None /\ c.aggregateDate + DayUnits = date)

\* ---------------------------------------------------------------------------
\* The collector.

NoCollector == [identityDate |-> None, identity |-> <<>>, states |-> [p \in Pops |-> None],
                aggregateDate |-> None, aggregates |-> <<>>]

\* Reset: a date regression forgets the openings of the cash flows.
ResetCollector(c) ==
  [c EXCEPT !.states = [p \in Pops |-> None], !.aggregateDate = None, !.aggregates = <<>>]

\* Collect: the cash flows first, then the other families, one after the other.
CollectPopulation(c, w, date, filter) ==
  LET Add(out, e) == [c |-> e.c, recs |-> Append(out.recs, e.recs),
                      invalid |-> [f \in Families |-> out.invalid[f] + e.invalid[f]]]
      Cash(out) == Add(out, EmitPopCashFlows(out.c, w, date, filter))
      Stock(out) == Add(out, EmitPopulationAggregate(out.c, w, date, filter))
      Life(out) == Add(out, EmitPopLifecycle(out.c, w, date, filter))
  IN Life(Stock(Cash([c |-> c, recs |-> <<>>, invalid |-> Invalid({}, 0)])))
=============================================================================
