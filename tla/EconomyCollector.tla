-------------------------- MODULE EconomyCollector --------------------------
(***************************************************************************)
(* The daily economy of the telemetry plugin                               *)
(* (src/plugins/telemetry/src/factory_economy_collector.cpp,               *)
(* country_economy_core, province_collector, producer_sales_core and the   *)
(* artisans of population_collector): one poll as a function from what the *)
(* collectors remember and what they read to what they remember next, the  *)
(* records and the invalid counts.                                         *)
(*                                                                         *)
(* w is what a poll reads: the prices, the producers, the owners of the    *)
(* provinces and what the hooks drained.  A factory has one input good.    *)
(* The fixed arrays are never full and sums stay far from 64 bits.         *)
(***************************************************************************)
EXTENDS TraceWriter

CONSTANTS Factories, Provinces, Artisans, Countries,
  Input,      \* the good factories and artisans consume
  PeriodDays  \* fixed_days of the country.economy rule

Retention == 30 * DayUnits

Owner(w, p) == w.owner[p]
ProducerId(tag, id) == <<tag, id>>

\* ---------------------------------------------------------------------------
\* Settlements of factories: pool 0 is the stock after consumption, 1 the stock
\* before the purchase, 2 and 3 the two deliveries.

Drained(w, f) == {i \in DOMAIN w.flows : w.flows[i].factory = f}
InPool(w, f, n) == {i \in Drained(w, f) : w.flows[i].pool = n}

FactoryAggregate(w, f) ==
  LET amount(n) == SumOver(InPool(w, f, n), LAMBDA i : w.flows[i].amount)
      seen(n) == InPool(w, f, n) # {}
  IN [post |-> seen(0), pre |-> seen(1), primary |-> seen(2), secondary |-> seen(3),
      count |-> Cardinality(InPool(w, f, 3)),
      amounts |-> <<amount(0), amount(1), amount(2), amount(3)>>]

\* The closing stock of an earlier day, unless it is too old or from the future.
Retained(c, date, f) ==
  LET old == c.previous[f]
  IN IF old = None THEN None
     ELSE IF date < old.date \/ date - old.date > Retention THEN None ELSE old

\* closing_valid: one stock without a purchase, or the four pools agreeing.
FlowCloses(a) ==
  LET purchased == a.pre \/ a.primary \/ a.secondary
  IN a.post /\ (purchased => /\ a.pre /\ a.primary /\ a.secondary
                             /\ a.amounts[1] = a.amounts[2])

ClosingStock(a) ==
  IF a.pre THEN a.amounts[2] + a.amounts[3] + a.amounts[4] ELSE a.amounts[1]

FlowSince(old, a) ==
  LET seen == FlowCloses(a) /\ old # None /\ old.closing >= a.amounts[1]
  IN [closes |-> FlowCloses(a), closing |-> ClosingStock(a), seen |-> seen,
      consumed |-> IF seen THEN old.closing - a.amounts[1] ELSE 0,
      id |-> IF old = None THEN None ELSE old.id]

DailyFlow(c, w, date, f) ==
  IF Drained(w, f) = {} THEN None ELSE FlowSince(Retained(c, date, f), FactoryAggregate(w, f))

\* A flow that closes becomes the next day's opening.
Retain(c, date, daily) ==
  [c EXCEPT !.daily = daily, !.observed = @ + 1,
     !.previous = [f \in Factories |->
        IF daily[f] # None /\ daily[f].closes
        THEN [date |-> date, closing |-> daily[f].closing, id |-> daily[f].id]
        ELSE Retained(c, date, f)]]

UpdateFactoryDailyFlows(c, w, date) ==
  Retain(c, date, [f \in Factories |-> DailyFlow(c, w, date, f)])

\* ---------------------------------------------------------------------------
\* country.economy: one day of a country.

\* A factory rebuilt at the same address is another factory: its flow no longer
\* counts, and the retained closing is from now on the new factory's.
IdentifyFactories(c, w, chosen) ==
  LET met == {f \in chosen : c.daily[f] # None}
      id(f) == w.factory[f].id
  IN [c EXCEPT
        !.daily = [f \in Factories |-> IF f \notin met THEN @[f]
                     ELSE [@[f] EXCEPT !.id = id(f), !.seen = @ /\ c.daily[f].id \in {None, id(f)}]],
        !.previous = [f \in Factories |-> IF f \notin met \/ @[f] = None THEN @[f]
                        ELSE [@[f] EXCEPT !.id = id(f)]]]

Nothing == [complete |-> TRUE, unsettled |-> 0, nominal |-> 0, real |-> 0]
Incomplete == [Nothing EXCEPT !.complete = FALSE]
Worth(amount, price, base) == [Nothing EXCEPT !.nominal = amount * price, !.real = amount * base]

FactoryDay(c, w, base, f) ==
  LET x == w.factory[f]
      flow == c.daily[f]
      warmingUp == x.output > 0 /\ c.observed < 2
      value(p) == x.output * p[x.good] - flow.consumed * p[Input]
  IN IF flow = None
     THEN [Nothing EXCEPT !.complete = ~warmingUp,
             !.unsettled = IF x.output > 0 /\ c.observed >= 2 THEN 1 ELSE 0]
     ELSE IF ~flow.seen THEN Incomplete
     ELSE [complete |-> ~warmingUp, unsettled |-> 0, nominal |-> value(w.price), real |-> value(base)]

RgoDay(w, base, p) ==
  IF ~w.readable[p] THEN Incomplete
  ELSE Worth(w.rgo[p].output, w.price[w.rgo[p].good], base[w.rgo[p].good])

ArtisanDay(w, base, a) ==
  LET x == w.artisan[a]
      value(p) == x.output * p[x.good] - x.need * x.producing * p[Input]
  IN CASE x.state = "inactive"   -> Nothing
       [] x.state = "unreadable" -> Incomplete
       [] OTHER -> [Nothing EXCEPT !.nominal = value(w.price), !.real = value(base)]

FactoriesOf(w, tag) == {f \in Factories : w.factory[f] # None /\ Owner(w, w.factory[f].prov) = tag}
\* A country's factories are read together, or the day goes on without them.
ReadFactoriesOf(w, tag) == IF w.readable[tag] THEN FactoriesOf(w, tag) ELSE {}
RgosOf(w, tag) == {p \in Provinces : Owner(w, p) = tag}
ArtisansOf(w, tag) == {a \in Artisans : Owner(w, w.artisan[a].prov) = tag}

CountryDay(c, w, base, tag) ==
  LET parts == {<<1, f>> : f \in ReadFactoriesOf(w, tag)} \cup {<<2, p>> : p \in RgosOf(w, tag)}
                 \cup {<<3, a>> : a \in ArtisansOf(w, tag)}
      of(x) == CASE x[1] = 1 -> FactoryDay(c, w, base, x[2]) [] x[1] = 2 -> RgoDay(w, base, x[2])
                 [] OTHER -> ArtisanDay(w, base, x[2])
  IN [complete |-> w.dropped = 0 /\ w.readable[tag] /\ \A x \in parts : of(x).complete,
      population |-> SumOver(RgosOf(w, tag), LAMBDA p : w.size[p]),
      unsettled |-> SumOver(parts, LAMBDA x : of(x).unsettled),
      nominal |-> SumOver(parts, LAMBDA x : of(x).nominal),
      real |-> SumOver(parts, LAMBDA x : of(x).real)]

\* ---------------------------------------------------------------------------
\* The period accumulator.

Days(date) == date \div DayUnits
PeriodKey(date, anchor) == (Days(date) - Days(anchor)) \div PeriodDays

StartPeriod(acc, date) ==
  LET anchor == IF acc = None THEN date ELSE IF date < acc.last THEN date ELSE acc.anchor
  IN [anchor |-> anchor, start |-> date, end |-> date, last |-> date, observed |-> 0,
      key |-> PeriodKey(date, anchor), periods |-> <<>>]

ObserveDate(acc, date) ==
  CASE acc = None      -> "first"
    [] date < acc.last -> "regression"
    [] date = acc.last \/ PeriodKey(date, acc.anchor) = acc.key -> "same"
    [] OTHER           -> "new"

\* The observed days of a period are counted once, by its first country.
AddDays(acc, date, days) ==
  LET old(tag) == IF tag \in DOMAIN acc.periods THEN acc.periods[tag]
                  ELSE [nominal |-> 0, real |-> 0, population |-> 0, unsettled |-> 0,
                        days |-> 0, invalid |-> 0]
      new(tag) == [nominal |-> old(tag).nominal + days[tag].nominal,
                   real |-> old(tag).real + days[tag].real,
                   population |-> old(tag).population + days[tag].population,
                   unsettled |-> old(tag).unsettled + days[tag].unsettled,
                   days |-> old(tag).days + 1,
                   invalid |-> old(tag).invalid + (IF days[tag].complete THEN 0 ELSE 1)]
  IN IF DOMAIN days = {} THEN acc
     ELSE [acc EXCEPT !.last = date, !.end = date,
             !.observed = IF date # acc.last THEN @ + 1 ELSE IF @ = 0 THEN 1 ELSE @,
             !.periods = [tag \in DOMAIN days |-> new(tag)] @@ @]

\* Mutant: a period is complete however many of its days were polled.
PeriodComplete_AnyDays(acc, p) == p.days = acc.observed /\ p.invalid = 0

PeriodComplete(acc, p) == acc.observed = PeriodDays /\ p.days = acc.observed /\ p.invalid = 0

EmitCountryEconomyPeriod(acc, filter) ==
  IF acc = None THEN {}
  ELSE {Record("country.economy.interval", "country.economy", acc.end,
          [who |-> tag, good |-> None, part |-> None,
           value |-> [start |-> acc.start, end |-> acc.end,
                      complete |-> PeriodComplete(acc, acc.periods[tag])] @@ acc.periods[tag]]) :
          tag \in {t \in DOMAIN acc.periods : HasCountryTag(filter, t) /\ acc.periods[t].days # 0}}

CollectCountryEconomyDay(c, w, date, filter) ==
  LET base == IF c.base = None THEN w.price ELSE c.base
      tags == {t \in Countries : HasCountryTag(filter, t)}
      known == IdentifyFactories(c, w, UNION {ReadFactoriesOf(w, t) : t \in tags})
  IN [c |-> [known EXCEPT !.base = base,
               !.acc = IF w.captured
                       THEN AddDays(@, date, [t \in tags |-> CountryDay(known, w, base, t)]) ELSE @],
      invalid |-> IF w.captured THEN 0 ELSE 1]

ProcessCountryEconomy(c, w, date, filter) ==
  LET seen == ObserveDate(c.acc, date)
      b == CASE seen = "regression" -> [c EXCEPT !.acc = StartPeriod(None, date), !.base = None,
                                                 !.observed = 1]
             [] seen \in {"first", "new"} -> [c EXCEPT !.acc = StartPeriod(@, date)]
             [] OTHER -> c
      day == CollectCountryEconomyDay(b, w, date, filter)
  IN day @@ [recs |-> IF seen = "new" THEN EmitCountryEconomyPeriod(c.acc, filter) ELSE {}]

\* ---------------------------------------------------------------------------
\* Records of the producers.

Stated(event, family, date, who, good, value) ==
  Record(event, family, date, [who |-> who, good |-> good, part |-> None, value |-> value])

\* The three parts of a sale; details only when it is complete.
SalesRecords(family, date, who, summary, quantity, proceeds) ==
  LET rec(part, value) == Record(family \o ".sales." \o part, family, date,
                            [who |-> who, good |-> None, part |-> part, value |-> value])
  IN {rec("summary", summary)}
     \cup (IF summary.complete THEN {rec("quantity", quantity), rec("revenue", proceeds)} ELSE {})

ReconcileProducerSale(opening, produced, closing) == closing <= opening + produced
Sale(opening, produced, closing) ==
  [opening |-> opening, produced |-> produced, closing |-> closing,
   sold |-> opening + produced - closing]

\* The one settlement of the day, and it agrees with what the factory shows.
FactorySalesRecords(w, date, who, f) ==
  LET mine == {i \in DOMAIN w.sales : w.sales[i].factory = f}
      s == w.sales[CHOOSE i \in mine : TRUE]
      complete == /\ Cardinality(mine) = 1
                  /\ ReconcileProducerSale(s.opening, s.produced, s.closing)
                  /\ s.produced = w.factory[f].output /\ s.proceeds = w.factory[f].income
  IN [recs |-> SalesRecords("state.factory", date, who,
                 [seen |-> mine # {}, count |-> Cardinality(mine), complete |-> complete],
                 IF complete THEN Sale(s.opening, s.produced, s.closing) ELSE None,
                 IF complete THEN s.proceeds ELSE None),
      invalid |-> IF mine # {} /\ ~complete THEN 1 ELSE 0]

FactoryDailyConsumption(c, date, who, f) ==
  LET flow == c.daily[f]
      seen == flow # None /\ flow.seen
  IN {Stated("state.factory.input.consumption", "state.factory", date, who, Input,
             [factory |-> f, amount |-> flow.consumed]) : x \in {TRUE} \cap {seen}}

FlowRecords(a, date, who) ==
  {Stated("state.factory.input.flow.summary", "state.factory", date, who, None, None)
     @@ [post |-> a.post, pre |-> a.pre, primary |-> a.primary, secondary |-> a.secondary,
         count |-> a.count]}
  \cup (IF a.amounts = <<0, 0, 0, 0>> THEN {}
        ELSE {Stated("state.factory.input.flow", "state.factory", date, who, Input, a.amounts)})

CollectFactories(c, w, date, filter) ==
  LET chosen == {f \in Factories : /\ w.factory[f] # None /\ Owner(w, w.factory[f].prov) # None
                                   /\ HasCountryTag(filter, Owner(w, w.factory[f].prov))}
      who(f) == ProducerId(Owner(w, w.factory[f].prov), w.factory[f].id)
      sales(f) == FactorySalesRecords(w, date, who(f), f)
  IN [c |-> c,
      recs |-> UNION {sales(f).recs \cup FlowRecords(FactoryAggregate(w, f), date, who(f))
                 \cup FactoryDailyConsumption(c, date, who(f), f)
                 \cup {Stated("state.factory.production", "state.factory", date, who(f), None,
                         [output |-> w.factory[f].output, good |-> w.factory[f].good])} : f \in chosen},
      invalid |-> SumOver(chosen, LAMBDA f : sales(f).invalid)]

\* RGOs and artisans prove their sale by the inventory of the day before.
\* Mutant: yesterday's inventory may have been of another good or owner.
InventoryBoundary_AnyGood(old, date, good, prov, tag) ==
  old # None /\ old.date + DayUnits = date

InventoryBoundary(old, date, good, prov, tag) ==
  /\ old # None /\ old.date + DayUnits = date
  /\ old.good = good /\ old.prov = prov /\ old.tag = tag

ChainedSale(family, date, who, old, boundary, x) ==
  LET complete == boundary /\ ReconcileProducerSale(old.closing, x.output, x.leftover)
  IN [recs |-> SalesRecords(family, date, who,
                 [seen |-> TRUE, openingSeen |-> boundary, complete |-> complete],
                 IF complete THEN Sale(old.closing, x.output, x.leftover) ELSE None,
                 IF complete THEN x.income ELSE None),
      invalid |-> IF boundary /\ ~complete THEN 1 ELSE 0]

Inventory(date, x, prov, tag) ==
  [date |-> date, good |-> x.good, prov |-> prov, tag |-> tag, closing |-> x.leftover]

\* A province whose RGO cannot be read is an error only under a filter.
CollectRgos(c, w, date, filter) ==
  LET tagged == {p \in Provinces : Owner(w, p) # None}
      due == {p \in tagged : HasCountryTag(filter, Owner(w, p))}
      read == {p \in due : w.readable[p]}
      who(p) == ProducerId(Owner(w, p), p)
      x(p) == w.rgo[p]
      sale(p) == ChainedSale("province.rgo", date, who(p), c.rgos[p],
                   InventoryBoundary(c.rgos[p], date, x(p).good, p, Owner(w, p)), x(p))
      rec(p, part, value) == Stated("province.rgo." \o part, "province.rgo", date, who(p), None, value)
  IN [c |-> [c EXCEPT !.rgos = [p \in Provinces |->
               IF p \in read THEN Inventory(date, x(p), p, Owner(w, p)) ELSE @[p]]],
      recs |-> UNION {sale(p).recs \cup {rec(p, "identity", x(p).good),
                 rec(p, "production", x(p).output), rec(p, "finance", x(p).income)} : p \in read},
      invalid |-> SumOver(read, LAMBDA p : sale(p).invalid)
        + (IF filter = {} THEN 0 ELSE Cardinality((Provinces \ tagged) \cup (due \ read)))]

ArtisanGroups(c, w, date, a) ==
  LET x == w.artisan[a]
      tag == Owner(w, x.prov)
      who == ProducerId(tag, a)
      old == c.artisans[a]
      sale == ChainedSale("pop.artisan", date, who, old,
                InventoryBoundary(old, date, x.good, x.prov, tag), x)
      rec(part, good, value) == Stated("pop.artisan." \o part, "pop.artisan", date, who, good, value)
  IN CASE x.state = "inactive" -> [recs |-> {rec("inactive", None, TRUE)}, invalid |-> 0]
       [] x.state = "unreadable" -> [recs |-> {rec("invalid", None, TRUE)}, invalid |-> 1]
       [] OTHER -> [sale EXCEPT !.recs = @ \cup {rec("identity", None, x.good),
                      rec("production", None, [output |-> x.output, producing |-> x.producing]),
                      rec("input", Input, x.need)}]

EmitArtisans(c, w, date, filter) ==
  LET owned == {a \in Artisans : Owner(w, w.artisan[a].prov) # None}
      due == {a \in owned : HasCountryTag(filter, Owner(w, w.artisan[a].prov))}
      x(a) == w.artisan[a]
      groups(a) == ArtisanGroups(c, w, date, a)
  IN IF ~w.captured THEN [c |-> c, recs |-> {}, invalid |-> 1]
     ELSE [c |-> [c EXCEPT !.artisans = [a \in Artisans |->
               IF a \in due /\ x(a).state = "working"
               THEN Inventory(date, x(a), x(a).prov, Owner(w, x(a).prov)) ELSE @[a]]],
           recs |-> UNION {groups(a).recs : a \in due},
           invalid |-> Cardinality(Artisans \ owned) + SumOver(due, LAMBDA a : groups(a).invalid)]

EmitPopulation(c, w, date, filter) ==
  IF ~w.captured THEN [c |-> c, recs |-> {}, invalid |-> 1]
  ELSE [c |-> c,
        recs |-> {Stated("pop.aggregate", "pop.aggregate", date, ProducerId(Owner(w, p), p), None,
                    w.size[p]) :
                    p \in {q \in Provinces : Owner(w, q) # None /\ HasCountryTag(filter, Owner(w, q))}},
        invalid |-> Cardinality({p \in Provinces : Owner(w, p) = None})]

CollectMarket(c, w, date) ==
  [c |-> c, invalid |-> 0,
   recs |-> {Stated("world.market.price", "world.market", date, None, g, w.price[g]) :
               g \in DOMAIN w.price}]

\* ---------------------------------------------------------------------------
\* One poll, in the order of OnDailyUpdate.

Families == {"world.market", "state.factory", "province.rgo", "pop.artisan", "pop.aggregate",
             "country.economy"}

NoCollector ==
  [daily |-> [f \in Factories |-> None], previous |-> [f \in Factories |-> None], observed |-> 0,
   base |-> None, acc |-> None,
   rgos |-> [p \in Provinces |-> None], artisans |-> [a \in Artisans |-> None]]

\* A date regression forgets the inventories.
ResetInventories(c) ==
  [c EXCEPT !.rgos = [p \in Provinces |-> None], !.artisans = [a \in Artisans |-> None]]

CollectEconomy(c, w, date, filter, regressed) ==
  LET Reset(d) == IF regressed THEN ResetInventories(d) ELSE d
      Add(out, family, e, dropped) ==
        [c |-> e.c, recs |-> Append(out.recs, e.recs),
         invalid |-> [out.invalid EXCEPT ![family] = e.invalid + dropped]]
      Economy(out) == Add(out, "country.economy", ProcessCountryEconomy(out.c, w, date, filter), w.dropped)
      Market(out) == Add(out, "world.market", CollectMarket(out.c, w, date), 0)
      Rgos(out) == Add(out, "province.rgo", CollectRgos(out.c, w, date, filter), 0)
      Artisan(out) == Add(out, "pop.artisan", EmitArtisans(out.c, w, date, filter), w.dropped)
      Population(out) == Add(out, "pop.aggregate", EmitPopulation(out.c, w, date, filter), 0)
      Factory(out) == Add(out, "state.factory", CollectFactories(out.c, w, date, filter), 2 * w.dropped)
  IN Factory(Population(Artisan(Rgos(Market(Economy(
       [c |-> Reset(UpdateFactoryDailyFlows(c, w, date)), recs |-> <<>>,
        invalid |-> [f \in Families |-> 0]]))))))
=============================================================================
