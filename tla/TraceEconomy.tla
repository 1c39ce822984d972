---------------------------- MODULE TraceEconomy ----------------------------
(***************************************************************************)
(* The economic exports of smedley_trace (src/apps/trace/trace.cpp):       *)
(* factory-value-added, producer-sales and country-gdp.  The first and the *)
(* last collect the whole file in a table of facts before they compute a   *)
(* row; producer-sales closes its rows whenever the date changes.          *)
(*                                                                         *)
(* A fact is <<date, table, who, part>> -> value.  who is the producer's   *)
(* identity <<tag, id>>, part is <<name, good>> with None for no good.     *)
(* Amounts are small integers: overflow and the fixed-point scale are left *)
(* out, and a factory's flow is <<post, pre, primary, secondary>>.         *)
(***************************************************************************)
EXTENDS TraceStream

EconomyState(r) == r.env = "state" /\ r.date # None

\* The table and the part each record of the economy fills.
FactOf ==
  "world.market.price" :> <<"market", "price">>
  @@ "state.factory.production" :> <<"factory", "production">>
  @@ "state.factory.input.flow.summary" :> <<"factory", "summary">>
  @@ "state.factory.input.flow" :> <<"factory", "flow">>
  @@ "province.rgo.identity" :> <<"rgo", "identity">>
  @@ "province.rgo.production" :> <<"rgo", "production">>
  @@ "province.rgo.finance" :> <<"rgo", "finance">>
  @@ "pop.artisan.identity" :> <<"artisan", "identity">>
  @@ "pop.artisan.production" :> <<"artisan", "production">>
  @@ "pop.artisan.input" :> <<"artisan", "input">>
  @@ "pop.artisan.inactive" :> <<"artisan", "inactive">>
  @@ "pop.aggregate" :> <<"population", "size">>

ValueAddedEvents == {"world.market.price", "state.factory.production",
                     "state.factory.input.flow.summary", "state.factory.input.flow"}
GdpEvents == DOMAIN FactOf

NoFacts == NoEvidence @@ [facts |-> <<>>]

Key(date, table, who, name, good) == <<date, table, who, <<name, good>>>>
Known(a, key) == key \in DOMAIN a.facts

\* A record of the same part of the same producer on the same date is refused.
AddFact(a, r, key, value) ==
  Refuse(a, EconomyState(r) /\ ~Known(a, key), [a EXCEPT !.facts = (key :> value) @@ @])

\* Exactly one settlement with its four pools, or a purchase that did not happen.
CaptureFactoryInputFlowSummary(a, r, key) ==
  LET none == r.post /\ ~r.pre /\ ~r.primary /\ ~r.secondary /\ r.count = 0
  IN AddFact(a, r, key, [noPurchase |-> none,
       complete |-> none \/ (r.post /\ r.pre /\ r.primary /\ r.secondary /\ r.count = 1)])

CaptureInactiveArtisan(a, r, key) ==
  LET other(name) == Key(r.date, "artisan", r.who, name, None)
  IN IF Known(a, other("identity")) \/ Known(a, other("production"))
     THEN Bad(a) ELSE AddFact(a, r, key, TRUE)

Capture(a, r) ==
  LET key == Key(r.date, FactOf[r.event][1], r.who, FactOf[r.event][2], r.good)
  IN CASE r.event = "state.factory.input.flow.summary" -> CaptureFactoryInputFlowSummary(a, r, key)
       [] r.event = "pop.artisan.inactive" -> CaptureInactiveArtisan(a, r, key)
       [] OTHER -> AddFact(a, r, key, r.value)

Dates(a) == {k[1] : k \in DOMAIN a.facts}
FirstDate(a) == CHOOSE d \in Dates(a) : \A e \in Dates(a) : d <= e

Fact(a, date, table, who, name, good) == a.facts[Key(date, table, who, name, good)]
Has(a, date, table, who, name) == Known(a, Key(date, table, who, name, None))

Entities(a, date, table) == {k[3] : k \in {j \in DOMAIN a.facts : j[1] = date /\ j[2] = table}}
Owned(a, date, table, tag) == {who \in Entities(a, date, table) : who[1] = tag}
GoodsOf(a, date, table, who, name) ==
  {k[4][2] : k \in {j \in DOMAIN a.facts :
                       j[1] = date /\ j[2] = table /\ j[3] = who /\ j[4][1] = name}}

Priced(a, date, good) == Known(a, Key(date, "market", None, "price", good))
Price(a, date, good) == Fact(a, date, "market", None, "price", good)

\* ---------------------------------------------------------------------------
\* A factory's inputs between two consecutive days.

FactorySeen(a, date, who) ==
  Has(a, date, "factory", who, "production") /\ Has(a, date, "factory", who, "summary")

FlowComplete(a, date, who) == Fact(a, date, "factory", who, "summary", None).complete
NoPurchase(a, date, who) == Fact(a, date, "factory", who, "summary", None).noPurchase

Flow(a, date, who, g) ==
  IF g \in GoodsOf(a, date, "factory", who, "flow")
  THEN Fact(a, date, "factory", who, "flow", g) ELSE <<0, 0, 0, 0>>

InputGoods(a, o, d, who) ==
  GoodsOf(a, o, "factory", who, "flow") \cup GoodsOf(a, d, "factory", who, "flow")

\* What the settlement of the opening day left in stock.
OpeningStock(a, o, who, g) ==
  LET f == Flow(a, o, who, g) IN IF NoPurchase(a, o, who) THEN f[1] ELSE f[2] + f[3] + f[4]

FlowReconciles(a, o, d, who, g) ==
  LET f == Flow(a, d, who, g)
  IN /\ IF NoPurchase(a, d, who) THEN f[2] = 0 /\ f[3] = 0 /\ f[4] = 0 ELSE f[1] = f[2]
     /\ f[1] <= OpeningStock(a, o, who, g)

Consumed(a, o, d, who, g) == OpeningStock(a, o, who, g) - Flow(a, d, who, g)[1]

FactoryGross(a, d, who, priced) ==
  LET p == Fact(a, d, "factory", who, "production", None) IN p.output * Price(a, priced, p.good)
FactoryInputs(a, o, d, who, priced) ==
  SumOver(InputGoods(a, o, d, who), LAMBDA g : Consumed(a, o, d, who, g) * Price(a, priced, g))

\* Both price dates cover every good, and each input reconciles.
FactoryValued(a, o, d, who, pricing) ==
  LET out == Fact(a, d, "factory", who, "production", None).good
  IN /\ \A t \in pricing, g \in {out} \cup InputGoods(a, o, d, who) : Priced(a, t, g)
     /\ \A g \in InputGoods(a, o, d, who) : FlowReconciles(a, o, d, who, g)

\* ---------------------------------------------------------------------------
\* factory-value-added.

VisitValueAdded(a, r) ==
  IF r.event \in ValueAddedEvents THEN Capture(a, r)
  ELSE IF r.event \in Metadata THEN a
  ELSE VisitHealth(a, r, {"state.factory", "world.market"})

ValueAddedEvidence(st) ==
  LET a == st.acc
  IN /\ st.error = None /\ HealthyFactoryTrace(st) /\ Ended(st)
     /\ DOMAIN a.health = {"state.factory", "world.market"}
     /\ Cardinality(Dates(a)) >= 2
     /\ \A d \in Dates(a), who \in UNION {Entities(a, e, "factory") : e \in Dates(a)} :
          who \in Entities(a, d, "factory") =>
            FactorySeen(a, d, who) /\ (d # FirstDate(a) => FlowComplete(a, d, who))

\* An interval of one country: refused, skipped on the first day, or a row.
IntervalOpens(a, o, tag) == \A who \in Owned(a, o, "factory", tag) : FlowComplete(a, o, who)

IntervalHolds(a, o, d, tag) ==
  LET mine == Owned(a, d, "factory", tag)
  IN /\ mine = Owned(a, o, "factory", tag)
     /\ mine # {} /\ ~IntervalOpens(a, o, tag) => o = FirstDate(a)
     /\ IntervalOpens(a, o, tag) => \A who \in mine : FactoryValued(a, o, d, who, {d})

IntervalRow(a, o, d, tag) ==
  LET mine == Owned(a, d, "factory", tag)
  IN [opening |-> o, date |-> d, country |-> tag, factories |-> Cardinality(mine),
      gross |-> SumOver(mine, LAMBDA who : FactoryGross(a, d, who, d)),
      inputs |-> SumOver(mine, LAMBDA who : FactoryInputs(a, o, d, who, d))]

\* The countries whose factories an interval has.
FactoryTags(a, o, d, country) ==
  {who[1] : who \in {w \in Entities(a, o, "factory") \cup Entities(a, d, "factory") :
                        country \in {None, w[1]}}}

\* A day and the one before it in the table, which must be one day apart.
Pairs(a) ==
  {<<o, d>> \in Dates(a) \X Dates(a) : o < d /\ ~\E e \in Dates(a) : o < e /\ e < d}

IntervalsHold(a, country) ==
  \A p \in Pairs(a) :
    /\ p[2] - p[1] = DayUnits
    /\ \A tag \in FactoryTags(a, p[1], p[2], country) : IntervalHolds(a, p[1], p[2], tag)

IntervalRows(a, country) ==
  UNION {{IntervalRow(a, p[1], p[2], tag) :
            tag \in {t \in FactoryTags(a, p[1], p[2], country) :
                       /\ Owned(a, p[2], "factory", t) # {}
                       /\ IntervalOpens(a, p[1], t)}} : p \in Pairs(a)}

\* An export of these rows; none are no export.
Rows(rows) == [published |-> rows # {}, rows |-> rows]

ExportFactoryValueAdded(file, country) ==
  LET Result(st) == IF ValueAddedEvidence(st) /\ IntervalsHold(st.acc, country)
                    THEN Rows(IntervalRows(st.acc, country)) ELSE Rows({})
  IN Result(Stream(file, NoFacts, VisitValueAdded))

\* ---------------------------------------------------------------------------
\* producer-sales.  A row is what the records of one producer and day say.

SalesFamilies == {"state.factory", "province.rgo", "pop.artisan"}
SalesParts == {"summary", "quantity", "revenue"}
SalesEvents == {f \o ".sales." \o p : f \in SalesFamilies, p \in SalesParts}

NoSales == NoEvidence @@ [date |-> None, open |-> <<>>, families |-> {}, rows |-> {}]
NoSalesRow == [summary |-> None, quantity |-> None, revenue |-> None]

SalesRowHolds(row) ==
  /\ row.summary # None
  /\ row.summary.complete => row.quantity # None /\ row.revenue # None
  /\ ~row.summary.complete => row.quantity = None /\ row.revenue = None

\* Mutant: the rows of a day stay open on the next.
FlushSales_KeepsRows(a) ==
  Refuse(a, \A k \in DOMAIN a.open : SalesRowHolds(a.open[k]),
    [a EXCEPT !.rows = @ \cup {[date |-> a.date, family |-> k[1], who |-> k[2],
                         quantity |-> a.open[k].quantity, proceeds |-> a.open[k].revenue] :
                          k \in {j \in DOMAIN a.open : a.open[j].summary.complete}}])

FlushSales(a) ==
  Refuse(a, \A k \in DOMAIN a.open : SalesRowHolds(a.open[k]),
    [a EXCEPT !.open = <<>>,
       !.rows = @ \cup {[date |-> a.date, family |-> k[1], who |-> k[2],
                         quantity |-> a.open[k].quantity, proceeds |-> a.open[k].revenue] :
                          k \in {j \in DOMAIN a.open : a.open[j].summary.complete}}])

\* A factory proves its one settlement, the others their chain of inventories.
SalesSummaryHolds(family, s) ==
  IF family = "state.factory"
  THEN s.seen = (s.count # 0) /\ (s.complete => s.count = 1)
  ELSE s.seen /\ (s.complete => s.openingSeen)

SalesQuantityHolds(q) ==
  q.closing <= q.opening + q.produced /\ q.sold = q.opening + q.produced - q.closing

SalesRecord(a, r) ==
  LET k == <<r.family, r.who>>
      row == IF k \in DOMAIN a.open THEN a.open[k] ELSE NoSalesRow
      fits == CASE r.part = "summary" -> SalesSummaryHolds(r.family, r.value)
                [] r.part = "quantity" -> SalesQuantityHolds(r.value)
                [] OTHER -> r.value >= 0
  IN Refuse(a, row[r.part] = None /\ fits,
            [a EXCEPT !.open = (k :> [row EXCEPT ![r.part] = r.value]) @@ @])

SalesHealth(a, r) ==
  IF r.event = "telemetry.family.summary" THEN CaptureFamilyHealth(a, r, SalesFamilies)
  ELSE IF r.event = "telemetry.summary" THEN CaptureTerminalHealth(a, r) ELSE a

VisitSales(a, r, country) ==
  IF r.event \notin SalesEvents THEN SalesHealth(a, r)
  ELSE LET known == [a EXCEPT !.families = @ \cup {r.family}]
           Take(b) == IF b.bad THEN b ELSE SalesRecord([b EXCEPT !.date = r.date], r)
       IN IF ~EconomyState(r) THEN Bad(a)
          ELSE IF country \notin {None, r.who[1]} THEN known
          ELSE Take(IF known.date \notin {None, r.date} THEN FlushSales(known) ELSE known)

ExportProducerSales(file, country) ==
  LET Flushed(st, a) ==
        [published |-> /\ st.error = None /\ ~a.bad /\ Gapless(st) /\ Ended(st)
                       /\ a.families # {} /\ a.families \subseteq DOMAIN a.health
                       /\ a.rows # {},
         rows |-> a.rows]
      Result(st) == Flushed(st, FlushSales(st.acc))
  IN Result(Stream(file, NoSales, LAMBDA a, r : VisitSales(a, r, country)))

\* ---------------------------------------------------------------------------
\* country-gdp.

GdpFamilies == {"world.market", "state.factory", "province.rgo", "pop.artisan", "pop.aggregate"}

\* The fields the metadata of each family must name.
GdpFields ==
  "world.market" :> {"price"} @@ "state.factory" :> {"production", "flows"}
  @@ "province.rgo" :> {"identity", "production"}
  @@ "pop.artisan" :> {"identity", "production", "inputs"}
  @@ "pop.aggregate" :> {"size_candidate"}

VisitGdp(a, r) ==
  IF r.event \in GdpEvents THEN Capture(a, r) ELSE VisitHealth(a, r, GdpFamilies)

ValidateGdpMetadata(a) ==
  \A f \in GdpFamilies : LET rule == RuleOf(a, f)
    IN /\ rule.seen /\ rule.cadence = "daily" /\ ~rule.bounded /\ rule.provinces = 0
       /\ rule.countries = Cardinality(rule.tags)
       /\ a.health[f] = Cardinality(Dates(a))
       /\ HasFields(rule, GdpFields[f])

\* Every producer of the table is whole on every day.
GdpDaysWhole(a) ==
  \A d \in Dates(a) :
    /\ \A who \in Entities(a, d, "factory") : FactorySeen(a, d, who)
    /\ \A who \in Entities(a, d, "artisan") :
         \/ Has(a, d, "artisan", who, "inactive")
         \/ Has(a, d, "artisan", who, "identity") /\ Has(a, d, "artisan", who, "production")
    /\ \A who \in Entities(a, d, "rgo") :
         Has(a, d, "rgo", who, "identity") /\ Has(a, d, "rgo", who, "production")

GdpEvidence(st, base) ==
  LET a == st.acc
  IN /\ st.error = None /\ HealthyFactoryTrace(st) /\ Ended(st)
     /\ DOMAIN a.health = GdpFamilies
     /\ Cardinality(Dates(a)) >= 3 /\ ValidateGdpMetadata(a)
     /\ \A p \in Pairs(a) : p[2] - p[1] = DayUnits
     /\ base \in Dates(a) /\ GoodsOf(a, base, "market", None, "price") # {}
     /\ GdpDaysWhole(a)

\* A factory that left is left out; one that came in has no opening flow.
ValueProducerSetHolds(a, o, d, tag, base) ==
  \A who \in Owned(a, d, "factory", tag) :
    /\ who \in Owned(a, o, "factory", tag)
    /\ FlowComplete(a, o, who) /\ FlowComplete(a, d, who)
    /\ FactoryValued(a, o, d, who, {d, base})

FactoriesValue(a, o, d, tag, priced) ==
  SumOver(Owned(a, d, "factory", tag),
         LAMBDA who : FactoryGross(a, d, who, priced) - FactoryInputs(a, o, d, who, priced))

WorkingArtisans(a, d, tag) ==
  {who \in Owned(a, d, "artisan", tag) : ~Has(a, d, "artisan", who, "inactive")}
ArtisanGood(a, d, who) == Fact(a, d, "artisan", who, "identity", None)
ArtisanNeeds(a, d, who) == GoodsOf(a, d, "artisan", who, "input")

ValueArtisansHolds(a, d, tag, base) ==
  \A who \in WorkingArtisans(a, d, tag) :
    \A t \in {d, base}, g \in {ArtisanGood(a, d, who)} \cup ArtisanNeeds(a, d, who) : Priced(a, t, g)

\* A need is scaled by the share of the capacity that is producing.
ArtisansValue(a, d, tag, priced) ==
  SumOver(WorkingArtisans(a, d, tag), LAMBDA who :
    LET p == Fact(a, d, "artisan", who, "production", None)
    IN p.output * Price(a, priced, ArtisanGood(a, d, who))
         - SumOver(ArtisanNeeds(a, d, who), LAMBDA g :
             Fact(a, d, "artisan", who, "input", g) * p.producing * Price(a, priced, g)))

PreciousMetal == "precious_metal"
RgoGood(a, d, who) == Fact(a, d, "rgo", who, "identity", None)

\* Gold is worth its rate, any other good its price.
ValueRgosHolds(a, d, tag, base, gold) ==
  \A who \in Owned(a, d, "rgo", tag) :
    IF RgoGood(a, d, who) = PreciousMetal THEN gold # None
    ELSE \A t \in {d, base} : Priced(a, t, RgoGood(a, d, who))

RgosValue(a, d, tag, priced, gold) ==
  SumOver(Owned(a, d, "rgo", tag), LAMBDA who :
    Fact(a, d, "rgo", who, "production", None)
      * IF RgoGood(a, d, who) = PreciousMetal THEN gold ELSE Price(a, priced, RgoGood(a, d, who)))

PopulationOf(a, d, tag) ==
  SumOver({k \in DOMAIN a.facts : k[1] = d /\ k[2] = "population" /\ k[3][1] = tag},
         LAMBDA k : a.facts[k])

InScope(a, tag) ==
  \A f \in GdpFamilies \ {"world.market"} :
    RuleOf(a, f).countries # 0 => tag \in RuleOf(a, f).tags

GdpRowHolds(a, o, d, tag, base, gold) ==
  /\ InScope(a, tag) /\ PopulationOf(a, d, tag) > 0
  /\ ValueProducerSetHolds(a, o, d, tag, base)
  /\ ValueArtisansHolds(a, d, tag, base) /\ ValueRgosHolds(a, d, tag, base, gold)

GdpAt(a, o, d, tag, priced, gold) ==
  FactoriesValue(a, o, d, tag, priced) + RgosValue(a, d, tag, priced, gold)
    + ArtisansValue(a, d, tag, priced)

GdpRow(a, o, d, tag, base, gold) ==
  [opening |-> o, date |-> d, country |-> tag, population |-> PopulationOf(a, d, tag),
   nominal |-> GdpAt(a, o, d, tag, d, gold), real |-> GdpAt(a, o, d, tag, base, gold)]

\* Rows start with the third day: the first has no flow, the second no opening.
GdpDays(a) == {p \in Pairs(a) : p[1] # FirstDate(a)}
GdpTags(a, d, country) ==
  IF country # None THEN {country} ELSE {who[1] : who \in Entities(a, d, "population")}

GdpHolds(a, country, base, gold) ==
  \A p \in GdpDays(a) : \A t \in GdpTags(a, p[2], country) :
    GdpRowHolds(a, p[1], p[2], t, base, gold)

GdpRows(a, country, base, gold) ==
  UNION {{GdpRow(a, p[1], p[2], t, base, gold) : t \in GdpTags(a, p[2], country)} : p \in GdpDays(a)}

ExportCountryGdp(file, country, gold) ==
  LET From(st, base) == IF GdpEvidence(st, base) /\ GdpHolds(st.acc, country, base, gold)
                        THEN Rows(GdpRows(st.acc, country, base, gold)) ELSE Rows({})
      Result(st) == IF Dates(st.acc) = {} THEN Rows({}) ELSE From(st, FirstDate(st.acc))
  IN Result(Stream(file, NoFacts, VisitGdp))
=============================================================================
