----------------------------- MODULE TracePops -----------------------------
(***************************************************************************)
(* The two POP exports of smedley_trace (src/apps/trace/trace.cpp):        *)
(* pop-stock-lifecycle and pop-cashflow.  Each is a visitor over the       *)
(* records, a flush whenever the date changes, and a verdict at the end of *)
(* the file; rows are what the export would write.                         *)
(***************************************************************************)
EXTENDS TraceStream

Total(f) == FoldFunction(+, 0, f)
Count(S, P(_)) == Cardinality({x \in S : P(x)})

StateRecord(r) == r.env = "state" /\ r.date # None

\* ---------------------------------------------------------------------------
\* pop-stock-lifecycle.

StockFamilies == {"pop.aggregate", "pop.lifecycle"}
LifecycleEvents ==
  {"pop.lifecycle.observed_appeared", "pop.lifecycle.observed_disappeared",
   "pop.lifecycle.scope_changed"}

NoStock == NoEvidence @@ [date |-> None, stocks |-> {}, details |-> {}, summary |-> None,
                          prevDate |-> None, prevClosing |-> None, days |-> 0, rows |-> {}]

\* The first stock has nothing to be compared with and claims nothing.
WarmUp(a, s) ==
  /\ a.prevClosing = None /\ ~s.complete /\ a.details = {}
  /\ s.opening = 0 /\ s.appeared = 0 /\ s.disappeared = 0 /\ s.changed = 0 /\ s.unchanged = 0

\* Every later one starts where the last one ended and accounts for each POP.
Chained(a, s) ==
  LET n(event) == Count(a.details, LAMBDA d : d.event = event)
  IN /\ a.prevClosing # None /\ s.complete /\ s.opening = a.prevClosing
     /\ s.appeared = n("pop.lifecycle.observed_appeared")
     /\ s.disappeared = n("pop.lifecycle.observed_disappeared")
     /\ s.changed = n("pop.lifecycle.scope_changed")
     /\ s.unchanged + s.changed + s.disappeared = s.opening
     /\ s.unchanged + s.changed + s.appeared = s.closing

StockDayHolds(a) ==
  LET s == a.summary
  IN /\ a.prevDate # None => a.prevDate + DayUnits = a.date
     /\ a.stocks # {} /\ s # None
     /\ FoldSet(LAMBDA x, sum : x.count + sum, 0, a.stocks) = s.closing
     /\ IF s.opening_seen THEN Chained(a, s) ELSE WarmUp(a, s)

\* What a day leaves behind.  Mutant: its details stay for the next one.
NextStockDay_KeepsDetails(a) ==
  [a EXCEPT !.prevClosing = a.summary.closing, !.prevDate = a.date, !.days = @ + 1,
     !.stocks = {}, !.summary = None]

NextStockDay(a) ==
  [a EXCEPT !.prevClosing = a.summary.closing, !.prevDate = a.date, !.days = @ + 1,
     !.stocks = {}, !.details = {}, !.summary = None]

FlushStock(a, country) ==
  LET chosen(tags) == country = None \/ country \in tags
  IN IF a.date = None THEN a
     ELSE Refuse(a, StockDayHolds(a),
       [NextStockDay(a) EXCEPT !.rows = @
            \cup {[kind |-> "stock", date |-> a.date, row |-> x] :
                    x \in {y \in a.stocks : chosen({y.country})}}
            \cup {[kind |-> "summary", date |-> a.date, row |-> a.summary]}
            \cup {[kind |-> "detail", date |-> a.date, row |-> d] :
                    d \in {e \in a.details : chosen(e.tags)}}])

\* The three kinds of record of one day; a record of another day flushes first.
StockRecord(a, r) ==
  LET key(x) == <<x.country, x.province, x.type>>
      d == [event |-> r.event, pop |-> r.pop, tags |-> r.tags]
  IN CASE r.event = "pop.aggregate" ->
            Refuse(a, r.country # None /\ \A x \in a.stocks : key(x) # key(r),
                   [a EXCEPT !.stocks = @ \cup {[country |-> r.country, province |-> r.province,
                                                 type |-> r.type, count |-> r.count]}])
       [] r.event = "pop.lifecycle.summary" ->
            Refuse(a, a.summary = None, [a EXCEPT !.summary = r.body])
       [] OTHER ->
            Refuse(a, /\ r.event \in LifecycleEvents /\ None \notin r.tags
                      /\ \A e \in a.details : <<e.event, e.pop>> # <<r.event, r.pop>>,
                   [a EXCEPT !.details = @ \cup {d}])

\* The record after what a change of the date flushed.
NextRecord(a, r, Take(_, _)) == IF a.bad THEN a ELSE Take([a EXCEPT !.date = r.date], r)

VisitStock(a, r, country) ==
  IF r.family \notin StockFamilies \/ r.env = "health" THEN VisitHealth(a, r, StockFamilies)
  ELSE IF ~StateRecord(r) THEN Bad(a)
  ELSE NextRecord(IF a.date \notin {None, r.date} THEN FlushStock(a, country) ELSE a, r, StockRecord)

\* Daily, unbounded and unfiltered, with every group the export needs.
StockContract(a, family, required) ==
  LET rule == RuleOf(a, family)
  IN /\ rule.seen /\ rule.cadence = "daily" /\ ~rule.bounded
     /\ rule.countries = 0 /\ rule.provinces = 0 /\ HasFields(rule, required)

StockPublished(st, a) ==
  /\ st.error = None /\ ~a.bad /\ Gapless(st) /\ Ended(st)
  /\ DOMAIN a.health = StockFamilies
  /\ StockContract(a, "pop.aggregate", {"employed_candidate", "pop_count", "size_candidate"})
  /\ StockContract(a, "pop.lifecycle", {"appeared", "disappeared", "scope_changed", "summary"})
  /\ \A f \in StockFamilies : a.health[f] = a.days
  /\ a.rows # {}

\* What an export makes of the pass, after the last flush.
Exported(st, a, Published(_, _)) == [published |-> Published(st, a), rows |-> a.rows]

ExportPopStockLifecycle(file, country) ==
  LET Result(st) == Exported(st, FlushStock(st.acc, country), StockPublished)
  IN Result(Stream(file, NoStock, LAMBDA a, r : VisitStock(a, r, country)))

\* ---------------------------------------------------------------------------
\* pop-cashflow.  An account is [openPops, closePops, opening, closing, delta,
\* residual, components]; the type of a country's own account is None.

NoCash == NoEvidence @@ [date |-> None, accounts |-> <<>>, rows |-> {}]

NoAccount == [summary |-> FALSE, seen |-> FALSE, account |-> FALSE, reconciled |-> FALSE,
              openPops |-> 0, closePops |-> 0, opening |-> 0, closing |-> 0, delta |-> 0,
              residual |-> 0, posted |-> <<>>, components |-> <<>>]

Amount(f, c) == IF c \in DOMAIN f THEN f[c] ELSE 0
Amounts == {"openPops", "closePops", "opening", "closing", "delta", "residual"}

AccountHolds(x) ==
  /\ x.summary /\ x.seen = x.account
  /\ x.seen => Total(x.components) = x.delta /\ x.reconciled = (x.residual = 0)

\* A country's account is the sum of the accounts of its types.
CountryHolds(acc, tag) ==
  LET types == {k \in DOMAIN acc : k[1] = tag /\ k[2] # None /\ acc[k].seen}
      country == acc[<<tag, None>>]
      sum(P(_)) == FoldSet(LAMBDA k, n : P(acc[k]) + n, 0, types)
      names == UNION {DOMAIN acc[k].components : k \in types} \cup DOMAIN country.components
  IN country.seen =>
       /\ types # {}
       /\ \A f \in Amounts : country[f] = sum(LAMBDA x : x[f])
       /\ \A c \in names : /\ Amount(country.components, c) = sum(LAMBDA x : Amount(x.components, c))
                           /\ Amount(country.posted, c) = sum(LAMBDA x : Amount(x.posted, c))

CashDayHolds(acc) ==
  LET tags == {k[1] : k \in DOMAIN acc}
      typed == {k[1] : k \in {j \in DOMAIN acc : j[2] # None /\ acc[j].seen}}
  IN /\ \A k \in DOMAIN acc : AccountHolds(acc[k])
     /\ \A tag \in typed : <<tag, None>> \in DOMAIN acc
     /\ \A tag \in tags : <<tag, None>> \in DOMAIN acc => CountryHolds(acc, tag)

FlushCash(a) ==
  Refuse(a, CashDayHolds(a.accounts),
    [a EXCEPT !.accounts = <<>>,
       !.rows = @ \cup {[date |-> a.date, country |-> k[1], type |-> k[2],
                         account |-> [f \in Amounts |-> a.accounts[k][f]]] :
                          k \in {j \in DOMAIN a.accounts : a.accounts[j].seen}}])

\* summary, account and component records fill one account.
CashPart(a, r, k, x) ==
  LET With(y) == [a EXCEPT !.accounts = (k :> y) @@ @]
      b == r.body
  IN CASE r.part = "summary" ->
            Refuse(a, ~x.summary /\ (b.reconciled => b.seen),
                   With([x EXCEPT !.summary = TRUE, !.openPops = b.openPops,
                           !.closePops = b.closePops, !.seen = b.seen, !.reconciled = b.reconciled]))
       [] r.part = "account" ->
            Refuse(a, /\ ~x.account /\ b.opening >= 0 /\ b.closing >= 0
                      /\ b.closing - b.opening - b.residual = b.delta,
                   With([x EXCEPT !.account = TRUE, !.opening = b.opening, !.closing = b.closing,
                           !.delta = b.delta, !.residual = b.residual]))
       [] OTHER ->
            Refuse(a, r.component \notin DOMAIN x.components,
                   With([x EXCEPT !.components = (r.component :> b.delta) @@ @,
                                  !.posted = (r.component :> b.posted) @@ @]))

AccountOf(a, k) == IF k \in DOMAIN a.accounts THEN a.accounts[k] ELSE NoAccount

CashRecord(a, r) ==
  LET k == <<r.country, r.type>> IN CashPart(a, r, k, AccountOf(a, k))

CashFamily == "pop.cashflow.aggregate"

VisitCash(a, r, country) ==
  IF r.family # CashFamily \/ r.env = "health" THEN VisitHealth(a, r, {CashFamily})
  ELSE IF ~StateRecord(r) \/ r.country = None THEN Bad(a)
  ELSE IF country \notin {None, r.country} THEN a
  ELSE NextRecord(IF a.date \notin {None, r.date} THEN FlushCash(a) ELSE a, r, CashRecord)

CashPublished(st, a) ==
  LET rule == RuleOf(a, CashFamily)
  IN /\ st.error = None /\ ~a.bad /\ Gapless(st) /\ Ended(st)
     /\ DOMAIN a.health = {CashFamily}
     /\ rule.seen /\ rule.cadence = "daily"
     /\ (rule.all \/ rule.fields = {"account", "components", "summary"})
     /\ a.rows # {}

ExportPopCashFlow(file, country) ==
  LET Result(st) == Exported(st, FlushCash(st.acc), CashPublished)
  IN Result(Stream(file, NoCash, LAMBDA a, r : VisitCash(a, r, country)))
=============================================================================
