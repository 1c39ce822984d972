----------------------------- MODULE MCEconomy -----------------------------
(***************************************************************************)
(* One factory, two RGOs and one artisan in two countries, for four days.  *)
(***************************************************************************)
EXTENDS Economy

CONSTANTS A, B, f1, s1, s2, a1, coal, cloth
MCFactories == {f1}
MCProvinces == {s1, s2}
MCArtisans == {a1}
MCCountries == {A, B}
Busy == [works |-> TRUE, buys |-> TRUE, sells |-> TRUE]
Quiet == [works |-> TRUE, buys |-> FALSE, sells |-> FALSE]
Idle == [works |-> FALSE, buys |-> FALSE, sells |-> TRUE]
MCPlans == <<{Busy}, {Busy, Quiet, Idle}, {Busy, Quiet}, {Busy}>>
MCQueries == {None, A}
MCMarkets == [n \in 0..1 |-> coal :> 1 @@ cloth :> 3 + n]
Rgo == [good |-> coal, state |-> "working", output |-> 0, leftover |-> 0, income |-> 0]
MCStartWorld ==
  [price |-> MCMarkets[0],
   owner |-> (s1 :> A @@ s2 :> B),
   size |-> [p \in MCProvinces |-> 1],
   factory |-> (f1 :> [prov |-> s1, id |-> 1, stock |-> 2, inventory |-> 0, good |-> cloth,
                       output |-> 1, income |-> 0]),
   rgo |-> [p \in MCProvinces |-> Rgo],
   artisan |-> (a1 :> [good |-> cloth, state |-> "working", output |-> 0, leftover |-> 0, income |-> 0,
                       prov |-> s1, need |-> 1, producing |-> 1])]
MCFilters == {{}, {A}}
=============================================================================
