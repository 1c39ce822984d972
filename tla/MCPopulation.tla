---------------------------- MODULE MCPopulation ----------------------------
(***************************************************************************)
(* Two POPs in two provinces of two countries, observed for three days.    *)
(***************************************************************************)
EXTENDS Population

CONSTANTS A, B, p1, p2, s1, s2, farmer, clerk
MCPops == {p1, p2}
MCProvinces == {s1, s2}
MCTypes == {farmer, clerk}
Pop(type) == [prov |-> s1, type |-> type, money |-> 1]
MCStartPops == {(p1 :> Pop(farmer) @@ p2 :> x) : x \in {None, Pop(clerk)}}
MCStartOwners == {(s1 :> A @@ s2 :> B)}
MCCountries == {A, B}
MCFilters == {{}, {A}}
=============================================================================
