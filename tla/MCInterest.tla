----------------------------- MODULE MCInterest -----------------------------
(***************************************************************************)
(* Two states and three POPs in the games a bank pass may meet, loaded by  *)
(* a loader whose second plugin may fail.                                  *)
(***************************************************************************)
EXTENDS InterestFix

CONSTANTS s1, s2, r1, r2, p1, p2, p3, other

MCFragile == {s2, p1, 1}
MCPlugins == <<Fix, other>>

Chain(pops) == [chain |-> pops, count |-> Len(pops), looped |-> FALSE,
                last |-> IF pops = <<>> THEN None ELSE Last(pops)]
StatesOf(ss) == [nodes |-> [i \in DOMAIN ss |-> [data |-> ss[i], deleted |-> FALSE]],
                 reported |-> Len(ss), tail |-> ss # <<>>, looped |-> FALSE]
World(one, two, lists, third) ==
    [countries |-> 3,
     states |-> (0 :> StatesOf(<<>>)) @@ (1 :> StatesOf(one)) @@ (2 :> StatesOf(two)),
     provinces |-> (s1 :> <<r1>>) @@ (s2 :> <<r2>>),
     lists |-> (r1 :> <<Chain(<<p1, p2>>)>>) @@ (r2 :> lists),
     savings |-> (p1 :> 1) @@ (p2 :> 2) @@ (p3 :> third)]

\* One country with both states and a deleted node; a state of each of two
\* countries, one of them without savings; a state that two countries list.
MCWorlds ==
    {[World(<<s1, s2>>, <<>>, <<Chain(<<>>), Chain(<<p3>>)>>, 1) EXCEPT
        !.states[1].nodes = Append(@, [data |-> s1, deleted |-> TRUE]), !.states[1].reported = 3],
     World(<<s1>>, <<s2>>, <<Chain(<<p3>>)>>, 0),
     World(<<s1>>, <<s1>>, <<Chain(<<p3>>)>>, 1)}
=============================================================================
