------------------------------ MODULE MCLaunch ------------------------------
(***************************************************************************)
(* Launch for TLC: two launchers, one of which waits for its game, two     *)
(* paths, and profiles with each setting at and beyond its limits.         *)
(***************************************************************************)
EXTENDS Launch

CONSTANTS here, there, l1

MCProfile(l) ==
    LET launch == [inject |-> TRUE, path |-> here, overwrite |-> FALSE, modules |-> IF l = l1 THEN 2 ELSE 1, sound |-> TRUE]
    IN  IF l = l1 THEN {launch}
        ELSE {[launch EXCEPT !.overwrite = TRUE], [launch EXCEPT !.path = there],
              [launch EXCEPT !.inject = FALSE], [launch EXCEPT !.sound = FALSE]}

\* How the campaign starts, and when it ends.
MCCampaignProfiles ==
    [save : {None, "save"}, usable : BOOLEAN, observer : BOOLEAN, view : {None, "eng", "ENG", "malformed"},
     speed : {0, 1, 5, 6}, paused : BOOLEAN, detach : BOOLEAN, days : {None, 1}, until : {None, 0}, quit : {FALSE}, timeout : {1}]
    \cup
    [save : {None, "save"}, usable : {TRUE}, observer : BOOLEAN, view : {None}, speed : {1}, paused : BOOLEAN, detach : BOOLEAN,
     days : {None, 0, 1, 1000000, 1000001}, until : {None, 0}, quit : BOOLEAN, timeout : {0, 1, 86400, 86401}]

MCScriptProfiles ==
    [scripts : BoundedSeq(0 .. 2, 2) \cup {[i \in 1 .. n |-> i] : n \in {16, 17}}, budget : {999, 1000, 10000000, 10000001},
     memory : {262143, 262144, 67108864, 67108865}, capacity : {15, 16, 4096, 4097}]

Plain == [enabled |-> TRUE, output |-> None, categories |-> <<"lifecycle", "state">>, tags |-> <<>>, start |-> None,
          end |-> None, sample_days |-> 1, capacity |-> 64, overwrite |-> FALSE, rate |-> None, captures |-> <<>>]
Rule == [family |-> "world_daily", cadence |-> "daily", fields |-> <<>>, tags |-> <<>>, provinces |-> <<>>,
         start |-> None, end |-> None]
Tags == {<<>>, <<0>>, <<1>>, <<1, 1>>, <<1, 2>>} \cup {[i \in 1 .. n |-> i] : n \in {16, 17}}
Dates == {None, 1, 2}
Captures == {<<>>, <<Rule>>, [i \in 1 .. 33 |-> Rule]}

\* What is written, when and how much of it, and the rule of a capture.
MCTelemetryProfiles ==
    {[Plain EXCEPT !.output = o, !.categories = c, !.tags = t, !.captures = r] :
        o \in {None, "empty", "jsonl", "csv"}, c \in BoundedSeq({"lifecycle", "state", "other"}, 2), t \in Tags, r \in Captures}
    \cup {[Plain EXCEPT !.start = s, !.end = e, !.sample_days = d, !.rate = r, !.captures = k] :
        s \in Dates, e \in Dates, d \in {0, 1, 365, 366}, r \in Rates \cup {None}, k \in {<<>>, <<Rule>>}}
    \cup {[Plain EXCEPT !.sample_days = d, !.capacity = q, !.overwrite = o] :
        d \in {0, 1, 365, 366}, q \in {63, 64, 32768, 32769}, o \in BOOLEAN}
    \cup {[Plain EXCEPT !.captures = <<[Rule EXCEPT !.family = f, !.cadence = c, !.fields = d, !.tags = t]>>, !.rate = r] :
        f \in DOMAIN MetricFamilies \cup {"other"}, c \in {"daily", "weekly", "hourly"},
        d \in BoundedSeq({"other", "sales", "flows"}, 2), t \in {<<>>, <<1>>, [i \in 1 .. 17 |-> i]}, r \in {None, "half"}}
    \cup {[Plain EXCEPT !.captures = <<[Rule EXCEPT !.family = f, !.fields = d, !.tags = t, !.provinces = p]>>] :
        f \in DOMAIN MetricFamilies, d \in {<<>>, <<"flows">>}, t \in Tags, p \in {<<>>, <<-1>>, <<1>>, <<1, 1>>}}
    \cup {[Plain EXCEPT !.captures = <<[Rule EXCEPT !.start = s, !.end = e], [Rule EXCEPT !.family = f]>>] :
        s \in Dates, e \in Dates, f \in DOMAIN MetricFamilies}

\* Three plugins with any dependencies among them; and with one on a plugin
\* that is not there, or a conflict.
Plugins(needs, against) ==
    [i \in 1 .. 3 |-> [id |-> i, dependencies |-> needs[i], conflicts |-> IF i = 1 THEN against ELSE {}]]
MCPluginLists ==
    {Plugins(needs, {}) : needs \in [1 .. 3 -> SUBSET (1 .. 3)]}
    \cup {Plugins(needs, against) : needs \in [1 .. 3 -> {{}, {1}, {2}, {4}}], against \in {{}, {3}, {4}}}

\* A text of three characters, or two of two each.
MCTexts == {<<t>> : t \in BoundedSeq({"a", " ", "q", "b"}, 3)} \cup BoundedSeq(BoundedSeq({"a", " ", "q", "b"}, 2), 2)
=============================================================================
