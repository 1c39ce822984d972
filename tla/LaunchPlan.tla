----------------------------- MODULE LaunchPlan -----------------------------
(***************************************************************************)
(* What the launcher makes of a profile before it starts anything          *)
(* (apps/launcher/core/src/launcher.cpp, BuildLaunchPlan): the plugins in  *)
(* an order in which each comes after those it depends on, the checks that *)
(* refuse a profile, and the arguments of the game.  The module has no     *)
(* state.                                                                  *)
(*                                                                         *)
(* A command line is a function from an option to the values it appears    *)
(* with.  A name that a check only compares is a number: of the country    *)
(* tags, 0 is one that is no normalized tag.                               *)
(***************************************************************************)
EXTENDS Integers, Sequences, FiniteSets, SequencesExt

CONSTANT None  \* an absent setting

Repeats(s) == ~IsInjective(s)
AllIn(s, S) == ToSet(s) \subseteq S
OnlyIf(given, value) == IF given THEN <<value>> ELSE <<>>
\* std::optional: an argument only when the setting is there.
Optional(value) == OnlyIf(value # None, value)
Ordered(start, end) == start = None \/ end = None \/ start <= end

\* ---------------------------------------------------------------------------
\* The selected plugins: `plugins' is a sequence of [id, dependencies, conflicts].

Ids(plugins) == {plugins[i].id : i \in DOMAIN plugins}

PluginsAreCompatible(plugins) ==
    \A i \in DOMAIN plugins :
        /\ plugins[i].dependencies \subseteq Ids(plugins)
        /\ plugins[i].conflicts \cap Ids(plugins) = {}

Requires(plugins, i) == {j \in DOMAIN plugins : plugins[j].id \in plugins[i].dependencies}

(***************************************************************************)
(* The first of the selected plugins that waits for none is placed, and    *)
(* those that waited only for it are ready in their turn.  A plugin on a   *)
(* cycle is never ready and is left out.                                   *)
(***************************************************************************)
DependencyOrder(plugins) ==
    LET Place(st, n) ==
            IF st.ready = {} THEN st
            ELSE LET next == Min(st.ready)
                     freed == {i \in DOMAIN plugins : next \in Requires(plugins, i)}
                     missing == [i \in DOMAIN plugins |-> st.missing[i] - (IF i \in freed THEN 1 ELSE 0)]
                 IN  [ordered |-> Append(st.ordered, next), missing |-> missing,
                      ready |-> (st.ready \ {next}) \cup {i \in freed : missing[i] = 0}]
        missing0 == [i \in DOMAIN plugins |-> Cardinality(Requires(plugins, i))]
        start == [ordered |-> <<>>, missing |-> missing0, ready |-> {i \in DOMAIN plugins : missing0[i] = 0}]
    IN  FoldLeft(Place, start, plugins).ordered

\* ---------------------------------------------------------------------------
\* The campaign: [save, usable, observer, view, speed, paused, detach, days,
\* until, quit, timeout]; `usable' says that the save is a file of the user
\* directory the selected mods determine.

TargetRequested(p) == p.days # None \/ p.until # None

ValidateRunProfile(p) ==
    /\ p.days # None => p.days \in 1 .. 1000000
    /\ p.days = None \/ p.until = None
    /\ p.quit => TargetRequested(p)
    /\ p.timeout \in 1 .. 86400

\* Mutant of the next: observing a campaign that starts paused is not refused.
CampaignIsSound_ObservesPaused(p, selected) ==
    LET controls == p.speed # 5 \/ p.paused \/ TargetRequested(p) \/ p.quit
    IN  /\ ValidateRunProfile(p)
        /\ p.save # None \/ p.observer \/ p.view # None \/ controls => "campaign_runner" \in selected
        /\ controls \/ p.observer => p.save # None
        /\ p.speed \in 1 .. 5
        /\ TargetRequested(p) => ~p.paused /\ p.detach /\ p.view = None
        /\ p.view # None => p.observer /\ p.view # "malformed"
        /\ p.save # None => p.usable

CampaignIsSound(p, selected) ==
    LET controls == p.speed # 5 \/ p.paused \/ TargetRequested(p) \/ p.quit
    IN  /\ ValidateRunProfile(p)
        /\ p.save # None \/ p.observer \/ p.view # None \/ controls => "campaign_runner" \in selected
        /\ controls \/ p.observer => p.save # None
        /\ p.speed \in 1 .. 5
        /\ ~(p.observer /\ p.paused)
        /\ TargetRequested(p) => ~p.paused /\ p.detach /\ p.view = None
        /\ p.view # None => p.observer /\ p.view # "malformed"
        /\ p.save # None => p.usable

\* towupper of a view tag.
Normalized(view) == IF view = "eng" THEN "ENG" ELSE view

CampaignArguments(p) ==
    LET saved == p.save # None
    IN  [save |-> Optional(p.save), speed |-> OnlyIf(saved, p.speed),
         start_paused |-> OnlyIf(saved /\ p.paused, TRUE),
         run_days |-> IF saved THEN Optional(p.days) ELSE <<>>,
         run_until |-> IF saved THEN Optional(p.until) ELSE <<>>,
         run_timeout |-> OnlyIf(saved /\ TargetRequested(p), p.timeout),
         quit_after_run |-> OnlyIf(/\ saved /\ p.quit /\ ValidateRunProfile(p) /\ TargetRequested(p)
                                   /\ ~p.paused /\ p.detach /\ p.view = None, TRUE),
         observe |-> OnlyIf(p.observer, TRUE),
         view_tag |-> OnlyIf(p.view # None /\ p.observer, Normalized(p.view))]

\* ---------------------------------------------------------------------------
\* Scripts: [scripts, budget, memory, capacity]; a script is a usable file of
\* GAME_DIR/scripts, or 0.

ScriptingIsSound(p, selected) ==
    /\ Len(p.scripts) <= 16
    /\ p.budget \in 1000 .. 10000000
    /\ p.memory \in 262144 .. 67108864
    /\ p.capacity \in 16 .. 4096
    /\ 0 \notin ToSet(p.scripts) /\ ~Repeats(p.scripts)
    /\ p.scripts # <<>> => "scripting" \in selected

ScriptingArguments(p) ==
    LET given == p.scripts # <<>>
    IN  [script |-> p.scripts, instruction_budget |-> OnlyIf(given, p.budget),
         memory_bytes |-> OnlyIf(given, p.memory), queue_capacity |-> OnlyIf(given, p.capacity)]

\* ---------------------------------------------------------------------------
\* Telemetry: [enabled, output, categories, tags, start, end, sample_days,
\* capacity, overwrite, rate, captures], with rules [family, cadence, fields,
\* tags, provinces, start, end].

(***************************************************************************)
(* The registry: one family of each kind of flags.  `sales' is a field     *)
(* that some families have only daily, and `flows' the one that has a hook *)
(* installed.                                                              *)
(***************************************************************************)
Family(fields, byTag, byProvince, filtered, daily, dailySales, needsRate) ==
    [fields |-> fields, byTag |-> byTag, byProvince |-> byProvince, filtered |-> filtered,
     daily |-> daily, dailySales |-> dailySales, needsRate |-> needsRate]
MetricFamilies ==
    [world_daily    |-> Family({"other"}, FALSE, FALSE, FALSE, FALSE, FALSE, FALSE),
     world_economy  |-> Family({"other"}, FALSE, FALSE, FALSE, FALSE, FALSE, FALSE),
     country_daily  |-> Family({"other"}, TRUE, FALSE, FALSE, FALSE, FALSE, FALSE),
     country_economy |-> Family({"other"}, TRUE, FALSE, FALSE, FALSE, FALSE, TRUE),
     province_production |-> Family({"other"}, FALSE, TRUE, FALSE, FALSE, FALSE, FALSE),
     pop_artisan    |-> Family({"other", "sales", "flows"}, TRUE, TRUE, FALSE, FALSE, TRUE, FALSE),
     pop_cashflow   |-> Family({"other"}, TRUE, TRUE, TRUE, TRUE, FALSE, FALSE)]

NeedsRate(rule) == rule.family \in DOMAIN MetricFamilies /\ MetricFamilies[rule.family].needsRate
SalesSelected(rule) == rule.fields = <<>> \/ "sales" \in ToSet(rule.fields)
FlowsSelected(rule) == rule.fields = <<>> \/ "flows" \in ToSet(rule.fields)

MetricFamilyValidate(family, daily, rule) ==
    /\ family.daily \/ (family.dailySales /\ SalesSelected(rule)) => daily
    /\ family.filtered => rule.tags # <<>> \/ rule.provinces # <<>>

Cadences == {"daily", "weekly", "monthly", "yearly"}

CaptureIsSound(rule) ==
    /\ rule.family \in DOMAIN MetricFamilies /\ rule.cadence \in Cadences
    /\ LET family == MetricFamilies[rule.family]
       IN  /\ AllIn(rule.fields, family.fields) /\ ~Repeats(rule.fields)
           /\ MetricFamilyValidate(family, rule.cadence = "daily", rule)
           /\ rule.tags # <<>> => family.byTag
           /\ rule.provinces # <<>> => family.byProvince
    /\ 0 \notin ToSet(rule.tags) /\ ~Repeats(rule.tags)
    /\ \A p \in ToSet(rule.provinces) : p >= 0
    /\ ~Repeats(rule.provinces)
    /\ Ordered(rule.start, rule.end)

Categories == {"lifecycle", "state"}
\* A rate is one of five: exactly 0, above it but below half a millionth, ...
Rates == {"zero", "tiny", "half", "thousand", "more"}

ValidateTelemetryProfile(p) ==
    /\ p.output # "empty"
    /\ p.categories # <<>> /\ AllIn(p.categories, Categories) /\ ~Repeats(p.categories)
    /\ 0 \notin ToSet(p.tags) /\ ~Repeats(p.tags)
    /\ Ordered(p.start, p.end)
    /\ p.sample_days \in 1 .. 365 /\ p.capacity \in 64 .. 32768
    /\ p.rate \notin {"zero", "more"}
    /\ Len(p.captures) <= 32
    /\ \A i \in DOMAIN p.captures : CaptureIsSound(p.captures[i])
    /\ \A i, j \in DOMAIN p.captures : p.captures[i].family = p.captures[j].family => i = j
    /\ (\E i \in DOMAIN p.captures : NeedsRate(p.captures[i])) => p.rate # None
    /\ p.captures # <<>> => "state" \in ToSet(p.categories)

\* ValidateTelemetryOutput is about the files there are: only the extension here.
TelemetryIsSound(p, selected) ==
    /\ ValidateTelemetryProfile(p)
    /\ p.enabled => "telemetry" \in selected
    /\ p.enabled /\ p.output # None => p.output = "jsonl"

\* std::to_wstring of a rate has six decimals.
Printed(rate) == IF rate = "tiny" THEN "zero" ELSE rate

(***************************************************************************)
(* The text of a list has commas in it, that of a rule also bars.          *)
(***************************************************************************)
Comma == <<",">>
Bar == <<"|">>
Word(value) == <<"word", value>>
TelemetryCategoriesArgument(items) ==
    [i \in 1 .. (IF items = <<>> THEN 0 ELSE 2 * Len(items) - 1) |->
        IF i % 2 = 0 THEN Comma ELSE Word(items[(i + 1) \div 2])]
TelemetryCaptureArgument(rule) ==
    <<Word(rule.family), Bar, Word(rule.cadence), Bar>> \o TelemetryCategoriesArgument(rule.fields)
      \o <<Bar>> \o TelemetryCategoriesArgument(rule.tags) \o <<Bar>> \o TelemetryCategoriesArgument(rule.provinces)
      \o <<Bar>> \o OnlyIf(rule.start # None, Word(rule.start))
      \o <<Bar>> \o OnlyIf(rule.end # None, Word(rule.end))

\* The output is added when the run has its ID: BuildInjectedCommandLine.
TelemetryArguments(p) ==
    [run_id |-> <<"id">>, output |-> OnlyIf(p.enabled, IF p.output = None THEN "jsonl" ELSE p.output),
     categories |-> OnlyIf(p.enabled, TelemetryCategoriesArgument(p.categories)),
     country_tags |-> OnlyIf(p.enabled /\ p.tags # <<>>, TelemetryCategoriesArgument(p.tags)),
     start_date |-> IF p.enabled THEN Optional(p.start) ELSE <<>>,
     end_date |-> IF p.enabled THEN Optional(p.end) ELSE <<>>,
     rate |-> IF p.enabled /\ p.rate # None THEN <<Printed(p.rate)>> ELSE <<>>,
     sample_days |-> OnlyIf(p.enabled, p.sample_days), queue_capacity |-> OnlyIf(p.enabled, p.capacity),
     overwrite |-> OnlyIf(p.enabled, p.overwrite),
     capture |-> IF p.enabled THEN [i \in DOMAIN p.captures |-> TelemetryCaptureArgument(p.captures[i])] ELSE <<>>]

\* ---------------------------------------------------------------------------
\* QuoteWindowsArgument and BuildWindowsCommandLine, over "a", " ", "q" for the
\* quotation mark and "b" for the backslash.

Copies(n, c) == [i \in 1 .. n |-> c]
QuoteArgument(text) ==
    LET Put(st, c) == IF c = "b" THEN [st EXCEPT !.slashes = @ + 1]
                      ELSE [slashes |-> 0,
                            out |-> st.out \o Copies(IF c = "q" THEN 2 * st.slashes + 1 ELSE st.slashes, "b") \o <<c>>]
        all == FoldLeft(Put, [slashes |-> 0, out |-> <<"q">>], text)
    IN  IF text # <<>> /\ {" ", "q"} \cap ToSet(text) = {} THEN text
        ELSE all.out \o Copies(2 * all.slashes, "b") \o <<"q">>
CommandLine(texts) == FoldLeft(LAMBDA line, text : (IF line = <<>> THEN line ELSE line \o <<" ">>) \o QuoteArgument(text),
                               <<>>, texts)
=============================================================================
