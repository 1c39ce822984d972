-------------------------- MODULE PluginArguments --------------------------
(***************************************************************************)
(* What the plugins make of the game's command line: the campaign runner's *)
(* ParseCampaignLaunchArguments, the telemetry and the scripting plugin's  *)
(* ParseLaunchArguments and ValidateConfig, and the load of the telemetry  *)
(* plugin as far as it depends on them.  Each is a check of its own of     *)
(* what the launcher has checked (LaunchPlan).  The module has no state.   *)
(***************************************************************************)
EXTENDS LaunchPlan

\* Every parser refuses a second value of an option that has one.
Once(arguments, options) == \A o \in options : Len(arguments[o]) <= 1
Given(values) == values # <<>>
Read(values, default) == IF values = <<>> THEN default ELSE values[1]
Refused == [accepted |-> FALSE]

\* ---------------------------------------------------------------------------
ParseCampaignLaunchArguments(arguments) ==
    LET a == arguments
        requested == Given(a.run_days) \/ Given(a.run_until)
    IN  IF /\ Once(a, DOMAIN a)
           /\ Given(a.speed) => a.speed[1] \in 1 .. 5
           /\ Given(a.run_days) => a.run_days[1] \in 1 .. 1000000
           /\ Given(a.run_timeout) => a.run_timeout[1] \in 1 .. 86400
           /\ Given(a.speed) \/ Given(a.start_paused) \/ requested \/ Given(a.observe) => Given(a.save)
           /\ Given(a.view_tag) => Given(a.observe)
           /\ ~(Given(a.observe) /\ Given(a.start_paused))
           /\ ~(Given(a.run_days) /\ Given(a.run_until))
           /\ requested => ~Given(a.start_paused) /\ ~Given(a.view_tag)
           /\ Given(a.quit_after_run) => requested
        THEN [accepted |-> TRUE, save |-> Read(a.save, None), view |-> Read(a.view_tag, None),
              speed |-> Read(a.speed, 5), paused |-> Given(a.start_paused), observer |-> Given(a.observe),
              days |-> Read(a.run_days, None), until |-> Read(a.run_until, None),
              timeout |-> Read(a.run_timeout, 600), quit |-> Given(a.quit_after_run)]
        ELSE Refused

\* ---------------------------------------------------------------------------
\* The scripting plugin asks for its three limits as soon as there is a script.
ScriptingConfig(arguments) ==
    LET a == arguments
        limits == {"instruction_budget", "memory_bytes", "queue_capacity"}
    IN  IF /\ Once(a, limits) /\ \A o \in limits : Given(a[o])
           /\ a.instruction_budget[1] \in 1000 .. 10000000
           /\ a.memory_bytes[1] \in 262144 .. 67108864
           /\ a.queue_capacity[1] \in 16 .. 4096
           /\ Len(a.script) \in 1 .. 16 /\ ~Repeats(a.script)
        THEN [accepted |-> TRUE, scripts |-> a.script, budget |-> a.instruction_budget[1],
              memory |-> a.memory_bytes[1], capacity |-> a.queue_capacity[1]]
        ELSE Refused

\* ---------------------------------------------------------------------------
\* The parts of a text between its separators: one more than there are of them.
Split(text, separator) ==
    FoldLeft(LAMBDA parts, c : IF c = separator THEN Append(parts, <<>>)
                               ELSE [parts EXCEPT ![Len(parts)] = Append(@, c)],
             <<<<>>>>, text)

\* Items of a list, none for the empty text.  An empty item is refused.
Items(text) == IF text = <<>> THEN <<>> ELSE Split(text, Comma)
NoEmptyItem(text) == \A i \in DOMAIN Items(text) : Len(Items(text)[i]) = 1
ParseList(text) == [i \in DOMAIN Items(text) |-> Items(text)[i][1][2]]
ParseInteger(text) == IF text = <<>> THEN None ELSE text[1][2]

ParseCaptureRule(text) ==
    LET parts == Split(text, Bar)
    IN  IF Len(parts) = 7 /\ parts[1] # <<>> /\ parts[2] # <<>> /\ \A i \in 3 .. 5 : NoEmptyItem(parts[i])
        THEN [accepted |-> parts[2][1][2] \in Cadences,
              rule |-> [family |-> parts[1][1][2], cadence |-> parts[2][1][2], fields |-> ParseList(parts[3]),
                        tags |-> ParseList(parts[4]), provinces |-> ParseList(parts[5]),
                        start |-> ParseInteger(parts[6]), end |-> ParseInteger(parts[7])]]
        ELSE Refused

RuleIsValid(rule, daily) ==
    /\ rule.family \in DOMAIN MetricFamilies
    /\ LET family == MetricFamilies[rule.family]
       IN  /\ AllIn(rule.fields, family.fields) /\ ~Repeats(rule.fields)
           /\ MetricFamilyValidate(family, daily, rule)
           /\ rule.tags # <<>> => family.byTag
           /\ rule.provinces # <<>> => family.byProvince
    /\ Ordered(rule.start, rule.end)
    /\ 0 \notin ToSet(rule.tags) /\ ~Repeats(rule.tags)
    /\ (\A p \in ToSet(rule.provinces) : p >= 0) /\ ~Repeats(rule.provinces)

ValidateConfig(c) ==
    /\ c.output = "jsonl"
    /\ c.categories # <<>> /\ AllIn(c.categories, Categories)
    /\ 0 \notin ToSet(c.tags) /\ ~Repeats(c.tags)
    /\ Ordered(c.start, c.end)
    /\ c.sample_days \in 1 .. 365 /\ c.capacity \in 64 .. 32768
    /\ c.rate \notin {"zero", "more"}
    /\ Len(c.captures) <= 32
    /\ c.captures # <<>> => "state" \in ToSet(c.categories)
    /\ \A i \in DOMAIN c.captures :
           LET rule == c.captures[i]
           IN  RuleIsValid(rule, rule.cadence = "daily" \/ (rule.cadence = "fixed" /\ c.sample_days = 1))
    /\ (\E i \in DOMAIN c.captures : NeedsRate(c.captures[i])) => c.rate # None

\* What is captured of the state when no rule says it.
LegacyRule(c, family) ==
    [family |-> family, cadence |-> "fixed", fields |-> <<>>, provinces |-> <<>>, start |-> c.start, end |-> c.end,
     tags |-> IF family = "country_daily" THEN c.tags ELSE <<>>]
Legacy(c) == <<LegacyRule(c, "world_daily"), LegacyRule(c, "world_economy"), LegacyRule(c, "country_daily")>>

TelemetryConfig(arguments) ==
    LET a == arguments
        needed == {"run_id", "output", "categories", "sample_days", "queue_capacity", "overwrite"}
        list(text) == NoEmptyItem(text) /\ ~Repeats(ParseList(text))
        rules == [i \in DOMAIN a.capture |-> ParseCaptureRule(a.capture[i])]
        asked == [output |-> a.output[1], categories |-> ParseList(a.categories[1]),
                  tags |-> IF Given(a.country_tags) THEN ParseList(a.country_tags[1]) ELSE <<>>,
                  start |-> Read(a.start_date, None), end |-> Read(a.end_date, None),
                  sample_days |-> a.sample_days[1], capacity |-> a.queue_capacity[1],
                  overwrite |-> a.overwrite[1], rate |-> Read(a.rate, None),
                  captures |-> [i \in DOMAIN rules |-> rules[i].rule]]
        config == IF asked.captures = <<>> /\ "state" \in ToSet(asked.categories)
                  THEN [asked EXCEPT !.captures = Legacy(asked)] ELSE asked
    IN  IF /\ Once(a, DOMAIN a \ {"capture"}) /\ \A o \in needed : Given(a[o])
           /\ a.categories[1] # <<>> /\ list(a.categories[1])
           /\ Given(a.country_tags) => a.country_tags[1] # <<>> /\ list(a.country_tags[1])
           /\ \A i \in DOMAIN rules : rules[i].accepted
           /\ \A i, j \in DOMAIN rules : rules[i].rule.family = rules[j].rule.family => i = j
           /\ ValidateConfig(config)
        THEN [accepted |-> TRUE, config |-> config]
        ELSE Refused

\* BuildRuntimePlan and OnLoad: the artisans' hook has room for sixteen tags.
HooksFit(config) == \A i \in DOMAIN config.captures :
    config.captures[i].family = "pop_artisan" /\ FlowsSelected(config.captures[i])
       => Len(config.captures[i].tags) \in 1 .. 16

\* ---------------------------------------------------------------------------
\* CommandLineToArgvW of the system: backslashes before a quotation mark count
\* for half.  Two marks in a row inside a part mean something else, which the
\* launcher never writes, and are left out.
Argv(line) ==
    LET Flushed(st, n) == [st EXCEPT !.word = @ \o Copies(n, "b"), !.slashes = 0, !.open = TRUE]
        Put(st, c) ==
            CASE c = "b" -> [st EXCEPT !.slashes = @ + 1]
              [] c = "q" /\ st.slashes % 2 = 1 -> [Flushed(st, st.slashes \div 2) EXCEPT !.word = Append(@, "q")]
              [] c = "q" /\ st.slashes % 2 = 0 -> [Flushed(st, st.slashes \div 2) EXCEPT !.quoted = ~@]
              [] c = " " /\ ~st.quoted ->
                     [st EXCEPT !.words = IF st.open \/ st.slashes > 0 THEN Append(@, Flushed(st, st.slashes).word) ELSE @,
                                !.word = <<>>, !.open = FALSE, !.slashes = 0]
              [] OTHER -> [Flushed(st, st.slashes) EXCEPT !.word = Append(@, c)]
        all == FoldLeft(Put, [words |-> <<>>, word |-> <<>>, open |-> FALSE, quoted |-> FALSE, slashes |-> 0], line)
    IN  IF all.open \/ all.slashes > 0 THEN Append(all.words, Flushed(all, all.slashes).word) ELSE all.words
=============================================================================
