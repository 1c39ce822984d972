--------------------------- MODULE CampaignRunner ---------------------------
(***************************************************************************)
(* The campaign runner plugin (src/plugins/campaign_runner/src): it takes  *)
(* the game from the main menu into a save, hands the player's country to  *)
(* the AI when it is to observe, sets speed and pause, watches the running *)
(* game, and ends a benchmark at its target date.                          *)
(*                                                                         *)
(* Everything is done by the callback of one Windows timer, on the thread  *)
(* of the game's user interface and under launcher_callback_mutex.  The    *)
(* simulation does not wait for it: days pass between the callback's reads *)
(* of the game and what it does on them, so a callback is several steps    *)
(* and pc says which one is next.  seen is what it read of the game.       *)
(* Every call into the kernel may fail.                                    *)
(*                                                                         *)
(* The plugin's telemetry is the sequence trace, in the records of         *)
(* BenchmarkTrace, which is what smedley_trace makes of them.              *)
(***************************************************************************)
EXTENDS BenchmarkTrace

CONSTANTS
  Countries,   \* their ordinals; the player's is the smallest
  Start,       \* the date of the save
  MaxDate,     \* the simulation stops here (bound)
  Tries,       \* how often a step is retried: 24 or 30 times in the code
  MaxDeeds,    \* what the player and the world do to a run (bound)
  Configs      \* launches: [observe, view, paused, quit, days, target], and whether
               \* the telemetry plugin is there (sink)

NativeTag == 0    \* the blocked tag command, in place of a country to switch to
Snapshots == [date : Start .. MaxDate, paused : BOOLEAN, over : BOOLEAN]
Launches  == [observe : BOOLEAN, view : Int \cup {None}, paused : BOOLEAN, quit : BOOLEAN,
              days : Int \cup {None}, target : Int \cup {None}, sink : BOOLEAN]
Verdicts  == FailureReasons \cup {"complete"}

ASSUME RunnerAssumption ==
  /\ IsFiniteSet(Countries) /\ Countries \subseteq Int \ {NativeTag}
  /\ \E c \in Countries : \A d \in Countries : c <= d
  /\ Start \in Int /\ MaxDate \in Int /\ Start <= MaxDate
  /\ Tries \in Nat /\ MaxDeeds \in Nat
  /\ Configs \subseteq Launches
  /\ None \notin Int \cup BOOLEAN \cup Verdicts \cup Snapshots

VARIABLES
  cfg,      \* the launch arguments
  r,        \* the launcher's fields
  b,        \* benchmark_, its BenchmarkController
  timer,    \* save_timer_ is armed
  pc,       \* the callback's next step; "idle" when it does not run
  seen,     \* the callback's CampaignRuntimeSnapshot
  game,     \* the game's side
  con,      \* console_capture_status_ and console_request_state_
  trace,    \* the records telemetry took
  late      \* the benchmark's timeout has passed

vars == <<cfg, r, b, timer, pc, seen, game, con, trace, late>>

Player == CHOOSE c \in Countries : \A d \in Countries : c <= d

\* What ParseCampaignLaunchArguments and Start both refuse.
Bounded(c) == c.days # None \/ c.target # None
ArgumentsAgree(c) ==
  /\ c.view # None => c.observe
  /\ c.observe => ~c.paused
  /\ Bounded(c) => ~c.paused /\ c.view = None
  /\ c.days = None \/ c.target = None
  /\ c.quit => Bounded(c)

NoLauncher ==
  [alive |-> TRUE, front |-> FALSE, lobby |-> FALSE, selected |-> FALSE, saveTries |-> 0,
   play |-> FALSE, campTries |-> 0, tries |-> 0, console |-> FALSE, ai |-> FALSE,
   speed |-> FALSE, recorded |-> FALSE, monitoring |-> FALSE,
   pending |-> FALSE, target |-> None, aiBefore |-> 0, popups |-> FALSE,
   started |-> FALSE, terminal |-> FALSE, unclean |-> FALSE,
   observe |-> FALSE, view |-> None]

NoController == [active |-> FALSE, start |-> None, target |-> None, prev |-> None,
                 held |-> FALSE, verdict |-> None]

MainMenu == [phase |-> "menu", request |-> FALSE, loaded |-> FALSE, date |-> Start,
             paused |-> TRUE, over |-> FALSE, view |-> Player, human |-> {Player},
             ai |-> Countries \ {Player}, living |-> Countries, fog |-> TRUE,
             switch |-> None, console |-> FALSE, quit |-> FALSE, orphan |-> FALSE, deeds |-> 0]

Init ==
  /\ cfg \in {c \in Configs : ArgumentsAgree(c)}
  /\ r = [NoLauncher EXCEPT !.observe = cfg.observe, !.view = cfg.view]
  /\ b = NoController /\ timer = FALSE /\ pc = "idle" /\ seen = None
  /\ game = MainMenu /\ con = [capture |-> None, request |-> None]
  /\ trace = <<>> /\ late = FALSE

-----------------------------------------------------------------------------
(* Telemetry (campaign_telemetry.cpp): each kind of record is sent once.   *)

Rec(event) == [event |-> event, date |-> None, start |-> None, target |-> None,
               actual |-> None, days |-> None, late |-> None, reason |-> None, paused |-> None]

Kind(event) == IF event \in Terminals THEN "terminal" ELSE event
Sent(kind) == \E i \in DOMAIN trace : Kind(trace[i].event) = kind
With(t, rec) == IF cfg.sink /\ ~Sent(Kind(rec.event)) THEN Append(t, rec) ELSE t
Emit(rec) == trace' = With(trace, rec)

PauseConfigured(paused) == [Rec("pause.configured") EXCEPT !.paused = paused]
BenchmarkStarted(start, target) ==
  [Rec("benchmark.started") EXCEPT !.date = start, !.start = start, !.target = target,
                                   !.days = (target - start) \div Day]
Resources(actual) == [Rec("benchmark.resources") EXCEPT !.date = actual]
Completed(actual) ==
  [Rec("benchmark.completed") EXCEPT !.date = actual, !.actual = actual, !.paused = TRUE,
     !.start = b.start, !.target = b.target, !.days = (b.target - b.start) \div Day]
Failed(start, target, actual, reason, paused) ==
  [Rec("benchmark.failed") EXCEPT !.date = actual, !.actual = actual, !.paused = paused,
     !.start = start, !.target = target, !.reason = reason, !.late = late]

-----------------------------------------------------------------------------
(* The kernel's campaign operations (game_state/src/runtime.cpp).          *)

InCampaign == game.phase = "campaign"
HealthyAI(g, c) == c \in g.living /\ c \notin g.human /\ c \in g.ai
Pausing(g, paused, ok) == IF ok THEN [g EXCEPT !.paused = paused] ELSE g

Controlled(g, c) == c \in g.living /\ c \in g.human /\ c \notin g.ai
ReturnedToAI(g, c) == [g EXCEPT !.human = @ \ {c}, !.ai = @ \cup {c}]

\* ObserverInvariantsValid
ObserverValid == r.ai /\ ~r.pending /\ game.human = {} /\ ~game.fog /\ HealthyAI(game, game.view)

\* StartNativeObserverTagSwitch: the game switches later (TagSwitch).
Switching(g, c) == [g EXCEPT !.switch = c]

-----------------------------------------------------------------------------
(* Steps every path shares.                                                *)

Deed == game.deeds < MaxDeeds
Done(g) == [g EXCEPT !.deeds = @ + 1]
Kept == UNCHANGED <<cfg, late>>
Quiet == Kept /\ UNCHANGED <<b, con, trace>>
Goto(step) == pc' = step /\ seen' = IF step = "idle" THEN None ELSE seen

\* ScheduleTimer and return; SetTimer may fail.
Rearm == Goto("idle") /\ timer' \in BOOLEAN

\* FinishBenchmark: the terminal record, after the resources if any could be sampled.
Finish(reason, actual, paused) ==
  /\ r' = [r EXCEPT !.terminal = TRUE, !.monitoring = FALSE, !.popups = FALSE]
  /\ timer' = FALSE
  /\ \E sampled \in BOOLEAN :
       trace' = With(IF sampled THEN With(trace, Resources(actual)) ELSE trace,
                     IF reason = None THEN Completed(actual)
                     ELSE Failed(b.start, b.target, actual, reason, paused))
  /\ Goto(IF cfg.quit /\ reason \in {None, "game_over"} THEN "quit" ELSE "idle")

\* Mutant: the country the switch left to the player is not given back, nor reported.
StopMonitoring_Silent(g, restore) ==
  /\ game' = g /\ timer' = FALSE /\ pc' = "idle" /\ seen' = None
  /\ r' = [r EXCEPT !.monitoring = FALSE, !.popups = FALSE, !.pending = FALSE, !.target = None]

\* stop_monitoring: restore is whether the target is returned to the AI first.
StopMonitoring(g, restore) ==
  \E ok \in BOOLEAN :
    LET returns == restore /\ ok /\ r.target # None /\ Controlled(g, r.target)
        after == IF returns THEN ReturnedToAI(g, r.target) ELSE g
    IN /\ game' = after
       /\ timer' = FALSE
       /\ r' = [r EXCEPT !.monitoring = FALSE, !.popups = FALSE, !.pending = FALSE,
                         !.target = None, !.unclean = after.human # {} \/ ~ok]
       /\ Goto("idle")

-----------------------------------------------------------------------------
(* Before the campaign.                                                    *)

\* OnFrontendControllerCaptured
FrontendCaptured ==
  /\ pc = "idle" /\ r.alive /\ game.phase = "menu"
  /\ ~timer /\ r.saveTries = 0
  /\ timer' \in BOOLEAN
  /\ Quiet /\ UNCHANGED <<r, pc, seen, game>>

\* QueueConsoleCommand: one request at a time, whatever it asks.
ConsoleCommand ==
  /\ game.console /\ InCampaign /\ con.request = None /\ Deed
  /\ \E tag \in Countries \cup {NativeTag} : con' = [con EXCEPT !.request = tag]
  /\ game' = Done(game)
  /\ Kept /\ UNCHANGED <<r, b, timer, pc, seen, trace>>

\* DrainHookWork up to the request, then the test for a timer no longer needed.
TimerFires ==
  /\ timer /\ pc = "idle" /\ r.alive
  /\ con' = [capture |-> None, request |-> IF con.request = NativeTag THEN None ELSE con.request]
  /\ r' = [r EXCEPT !.console = @ \/ con.capture = "completed"]
  /\ pc' = IF con'.request # None THEN "request" ELSE IF r.play THEN "read" ELSE "frontend"
  /\ timer' = ~(con'.request = None /\ r.play /\ ~r.monitoring /\ ~b.active)
  /\ Kept /\ UNCHANGED <<b, seen, game, trace>>

\* RequestObserverSwitch: its checks in order, then the pause and the native command.
MaySwitch(c) ==
  /\ r.monitoring /\ ~r.pending /\ InCampaign
  /\ c \in game.living /\ c # game.view /\ HealthyAI(game, c)

RequestSwitch(c, Refused(_), Requested(_, _)) ==
  \/ Refused(game)
  \/ MaySwitch(c) /\ game.console /\
       Requested([r EXCEPT !.pending = TRUE, !.target = c, !.tries = 0,
                           !.aiBefore = Cardinality(game.ai)],
                 Switching([game EXCEPT !.paused = TRUE], c))
  \/ MaySwitch(c) /\ \E resumed \in BOOLEAN :   \* the command fails: unpaused only if paused here
       Refused([game EXCEPT !.paused = @ \/ ~resumed])

DrainConsoleRequest ==
  LET Refused(g) == game' = g /\ UNCHANGED r
      Requested(launcher, g) == r' = launcher /\ game' = g
  IN /\ pc = "request"
     /\ RequestSwitch(con.request, Refused, Requested)
     /\ con' = [con EXCEPT !.request = None]
     /\ pc' = IF r.play THEN "read" ELSE "frontend"
     /\ timer' = ~(r.play /\ ~r.monitoring /\ ~b.active)
     /\ Kept /\ UNCHANGED <<b, seen, trace>>

AcquireController ==
  /\ pc = "frontend" /\ (~r.front \/ ~r.lobby) /\ Rearm
  /\ UNCHANGED <<r, game>> /\ Quiet

SinglePlayer ==
  /\ pc = "frontend" /\ ~r.lobby /\ game.phase = "menu"
  /\ \/ r' = [r EXCEPT !.front = TRUE, !.lobby = TRUE] /\ Rearm
     \/ r' = [r EXCEPT !.front = TRUE] /\ Goto("idle") /\ UNCHANGED timer   \* the signal failed
  /\ UNCHANGED game /\ Quiet

SelectSave ==
  /\ pc = "frontend" /\ r.front /\ r.lobby /\ ~r.selected
  /\ \/ /\ game.phase = "menu" /\ ~game.request /\ ~game.loaded
        /\ r' = [r EXCEPT !.selected = TRUE] /\ game' = [game EXCEPT !.request = TRUE]
        /\ Emit(Rec("campaign.save_selection_requested")) /\ Rearm
     \/ Goto("idle") /\ UNCHANGED <<r, game, timer, trace>>
  /\ Kept /\ UNCHANGED <<b, con>>

CheckSave ==
  /\ pc = "frontend" /\ r.selected
  /\ \/ Goto("idle") /\ UNCHANGED <<r, game, timer, trace>>
     \/ /\ game.loaded /\ ~game.request
        /\ Emit(Rec("campaign.save_load_completed"))
        /\ \/ /\ r' = [r EXCEPT !.play = TRUE, !.front = FALSE]
              /\ game' = [game EXCEPT !.phase = "loading"] /\ Rearm
           \/ Goto("idle") /\ UNCHANGED <<r, game, timer>>
     \/ /\ ~game.loaded
        /\ r' = [r EXCEPT !.saveTries = @ + 1]
        /\ IF r'.saveTries < Tries THEN Rearm ELSE Goto("idle") /\ UNCHANGED timer
        /\ UNCHANGED <<game, trace>>
  /\ r.saveTries < Tries   \* a periodic timer goes on checking (bound)
  /\ Kept /\ UNCHANGED <<b, con>>

-----------------------------------------------------------------------------
(* The campaign, as the callback reads it.                                 *)

ReadUnavailable ==
  /\ pc = "read"
  /\ IF b.active
     THEN Finish("idler_unavailable", None, None) /\ b' = [b EXCEPT !.active = FALSE]
     ELSE /\ IF r.monitoring
             THEN /\ r' = [r EXCEPT !.monitoring = FALSE, !.popups = FALSE]
                  /\ timer' = FALSE /\ Goto("idle")
             ELSE /\ r' = [r EXCEPT !.campTries = IF @ < Tries THEN @ + 1 ELSE @]
                  /\ IF r'.campTries < Tries THEN Rearm ELSE Goto("idle") /\ UNCHANGED timer
          /\ UNCHANGED <<b, trace>>
  /\ Kept /\ UNCHANGED <<con, game>>

Snapshot == [date |-> game.date, paused |-> game.paused, over |-> game.over]
AfterBench == IF r.monitoring THEN "watch" ELSE IF r.observe THEN "configure" ELSE "speed"

ReadCampaign ==
  /\ pc = "read" /\ InCampaign
  /\ IF game.over
     THEN /\ IF Bounded(cfg)
             THEN r' = [r EXCEPT !.popups = FALSE]
                  /\ seen' = Snapshot /\ pc' = "gameover" /\ UNCHANGED timer
             ELSE r' = [r EXCEPT !.popups = FALSE, !.monitoring = FALSE]
                  /\ timer' = FALSE /\ Goto("idle")
          /\ UNCHANGED trace
     ELSE LET recovery == r.monitoring /\ game.paused
          IN /\ seen' = Snapshot
             /\ Emit(Rec("campaign.entered"))
             /\ pc' = IF b.active /\ (game.date = b.target \/ ~recovery) THEN "bench"
                      ELSE AfterBench
             /\ UNCHANGED <<r, timer>>
  /\ Kept /\ UNCHANGED <<b, con, game>>

\* Mutant: the timeout is forgotten while the date does not move.
Verdict_NoTimeout(valid) ==
  IF seen.over THEN "game_over"
  ELSE IF ~valid THEN "observer_invariant_failed"
  ELSE IF seen.date < b.prev THEN "date_regressed"
  ELSE IF seen.date > b.target THEN "date_overshoot"
  ELSE IF seen.date = b.target /\ seen.paused /\ b.held THEN "complete"
  ELSE IF seen.date # b.target /\ seen.paused THEN "unexpected_pause"
  ELSE None

\* BenchmarkController::Observe
Verdict(valid) ==
  IF seen.over THEN "game_over"
  ELSE IF ~valid THEN "observer_invariant_failed"
  ELSE IF seen.date < b.prev THEN "date_regressed"
  ELSE IF seen.date > b.target THEN "date_overshoot"
  ELSE IF seen.date = b.target /\ seen.paused /\ b.held THEN "complete"
  ELSE IF seen.date # b.target /\ seen.paused THEN "unexpected_pause"
  ELSE IF late THEN "timeout"
  ELSE None

\* TickBenchmark up to its decision.
TickBenchmark ==
  /\ pc \in {"bench", "gameover"} /\ b.active /\ ~r.terminal
  /\ LET verdict == Verdict(pc = "gameover" \/ ~cfg.observe \/ ObserverValid)
         there == seen.date = b.target
     IN IF verdict # None
        THEN /\ b' = [b EXCEPT !.active = FALSE, !.verdict = verdict] /\ Goto("stop")
             /\ UNCHANGED <<r, timer, game, trace>>
        ELSE /\ b' = [b EXCEPT !.prev = seen.date, !.held = there /\ seen.paused]
             /\ \/ /\ game' = IF there THEN Pausing(game, TRUE, ~seen.paused) ELSE game
                   /\ Goto(IF there THEN "idle" ELSE AfterBench) /\ UNCHANGED <<r, timer, trace>>
                \/ /\ there /\ ~seen.paused
                   /\ Finish("pause_failed", seen.date, None) /\ UNCHANGED game
  /\ Kept /\ UNCHANGED con

\* Mutant: the quit is part of the pause that ends the benchmark.
PauseTakes_Quits == game' = [game EXCEPT !.paused = TRUE, !.quit = TRUE]

\* TickBenchmark after it: pause, read again, and let the second reading decide.
PauseTakes == \E ok \in BOOLEAN : game' = Pausing(game, TRUE, ok)

\* Mutant: the first reading of the date decides how the benchmark ended.
StopBenchmark_FirstReading ==
  /\ pc = "stop" /\ PauseTakes
  /\ IF ~game'.paused THEN Finish("pause_failed", seen.date, FALSE)
     ELSE Finish(IF b.verdict = "complete" THEN None ELSE b.verdict, game.date, TRUE)
  /\ Kept /\ UNCHANGED <<b, con>>

StopBenchmark ==
  /\ pc = "stop" /\ PauseTakes
  /\ LET read(ok) == IF ok THEN game.date ELSE seen.date
     IN \E ok \in {TRUE, InCampaign} :
          IF ~ok \/ ~game'.paused
          THEN Finish("pause_failed", read(ok), IF ok THEN FALSE ELSE None)
          ELSE IF b.verdict # "complete" THEN Finish(b.verdict, game.date, TRUE)
          ELSE Finish(IF game.date = b.target THEN None
                      ELSE IF game.date < b.target THEN "date_regressed" ELSE "date_overshoot",
                      game.date, TRUE)
  /\ Kept /\ UNCHANGED <<b, con>>

\* StartBenchmark
Target == IF cfg.days # None THEN seen.date + cfg.days * Day ELSE cfg.target
StartsBenchmark == Bounded(cfg) /\ ~r.started /\ ~r.terminal

BeginBenchmark ==
  /\ pc \in {"begin", "gameover"} /\ StartsBenchmark
  /\ IF Reachable(seen.date, Target)
     THEN /\ b' = [NoController EXCEPT !.active = TRUE, !.start = seen.date,
                                       !.target = Target, !.prev = seen.date]
          /\ r' = [r EXCEPT !.started = TRUE]
          /\ Emit(BenchmarkStarted(seen.date, Target))
          /\ \/ timer' = TRUE /\ (IF pc = "begin" THEN Goto("idle") ELSE UNCHANGED <<pc, seen>>)
             \/ timer' = FALSE /\ Goto("untimed")
     ELSE /\ r' = [r EXCEPT !.terminal = TRUE, !.monitoring = FALSE, !.popups = FALSE]
          /\ timer' = FALSE /\ Goto("invalid") /\ UNCHANGED <<b, trace>>
  /\ Kept /\ UNCHANGED <<con, game>>

NoBenchmarkToStart ==
  /\ pc \in {"begin", "gameover"} /\ ~StartsBenchmark
  /\ pc = "gameover" => ~(b.active /\ ~r.terminal)
  /\ Goto("idle") /\ UNCHANGED <<r, timer, game>> /\ Quiet

FinishInvalidBenchmark ==
  /\ pc = "invalid" /\ PauseTakes
  /\ \E ok \in {TRUE, InCampaign} :
       LET actual == IF ok THEN game.date ELSE seen.date
       IN Emit(Failed(actual, IF cfg.target # None THEN cfg.target ELSE actual, actual,
                      "invalid_target", IF ok /\ game'.paused THEN TRUE ELSE None))
  /\ Goto("idle") /\ Kept /\ UNCHANGED <<r, b, timer, con>>

TimerUnavailable ==
  /\ pc = "untimed" /\ PauseTakes
  /\ \E ok \in {TRUE, InCampaign} :
       Finish("timer_unavailable", IF ok THEN game.date ELSE None,
              IF ok /\ game'.paused THEN TRUE ELSE None)
  /\ Kept /\ UNCHANGED <<b, con>>

\* QuitAfterRun: only after a drain that ended, or with nothing to drain.
Quit ==
  /\ pc = "quit"
  /\ \E drain \in {"completed", "unavailable", "busy", "timeout", "failed"} :
       /\ drain = "unavailable" => ~cfg.sink
       /\ \/ drain \in {"completed", "unavailable"} /\ InCampaign /\ game' = [game EXCEPT !.quit = TRUE]
          \/ UNCHANGED game
  /\ Goto("idle") /\ UNCHANGED <<r, timer>> /\ Quiet

-----------------------------------------------------------------------------
(* Configuration after the campaign was entered.                           *)

GiveUp == Goto("idle") /\ UNCHANGED timer

WaitForConsole ==
  /\ r' = [r EXCEPT !.tries = IF @ < Tries THEN @ + 1 ELSE @]
  /\ IF r'.tries < Tries THEN Rearm ELSE GiveUp

ConfigureObserver ==
  /\ pc = "configure"
  /\ IF ~r.console THEN WaitForConsole /\ UNCHANGED game
     ELSE \/ /\ game' = IF seen.paused THEN game ELSE [game EXCEPT !.paused = TRUE]
             /\ r' = [r EXCEPT !.tries = 0] /\ Goto("handover") /\ UNCHANGED timer
          \/ ~seen.paused /\ GiveUp /\ r' = [r EXCEPT !.tries = 0] /\ UNCHANGED game
  /\ Quiet

HandOver ==
  /\ pc = "handover"
  /\ \/ r.ai /\ Goto("fog") /\ UNCHANGED <<r, timer, game>>
     \/ /\ ~r.ai /\ Controlled(game, game.view)
        /\ game' = ReturnedToAI(game, game.view)
        /\ IF game'.human = {} THEN r' = [r EXCEPT !.ai = TRUE] /\ Goto("fog") /\ UNCHANGED timer
           ELSE GiveUp /\ UNCHANGED r
     \/ ~r.ai /\ GiveUp /\ UNCHANGED <<r, game>>
  /\ Quiet

LiftFog ==
  /\ pc = "fog"
  /\ \/ GiveUp /\ UNCHANGED <<r, game>>
     \/ game.fog /\ ~game.console /\ WaitForConsole /\ UNCHANGED game
     \/ /\ game.fog => game.console
        /\ game' = [game EXCEPT !.fog = FALSE]
        /\ r' = [r EXCEPT !.observe = FALSE, !.popups = TRUE]
        /\ Goto("speed") /\ UNCHANGED timer
  /\ Quiet

SelectSpeed ==
  /\ pc = "speed"
  /\ \/ r.speed /\ Goto("release") /\ UNCHANGED <<r, timer, trace>>
     \/ ~r.speed /\ r' = [r EXCEPT !.speed = TRUE] /\ Emit(Rec("speed.configured"))
          /\ Goto("release") /\ UNCHANGED timer
     \/ ~r.speed /\ r' = [r EXCEPT !.popups = FALSE] /\ GiveUp /\ UNCHANGED trace
  /\ Kept /\ UNCHANGED <<b, con, game>>

RecordPause(paused) == IF r.recorded THEN trace ELSE With(trace, PauseConfigured(paused))

\* After the campaign was left running: the watchdog's timer, then the benchmark.
Released(t) ==
  \E armed \in BOOLEAN :
    LET watching == r.ai /\ armed
    IN /\ timer' = IF r.ai THEN armed ELSE timer
       /\ r' = [r EXCEPT !.recorded = TRUE, !.monitoring = watching, !.popups = @ /\ watching]
       /\ trace' = IF ObserverValid THEN With(t, Rec("observer.configured")) ELSE t
       /\ pc' = "begin"

Release ==
  /\ pc = "release"
  /\ IF cfg.paused
     THEN \/ /\ game' = [game EXCEPT !.paused = TRUE] /\ r' = [r EXCEPT !.recorded = TRUE]
             /\ trace' = RecordPause(TRUE) /\ GiveUp
          \/ ~seen.paused /\ r' = [r EXCEPT !.popups = FALSE] /\ GiveUp /\ UNCHANGED <<game, trace>>
     ELSE \/ /\ game' = IF seen.paused THEN [game EXCEPT !.paused = FALSE] ELSE game
             /\ Released(RecordPause(FALSE)) /\ UNCHANGED seen
          \/ seen.paused /\ r' = [r EXCEPT !.popups = FALSE] /\ GiveUp /\ UNCHANGED <<game, trace>>
  /\ Kept /\ UNCHANGED <<b, con>>

-----------------------------------------------------------------------------
(* The observer's watchdog.                                                *)

WatchLater ==     \* next_observer_watchdog_us_
  /\ pc = "watch" /\ b.active
  /\ Goto("idle") /\ UNCHANGED <<r, timer, game>> /\ Quiet

WatchView ==      \* the view tag of the launch
  LET Refused(g) == StopMonitoring(g, FALSE)
      Requested(launcher, g) ==
        r' = [launcher EXCEPT !.view = None] /\ game' = g /\ Goto("idle") /\ UNCHANGED timer
  IN /\ pc = "watch" /\ r.view # None /\ ~r.pending
     /\ RequestSwitch(r.view, Refused, Requested)
     /\ Quiet

FailsOver(read) == r.pending \/ ~read \/ game.view \notin game.living
Watching == pc = "watch" /\ (r.view = None \/ r.pending)

WatchFailover ==
  /\ Watching /\ ~r.pending
  /\ \E read \in {TRUE, FALSE} :
       /\ FailsOver(read)
       /\ LET held == [game EXCEPT !.paused = TRUE]
          IN \/ StopMonitoring(game, FALSE)      \* it cannot pause
             \/ StopMonitoring(held, FALSE)      \* no console, no country, or the command fails
             \/ \E c \in Countries :
                  /\ InCampaign /\ game.console /\ HealthyAI(game, c)
                  /\ r' = [r EXCEPT !.pending = TRUE, !.target = c, !.tries = 0,
                                    !.aiBefore = IF read THEN Cardinality(game.ai) ELSE 0]
                  /\ game' = Switching(held, c) /\ Goto("idle") /\ UNCHANGED timer
  /\ Quiet

WatchSwitch ==
  /\ Watching /\ r.pending
  /\ LET held == [game EXCEPT !.paused = TRUE]
         landed == InCampaign /\ game.view = r.target
         owned == Controlled(game, r.target) /\ Cardinality(game.ai) + 1 = r.aiBefore
         back == ReturnedToAI(held, r.target)
         done == [r EXCEPT !.pending = FALSE, !.target = None, !.tries = 0]
     IN \/ ~seen.paused /\ StopMonitoring(game, FALSE)
        \/ ~game.console /\ StopMonitoring(held, FALSE)
        \/ game.console /\ game' = held /\ Goto("idle") /\ UNCHANGED <<r, timer>>   \* still pending
        \/ game.console /\ landed /\ ~owned /\ StopMonitoring(held, TRUE)
        \/ game.console /\ landed /\ owned /\ StopMonitoring(held, TRUE)   \* not restored
        \/ /\ game.console /\ landed /\ owned /\ back.human = {}
           /\ game' = [back EXCEPT !.paused = FALSE]
           /\ r' = done /\ Goto("idle") /\ UNCHANGED timer
        \/ /\ game.console /\ landed /\ owned /\ back.human = {}           \* not resumed
           /\ game' = back /\ timer' = FALSE /\ Goto("idle")
           /\ r' = [done EXCEPT !.monitoring = FALSE, !.popups = FALSE]
  /\ Quiet

WatchPause ==
  /\ Watching /\ ~FailsOver(TRUE) /\ InCampaign
  /\ \/ /\ game' = IF seen.paused THEN [game EXCEPT !.paused = FALSE] ELSE game
        /\ trace' = IF ObserverValid THEN With(trace, Rec("observer.configured")) ELSE trace
        /\ IF ObserverValid THEN Goto("begin") ELSE Goto("idle")
        /\ UNCHANGED <<r, timer>>
     \/ seen.paused /\ StopMonitoring(game, FALSE) /\ UNCHANGED trace
  /\ Kept /\ UNCHANGED <<b, con>>

-----------------------------------------------------------------------------
(* Stop, and the rest of the world: the game, its player and telemetry.    *)

Stop ==
  /\ pc = "idle" /\ r.alive
  /\ \/ UNCHANGED game
     \/ /\ r.pending /\ InCampaign /\ Controlled(game, r.target)
        /\ game' = ReturnedToAI(game, r.target)
  /\ r' = [r EXCEPT !.alive = FALSE, !.front = FALSE, !.console = FALSE]
  /\ timer' = FALSE
  /\ Quiet /\ UNCHANGED <<pc, seen>>

TheGame == Kept /\ UNCHANGED <<r, b, timer, pc, seen, con, trace>>

SaveLoads ==
  /\ game.phase = "menu" /\ game.request
  /\ game' = [game EXCEPT !.request = FALSE, !.loaded = TRUE] /\ TheGame

\* OnCampaignConsoleCaptured: the commands of the new game are taken over, or not.
Enters ==
  /\ game.phase = "loading"
  /\ \E status \in {"completed", "native_tag_unavailable"}, paused \in BOOLEAN :
       LET taken == cfg.observe /\ status = "completed"
       IN /\ game' = [game EXCEPT !.phase = "campaign", !.console = taken, !.paused = paused]
          /\ con' = [con EXCEPT !.capture = IF taken THEN "completed" ELSE "observer_disabled"]
  /\ Kept /\ UNCHANGED <<r, b, timer, pc, seen, trace>>

Runs == InCampaign /\ ~game.paused /\ ~game.over /\ ~game.quit

DayPasses == Runs /\ game.date + Day <= MaxDate /\ game' = [game EXCEPT !.date = @ + Day] /\ TheGame

\* The player's, or the game's, own doing.
Interferes ==
  /\ InCampaign /\ ~game.quit /\ Deed
  /\ game' \in {Done([game EXCEPT !.paused = ~@]),
                Done([game EXCEPT !.over = TRUE, !.paused = TRUE]),
                Done([game EXCEPT !.phase = "left"])}
  /\ TheGame

\* The annexation of country c, with the kernel's handoff of the view before it.
Annexed(c) ==
  /\ Runs /\ c \in game.living /\ Deed
  /\ LET others == {d \in Countries \ {c} : HealthyAI(game, d)}
         gone(view) == [Done(game) EXCEPT !.view = view, !.living = @ \ {c}, !.human = @ \ {c}, !.ai = @ \ {c}]
     IN \/ game' = gone(game.view)
        \/ \E d \in others : cfg.observe /\ c = game.view /\ game' = gone(d)
  /\ TheGame

TagSwitch ==
  /\ InCampaign /\ game.switch # None
  /\ game' = [game EXCEPT !.view = game.switch, !.human = {game.switch} \cap game.living,
                          !.ai = @ \ {game.switch}, !.switch = None,
                          !.orphan = ~r.pending]
  /\ TheGame

TimePasses == r.started /\ ~late /\ late' = TRUE
              /\ UNCHANGED <<cfg, r, b, timer, pc, seen, game, con, trace>>

Callback ==
  \/ TimerFires \/ DrainConsoleRequest \/ AcquireController \/ SinglePlayer \/ SelectSave
  \/ CheckSave \/ ReadUnavailable \/ ReadCampaign \/ TickBenchmark \/ StopBenchmark
  \/ BeginBenchmark \/ NoBenchmarkToStart \/ FinishInvalidBenchmark \/ TimerUnavailable
  \/ Quit \/ ConfigureObserver \/ HandOver \/ LiftFog \/ SelectSpeed \/ Release
  \/ WatchLater \/ WatchView \/ WatchFailover \/ WatchSwitch \/ WatchPause

Next ==
  \/ Callback \/ FrontendCaptured \/ ConsoleCommand \/ Stop
  \/ SaveLoads \/ Enters \/ DayPasses \/ Interferes \/ TagSwitch \/ TimePasses
  \/ \E c \in Countries : Annexed(c)

\* Windows delivers the timer's messages and time passes; the game owes nothing.
Spec == Init /\ [][Next]_vars /\ WF_vars(Callback) /\ WF_vars(TimePasses)
-----------------------------------------------------------------------------
(* Properties                                                              *)

Steps == {"idle", "request", "frontend", "read", "bench", "gameover", "stop", "begin", "untimed",
          "invalid", "quit", "configure", "handover", "fog", "speed", "release", "watch"}

\* Types of the launcher's, the controller's and the game's fields.
TypeOK ==
  /\ pc \in Steps /\ timer \in BOOLEAN /\ late \in BOOLEAN
  /\ r.tries \in 0 .. Tries /\ r.saveTries \in 0 .. Tries /\ r.campTries \in 0 .. Tries
  /\ r.target \in Countries \cup {None} /\ (r.pending <=> r.target # None)
  /\ game.phase \in {"menu", "loading", "campaign", "left"} /\ game.date \in Start .. MaxDate
  /\ game.human \subseteq Countries /\ game.ai \subseteq Countries /\ game.human \cap game.ai = {}
  /\ b.active => Reachable(b.start, b.target)
  /\ seen = None <=> pc \in {"idle", "request", "frontend", "read"}

\* A record comes after those of the steps that lead to it, and only once.
Before(event) ==
  CASE event = "campaign.save_load_completed" -> {"campaign.save_selection_requested"}
    [] event = "campaign.entered"    -> {"campaign.save_load_completed"}
    [] event = "speed.configured"    -> {"campaign.entered"}
    [] event = "pause.configured"    -> {"speed.configured"}
    [] event = "observer.configured" -> {"pause.configured"}
    [] event \in BenchmarkEvents     -> {"campaign.save_load_completed"}
    [] OTHER                         -> {}
InOrderOnce(t) ==
  /\ \A i \in DOMAIN t : Before(t[i].event) \subseteq {t[j].event : j \in 1 .. i - 1}
  /\ \A i, j \in DOMAIN t : Kind(t[i].event) = Kind(t[j].event) => i = j
LifecycleInOrder == InOrderOnce(trace)

\* Whatever happened, the trace is one smedley_trace reads: milestones once and in the
\* order of the campaign's entry, benchmark records with fields that fit their reason, in
\* an order it accepts.  A failed timer whose final date cannot be read is the exception.
Undated(rec) == rec.event = "benchmark.failed" /\ rec.reason = "timer_unavailable" /\ rec.date = None
RecordsAccepted ==
  LifecycleInOrder /\ ((\E i \in DOMAIN trace : Undated(trace[i])) \/ Accepts(trace))

\* A record of the benchmark's end says what the game is then: completed only while it
\* stands paused at the target, failed with a confirmed pause only while it is paused.  And
\* the game is asked to quit only after the end was recorded.
EndIsTrue ==
  [][/\ \A i \in DOMAIN trace' \ DOMAIN trace :
          LET rec == trace'[i]
          IN /\ rec.event = "benchmark.completed" => game'.paused /\ game'.date = b.target
             /\ rec.event \in Terminals /\ rec.paused = TRUE =>
                  game'.paused /\ rec.actual = game'.date
     /\ game'.quit # game.quit => r.terminal /\ (cfg.sink => Sent("terminal"))]_vars

\* An ended benchmark leaves no timer and no watchdog behind, and messages are only
\* suppressed while the watchdog runs.
EndedIsQuiet ==
  pc = "idle" => /\ r.terminal => ~timer /\ ~r.monitoring
                 /\ r.popups => r.monitoring

\* While the watchdog runs its timer is armed, and the only country the player's side can
\* control is the one of the switch it waits for; a switch still under way when monitoring
\* ended is of the target that only Stop gives back.
WatchedIsReturned ==
  pc = "idle" /\ r.alive /\ r.ai =>
    /\ r.monitoring => timer
    /\ r.monitoring \/ r.pending => game.human \subseteq (IF r.pending THEN {r.target} ELSE {})

\* After monitoring ended, a country the player's side controls was reported, but for two
\* cases in which the code neither gives it back nor reports it: the switch was asked for
\* and not done when stop_monitoring gave up, and came afterwards (orphan); or the benchmark's
\* end, a game over or a lost campaign ended monitoring with the switch under way (pending).
Abandoned == game.orphan \/ r.pending
StoppedIsReported ==
  pc = "idle" /\ r.alive /\ r.ai /\ ~r.monitoring /\ game.human # {} => r.unclean \/ Abandoned

\* Between two callbacks the watchdog, its timer and the country in the player's hands belong
\* together, whatever was annexed, switched to or failed before: an ended run is quiet, a
\* running watchdog is armed and holds only its target, and a stopped one leaves no country
\* behind unreported but in the two cases of Abandoned.
WatchIsKept == TypeOK /\ EndedIsQuiet /\ WatchedIsReturned /\ StoppedIsReported

\* A manual view switch restores its target's AI before the run goes on
\* (mappings/evidence/campaign-automation.md:43): a benchmark that a switch ended leaves no
\* country in the player's hands.  The code does not keep this, and no run states it (README,
\* section 9): when the switch is asked for on the target date the pause is the command's own,
\* the pending switch fails the observer's invariants in the same callback, and the timer that
\* would have waited for the switch goes with the run.
SwitchIsCompleted ==
  pc = "idle" /\ r.alive /\ b.verdict = "observer_invariant_failed" => game.human = {}

\* A benchmark of a run that does not observe ends: at its target, by a failure, or at
\* the latest by its timeout.
BenchmarkEnds == (r.started /\ ~cfg.observe) ~> (r.terminal \/ ~r.alive)

=============================================================================
