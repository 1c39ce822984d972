------------------------------- MODULE Launch -------------------------------
(***************************************************************************)
(* Launchers that each start one game (apps/launcher/core/src/launcher.cpp,*)
(* Launch), the games, the run records on disk, and the trace files with   *)
(* an export going on.                                                     *)
(*                                                                         *)
(* A game is created suspended.  The launcher has the kernel and then the  *)
(* plugins' modules loaded by remote threads in it, one after the other,   *)
(* then the plugins themselves by one more, waits 30 seconds for each, and *)
(* only then lets the game's main thread run; otherwise it terminates the  *)
(* game.  A run has its launcher's name.                                   *)
(***************************************************************************)
EXTENDS PluginArguments, TraceOutput

CONSTANTS
    Detached,    \* the launchers that do not wait for their game
    Profile(_),  \* what a launcher may launch: [inject, path, overwrite,
                 \* modules, sound]; the modules are the kernel and the plugins'
    MaxFaults,   \* calls that fail, timeouts, processes killed from outside
    CampaignProfiles, ScriptProfiles, TelemetryProfiles,   \* profiles looked at before a launch
    PluginLists, Texts                                     \* plugins selected, arguments quoted

ASSUME ProfileAssumption ==
    \A l \in Runs : Profile(l) \subseteq
        [inject : BOOLEAN, path : Paths, overwrite : BOOLEAN, modules : Nat, sound : BOOLEAN]

VARIABLES
    launcher,   \* of each: where Launch is and what it knows
    game,       \* of each: the process
    record,     \* the run record on disk
    faults

launchVars == <<launcher, game, record, faults>>
vars == <<launchVars, diskVars>>

Outcomes == {"preflight_failed", "create_failed", "injection_failed", "started", "exited"}
RunRecords == [status : Outcomes, code : {0, 1}]
ASSUME NoneAssumption == None \notin RunRecords

NoProcess == [main |-> "none", thread |-> "none", loaded |-> 0, whole |-> FALSE, ran |-> FALSE, code |-> 0]
NotLaunched == [at |-> "idle", inject |-> TRUE, path |-> None, overwrite |-> FALSE, modules |-> 0, module |-> 0,
                waited |-> FALSE, warned |-> FALSE, status |-> "none", code |-> 0]

Init ==
    /\ launcher = [l \in Runs |-> NotLaunched] /\ game = [l \in Runs |-> NoProcess]
    /\ record = [l \in Runs |-> None] /\ faults = 0
    /\ DiskInit

At(l, step) == launcher[l].at = step
Goto(l, step) == launcher' = [launcher EXCEPT ![l].at = step]
\* The launch has an error: nothing further is injected, and a game that is
\* still suspended is terminated.
Failed(l) == Goto(l, "terminate")
\* The outcome is recorded.
Record(l, status) == launcher' = [launcher EXCEPT ![l].at = "write", ![l].status = status]
Fault == faults < MaxFaults /\ faults' = faults + 1

\* ---------------------------------------------------------------------------
\* Launch, up to the creation of the process.

\* A profile that has errors, or whose trace may not be written.
Begin(l) ==
    /\ At(l, "idle")
    /\ \E p \in Profile(l) :
           LET sound == p.sound /\ (p.inject => dir[p.path] = 0 \/ p.overwrite)
           IN  launcher' = [launcher EXCEPT ![l] =
                   [@ EXCEPT !.inject = p.inject, !.path = p.path, !.overwrite = p.overwrite, !.modules = p.modules,
                             !.at = IF sound THEN "create" ELSE "write",
                             !.status = IF sound THEN "none" ELSE "preflight_failed"]]
    /\ UNCHANGED <<game, record, faults, diskVars>>

CreateProcess(l) ==
    /\ At(l, "create")
    /\ game' = [game EXCEPT ![l].main = IF launcher[l].inject THEN "suspended" ELSE "running",
                            ![l].ran = ~launcher[l].inject]
    /\ IF launcher[l].inject THEN Goto(l, "inject") ELSE Record(l, "started")
    /\ UNCHANGED <<record, faults, diskVars>>

CreateFails(l) ==
    /\ At(l, "create") /\ Fault /\ Record(l, "create_failed")
    /\ UNCHANGED <<game, record, diskVars>>

\* ---------------------------------------------------------------------------
\* InjectLibrary and CallLoadPlugins.

CreateRemoteThread(l) ==
    /\ At(l, "inject") /\ game[l].main = "suspended" /\ Goto(l, "wait")
    /\ game' = [game EXCEPT ![l].thread = IF launcher[l].module < launcher[l].modules THEN "loading" ELSE "initializing"]
    /\ UNCHANGED <<record, faults, diskVars>>

InjectFails(l) ==
    /\ At(l, "inject") /\ Failed(l)
    /\ (Fault \/ (game[l].main = "dead" /\ UNCHANGED faults))
    /\ UNCHANGED <<game, record, diskVars>>

ThreadDone(l) == launcher' = [launcher EXCEPT ![l].module = @ + 1,
                                ![l].at = IF launcher[l].module < launcher[l].modules THEN "inject" ELSE "resume"]

\* The remote thread has ended: on to the next, or to ResumeThread.
RemoteThreadEnded(l) ==
    /\ At(l, "wait") /\ game[l].thread \in {"succeeded", "failed"}
    /\ IF game[l].thread = "failed" THEN Failed(l) ELSE ThreadDone(l)
    /\ game' = [game EXCEPT ![l].thread = "none"]
    /\ UNCHANGED <<record, faults, diskVars>>

\* The process went with its threads, whose exit code is then its own: of
\* LoadLibraryW not zero, of LoadPluginsThread zero is taken for a success.
ProcessGone(l) ==
    /\ At(l, "wait") /\ game[l].main = "dead"
    /\ IF (game[l].code # 0) = (launcher[l].module < launcher[l].modules) THEN ThreadDone(l) ELSE Failed(l)
    /\ UNCHANGED <<game, record, faults, diskVars>>

\* Mutant of the next: a thread that was not waited for to its end has done its work.
WaitForRemoteThread_TimesOut(l) ==
    /\ At(l, "wait") /\ Fault /\ ThreadDone(l)
    /\ UNCHANGED <<game, record, diskVars>>

\* WaitForRemoteThread: thirty seconds, and the thread goes on.
WaitForRemoteThread(l) ==
    /\ At(l, "wait") /\ Fault /\ Failed(l)
    /\ UNCHANGED <<game, record, diskVars>>

ResumeThread(l) ==
    /\ At(l, "resume") /\ Record(l, "started")
    /\ game' = [game EXCEPT ![l].main = IF @ = "dead" THEN @ ELSE "running", ![l].ran = game[l].main # "dead"]
    /\ UNCHANGED <<record, faults, diskVars>>

ResumeFails(l) ==
    /\ At(l, "resume") /\ Fault /\ Failed(l)
    /\ UNCHANGED <<game, record, diskVars>>

TerminateProcess(l) ==
    /\ At(l, "terminate") /\ Record(l, "injection_failed")
    /\ game' = [game EXCEPT ![l].main = "dead", ![l].thread = "none", ![l].code = IF game[l].main = "dead" THEN @ ELSE 1]
    /\ Closed(l) /\ UNCHANGED <<dir, rows, exporter, exports, record, faults>>

\* It fails, or the process is not gone after thirty seconds.
TerminateFails(l) ==
    /\ At(l, "terminate") /\ Fault /\ Record(l, "injection_failed")
    /\ UNCHANGED <<game, record, diskVars>>

\* ---------------------------------------------------------------------------
\* SaveRunRecord, and what comes after it.

NextOf(l) == IF launcher[l].status = "started" /\ l \notin Detached /\ ~launcher[l].waited THEN "waiting" ELSE "done"

\* Mutant of the next: the record is written where it is read.
WriteTemporary_InPlace(l) ==
    /\ At(l, "write") /\ Goto(l, "move")
    /\ record' = [record EXCEPT ![l] = [status |-> "partial", code |-> 0]]
    /\ UNCHANGED <<game, faults, diskVars>>

\* A temporary file, which nobody reads.
WriteTemporary(l) ==
    /\ At(l, "write") /\ Goto(l, "move")
    /\ UNCHANGED <<game, record, faults, diskVars>>

MoveRecord(l) ==
    /\ At(l, "move") /\ Goto(l, NextOf(l))
    /\ record' = [record EXCEPT ![l] = [status |-> launcher[l].status, code |-> launcher[l].code]]
    /\ UNCHANGED <<game, faults, diskVars>>

\* The disk is full, or somebody who lists the runs has the record open: the
\* launch goes on with a warning.
SaveFails(l) ==
    /\ launcher[l].at \in {"write", "move"} /\ Fault
    /\ launcher' = [launcher EXCEPT ![l].at = NextOf(l), ![l].warned = TRUE]
    /\ UNCHANGED <<game, record, diskVars>>

\* A launcher that waits learns the exit code; when that fails the record is
\* written again as it was.
ProcessExited(l) ==
    /\ At(l, "waiting") /\ game[l].main = "dead"
    /\ launcher' = [launcher EXCEPT ![l].at = "write", ![l].waited = TRUE,
                      ![l].status = "exited", ![l].code = game[l].code]
    /\ UNCHANGED <<game, record, faults, diskVars>>

WaitFails(l) ==
    /\ At(l, "waiting") /\ Fault
    /\ launcher' = [launcher EXCEPT ![l].at = "write", ![l].waited = TRUE]
    /\ UNCHANGED <<game, record, diskVars>>

\* The launcher is killed at whatever step.
KillLauncher(l) ==
    /\ launcher[l].at \notin {"idle", "done", "killed"} /\ Fault /\ Goto(l, "killed")
    /\ UNCHANGED <<game, record, diskVars>>

LauncherStep(l) ==
    \/ Begin(l) \/ CreateProcess(l) \/ CreateFails(l)
    \/ CreateRemoteThread(l) \/ InjectFails(l) \/ RemoteThreadEnded(l) \/ ProcessGone(l) \/ WaitForRemoteThread(l)
    \/ ResumeThread(l) \/ ResumeFails(l) \/ TerminateProcess(l) \/ TerminateFails(l)
    \/ WriteTemporary(l) \/ MoveRecord(l) \/ SaveFails(l) \/ ProcessExited(l) \/ WaitFails(l)
    \/ KillLauncher(l)

\* ---------------------------------------------------------------------------
\* The game's process.

LoadLibrary(l) ==
    /\ game[l].thread = "loading"
    /\ \E ok \in BOOLEAN :
           game' = [game EXCEPT ![l].thread = IF ok THEN "succeeded" ELSE "failed",
                                ![l].loaded = IF ok THEN @ + 1 ELSE @]
    /\ UNCHANGED <<launcher, record, faults, diskVars>>

\* LoadPluginsThread: the telemetry plugin's turn, with or without its trace.
LoadTelemetry(l) ==
    /\ game[l].thread = "initializing"
    /\ IF CanStart(launcher[l].path, launcher[l].overwrite)
       THEN Start(l, launcher[l].path, launcher[l].overwrite) /\ game' = [game EXCEPT ![l].thread = "started"]
       ELSE UNCHANGED diskVars /\ game' = [game EXCEPT ![l].thread = "failed"]
    /\ UNCHANGED <<launcher, record, faults>>

\* The plugins after it load, or one fails and all are unloaded.
LoadOthers(l) ==
    /\ game[l].thread = "started"
    /\ \/ game' = [game EXCEPT ![l].thread = "succeeded", ![l].whole = (game[l].loaded = launcher[l].modules)]
          /\ UNCHANGED diskVars
       \/ game' = [game EXCEPT ![l].thread = "failed"]
          /\ Closed(l) /\ UNCHANGED <<dir, rows, exporter, exports>>
    /\ UNCHANGED <<launcher, record, faults>>

Play(l) ==
    /\ game[l].main = "running" /\ WriteLine(l)
    /\ UNCHANGED launchVars

\* The game ends, or is killed while it is still suspended.
Exit(l) ==
    /\ \/ game[l].main = "running" /\ UNCHANGED faults
       \/ game[l].main = "suspended" /\ Fault
    /\ \E code \in {0, 1} : game' = [game EXCEPT ![l].main = "dead", ![l].thread = "none", ![l].code = code]
    /\ Closed(l) /\ UNCHANGED <<launcher, record, dir, rows, exporter, exports>>

GameStep(l) == LoadLibrary(l) \/ LoadTelemetry(l) \/ LoadOthers(l) \/ Play(l) \/ Exit(l)

Next ==
    \/ \E l \in Runs : LauncherStep(l) \/ GameStep(l)
    \/ Export /\ UNCHANGED launchVars

Spec == Init /\ [][Next]_vars
-----------------------------------------------------------------------------
(***************************************************************************)
(* RunsOnlyWhole.  The main thread of an injected game has run only in a   *)
(* process that has the kernel, every selected module and every plugin     *)
(* loaded: whatever timed out, failed or went on behind the launcher's     *)
(* back before (InjectLibrary, CallLoadPlugins and the order of Launch).   *)
(***************************************************************************)
RunsOnlyWhole ==
    \A l \in Runs : launcher[l].inject /\ game[l].ran => game[l].whole

\* What an outcome says of the game is so.
IsSo(l, outcome) ==
    CASE outcome.status \in {"preflight_failed", "create_failed"} -> game[l].main = "none"
      [] outcome.status = "injection_failed" -> game[l].main # "none" /\ ~game[l].ran
      [] outcome.status = "started" -> game[l].ran \/ game[l].main = "dead"
      [] outcome.status = "exited" -> game[l].main = "dead" /\ game[l].code = outcome.code
      [] OTHER -> FALSE

(***************************************************************************)
(* RecordIsTrue.  A run record on disk is complete at every moment and     *)
(* says what became of the game: none was created; it never ran; it was    *)
(* started; it exited with this code.  A launcher that has come to its end *)
(* without a warning has left the record of how it ended (persist,         *)
(* SaveRunRecord, with launchers killed and writes that fail).             *)
(***************************************************************************)
RecordIsTrue ==
    \A l \in Runs :
        /\ record[l] # None => IsSo(l, record[l])
        /\ At(l, "done") /\ ~launcher[l].warned =>
               record[l] # None /\ record[l].status = launcher[l].status

\* Profiles and plugins are looked at once, in the initial state without a trace.
Untouched == exports = 0 /\ (\A p \in Paths : dir[p] = 0) /\ \A l \in Runs : At(l, "idle")

\* What a plugin is to make of a profile that passed.
CampaignIsMeant(p, c) ==
    /\ c.save = p.save /\ c.observer = p.observer /\ c.view = Normalized(p.view)
    /\ p.save # None => c.speed = p.speed /\ c.paused = p.paused
    /\ c.days = p.days /\ c.until = p.until /\ c.quit = p.quit
    /\ TargetRequested(p) => c.timeout = p.timeout
TelemetryIsMeant(p, c) ==
    /\ c.output = "jsonl" /\ c.categories = p.categories /\ c.tags = p.tags /\ c.start = p.start /\ c.end = p.end
    /\ c.sample_days = p.sample_days /\ c.capacity = p.capacity /\ c.overwrite = p.overwrite /\ c.rate = p.rate
    /\ p.captures # <<>> => c.captures = p.captures

(***************************************************************************)
(* ArgumentsAreAccepted.  Every profile that the launcher lets through is  *)
(* read back by each plugin, from the command line the launcher made of    *)
(* it, as what it says: the launcher and the three plugins check the same  *)
(* rules four times over.  Two kinds of telemetry profile pass and do not  *)
(* load: a rate that six decimals print as zero, and artisan flows without *)
(* or with more than sixteen country tags (BuildLaunchPlan, the plugins'   *)
(* ParseLaunchArguments and ValidateConfig, OnLoad).                       *)
(***************************************************************************)
ArgumentsAreAccepted ==
    Untouched =>
        /\ LET sound == {p \in CampaignProfiles : CampaignIsSound(p, {"campaign_runner"})}
           IN  \A r \in {[p |-> p, c |-> ParseCampaignLaunchArguments(CampaignArguments(p))] : p \in sound} :
                   r.c.accepted /\ CampaignIsMeant(r.p, r.c)
        /\ LET sound == {p \in ScriptProfiles : ScriptingIsSound(p, {"scripting"}) /\ p.scripts # <<>>}
           IN  \A r \in {[p |-> p, c |-> ScriptingConfig(ScriptingArguments(p))] : p \in sound} :
                   /\ r.c.accepted /\ r.c.scripts = r.p.scripts
                   /\ r.c.budget = r.p.budget /\ r.c.memory = r.p.memory /\ r.c.capacity = r.p.capacity
        /\ LET sound == {p \in TelemetryProfiles : TelemetryIsSound(p, {"telemetry"}) /\ p.enabled}
           IN  \A r \in {[p |-> p, c |-> TelemetryConfig(TelemetryArguments(p))] : p \in sound} :
                   /\ r.c.accepted = (r.p.rate # "tiny")
                   /\ r.c.accepted => TelemetryIsMeant(r.p, r.c.config) /\ HooksFit(r.c.config) = HooksFit(r.p)
        /\ \A texts \in Texts : Argv(CommandLine(texts)) = texts

(***************************************************************************)
(* OrderIsRight.  Of the selected plugins each comes after those it        *)
(* depends on, and of two that could come next the one selected first      *)
(* does; no order of them all is found only when there is a cycle          *)
(* (BuildLaunchPlan).                                                      *)
(***************************************************************************)
OrderIsRight ==
    Untouched =>
        \A plugins \in PluginLists : PluginsAreCompatible(plugins) =>
            LET order == DependencyOrder(plugins)
                placed(n) == {order[i] : i \in 1 .. n}
                waits(n) == {i \in DOMAIN plugins \ placed(n) : Requires(plugins, i) \subseteq placed(n)}
            IN  /\ ~Repeats(order)
                /\ \A n \in DOMAIN order : order[n] \in waits(n - 1) /\ \A i \in waits(n - 1) : order[n] <= i
                /\ waits(Len(order)) = {}

(***************************************************************************)
(* What a launch is made of before anything is started: its arguments and  *)
(* the order of its plugins.                                               *)
(***************************************************************************)
PlansAreSound == ArgumentsAreAccepted /\ OrderIsRight

-----------------------------------------------------------------------------
(* The inductive invariant behind RunsOnlyWhole and RecordIsTrue.          *)

Launchers ==
    [at : {"idle", "create", "inject", "wait", "resume", "terminate", "write", "move", "waiting", "done", "killed"},
     inject : BOOLEAN, path : Paths \cup {None}, overwrite : BOOLEAN, modules : Nat, module : Nat,
     waited : BOOLEAN, warned : BOOLEAN, status : Outcomes \cup {"none"}, code : {0, 1}]
Games ==
    [main : {"none", "suspended", "running", "dead"},
     thread : {"none", "loading", "initializing", "started", "succeeded", "failed"},
     loaded : Nat, whole : BOOLEAN, ran : BOOLEAN, code : {0, 1}]

LaunchTypeOK ==
    /\ launcher \in [Runs -> Launchers] /\ game \in [Runs -> Games]
    /\ record \in [Runs -> RunRecords \cup {None}]

\* Nothing is there before the process is created.
NotBegun(l) ==
    /\ launcher[l].at \in {"idle", "create"} =>
           launcher[l].module = 0 /\ game[l] = NoProcess /\ record[l] = None
    /\ launcher[l].at # "idle" => launcher[l].path \in Paths

\* Until it lets the main thread go, the launcher has a suspended or dead game.
HeldBack(l) ==
    launcher[l].at \in {"inject", "wait", "resume", "terminate"} =>
        /\ launcher[l].inject /\ record[l] = None
        /\ game[l].main \in {"suspended", "dead"} /\ ~game[l].ran

\* What the remote thread of a game that is still there has done so far.
InStep(l) ==
    game[l].main = "suspended" =>
        /\ launcher[l].at = "inject" =>
               /\ game[l].thread = "none"
               /\ launcher[l].module <= launcher[l].modules /\ game[l].loaded = launcher[l].module
        /\ launcher[l].at = "wait" /\ launcher[l].module < launcher[l].modules =>
               /\ game[l].thread \in {"loading", "succeeded", "failed"}
               /\ game[l].loaded = launcher[l].module + (IF game[l].thread = "succeeded" THEN 1 ELSE 0)
        /\ launcher[l].at = "wait" /\ launcher[l].module >= launcher[l].modules =>
               /\ game[l].thread \in {"initializing", "started", "succeeded", "failed"}
               /\ launcher[l].module = launcher[l].modules /\ game[l].loaded = launcher[l].modules
               /\ game[l].thread = "succeeded" => game[l].whole
        /\ launcher[l].at = "resume" => game[l].whole /\ game[l].thread = "none"

\* Nothing is loaded any more once the main thread has run or the game is gone.
ThreadsEnded(l) ==
    /\ game[l].thread # "none" => game[l].main = "suspended" /\ ~game[l].ran
    /\ game[l].main = "running" => game[l].ran
    /\ game[l].main \in {"none", "suspended"} => ~game[l].ran

\* The launcher records nothing that is not so.
KnowsTheOutcome(l) ==
    /\ launcher[l].at \in {"write", "move", "waiting", "done"} => IsSo(l, launcher[l])
    /\ record[l] # None => IsSo(l, record[l])

LaunchInv ==
    /\ LaunchTypeOK
    /\ \A l \in Runs : NotBegun(l) /\ HeldBack(l) /\ InStep(l) /\ ThreadsEnded(l) /\ KnowsTheOutcome(l)
    /\ RunsOnlyWhole /\ RecordIsTrue

IInv == LaunchInv /\ DiskInv
=============================================================================
