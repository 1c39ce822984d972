# Smedley kernel: a TLA+ verification project

Smedley is a native mod host for Victoria II. A launcher starts the game suspended
and injects `smedley_kernel`, which hooks the executable, loads plugins through a C ABI
and offers them capabilities: events, campaign control, telemetry observation, interest
authority. Three of its plugins keep state of their own (scripting, telemetry, the
campaign runner) and one repairs a bug of the game (interest). The modules here specify
what those parts do, one action per step another thread could tell apart; TLC checks
them on small instances and TLAPS proves theorems about them for every value of their
constants.

Source paths below are relative to the repository's root, which `PROJECT.json` calls
`src/`.

## 1. The system

Components, the state each keeps, its operations, whom it talks to, what is hard about
it, and what makes it correct. The status of each is in `PROJECT.json`.

| Component | State | Operations | Interacts with | Hard behaviour | Correct when |
|---|---|---|---|---|---|
| Daily event ABI (`kernel/src/event_abi_runtime.cpp`) | 64 slots with one atomic control word each (flag bits, reference count), handle counter, active count | `register_daily`, `unregister`, dispatch of a country update | plugins call in; the update hook dispatches out | lock-free: compare-exchange races between registering, removing, disabling and dispatching; re-entrance from callbacks | no call after `unregister` returned; references exact; no slot lost; every live callback runs |
| Event services ABI (`kernel/src/event_services_runtime.cpp`) | the same slots for bank and console events, thread-local authority scope | register, unregister, two dispatches | interest service, console hook | the same protocol, plus authority valid only inside a callback | the same, and no authority outlives its callback |
| Plugin ABI, loader (`plugin_abi_runtime.cpp`, `loader.cpp`, `entry.cpp`) | loaded plugins, per-plugin created and started marks, installed hooks | identify the executable, install hooks, load all, roll back | every plugin | failure of any plugin at any step | what was created is unloaded and destroyed, last one first |
| Memory, hooks (`memory.cpp`, `hooks.cpp`) | patches with their original bytes, the patch registry, suspended threads | install and restore patches, suspend the other threads | every hook | a thread inside the bytes to be rewritten, or created while the others are suspended; a failing step among many | no thread runs torn instructions or frees memory another still uses; the registry knows every patch |
| Kernel event dispatch (`event.cpp`, `events/*`) | dispatch generations of the interest hooks | game call-outs | event ABIs | re-entrance of native code | one notification per native event |
| Game state runtime (`kernel/game_state/src/runtime.cpp`, `campaign_control_abi.cpp`) | frontend controllers, console capture, replaced table entries | campaign operations, payouts | game memory | native state that changes under it | readback verifies every write |
| Game state readers (`readers.cpp`, `foreign_memory.cpp`) | none | bounds-checked walks over the game's lists | game memory | looped, cut and inconsistent lists | a collection is whole or refused |
| Economy hooks (`pop_cash_flow_hook.cpp`, `factory_*_hook.cpp`, `artisan_consumption_hook.cpp`) | capture buffers, identity tables, enabled flags, in-flight counters | install, capture, drain, uninstall | telemetry service | capture concurrent with removal; buffers at their limit; one of several sites fails | every flow is drained or counted as dropped; nothing is left patched unknown |
| Campaign runtime service (`services/campaign_runtime.cpp`) | 8 sessions, 4 frontend leases, epochs | open, close, acquire, release, save | campaign runner | handles that are stale after a close or a frontend change | a stale handle never reaches the engine |
| Campaign automation service (`services/campaign_automation.cpp`) | one slot: control word with references, epoch, three hooks | install, deactivate, callbacks | campaign runner | callbacks in flight during deactivate; install over a stale slot | deactivate waits for callbacks and returns |
| Interest pool service (`services/interest_pool.cpp`) | two authorities, the prepared pools | bind, collect, prepare, apply, discard | interest plugin, bank events | writes that fail half way | a pool is paid once, under authority, and a partial payment is reported |
| Province modifier reconciliation (`services/province_modifier_reconciliation.cpp`) | registrations, an authority, the matches of a query | register, query, remove | bank events, game memory | the same authority as interest | |
| Telemetry observation service (`services/telemetry.cpp`) | 3 kinds of slots: sessions, observation sessions, a hook subscription | open, close, read, subscribe, drain | telemetry plugin, economy hooks | another save is loaded between any two calls; several hooks fail one by one | answers are of the game being played; no slot and no patch is left over |
| Scripting plugin (`plugins/scripting/src`) | event ring, worker, one-slot pause request, per-script schedule | load, daily event, scripts, pause, unload | daily event ABI, campaign control | three threads over one mutex, an atomic and a condition variable | accepted events run once in order; a request is applied or cancelled and logged; unload returns |
| Telemetry plugin (`plugins/telemetry/src/telemetry_core.cpp`, `plugin.cpp`) | sequence counter, bounded queue, writer thread, drain state | emit, emit_reliable, drain, unload | collectors, campaign runner, disk | lossy and reliable emitters, a full queue, failing writes, a drain that times out | file order is sequence order; gaps are only drops; the summary closes the file |
| Telemetry collectors (`population_collector.cpp`, `factory_economy_collector.cpp` and others) | yesterday's identities, stocks and prices, retained flows, the open period | one poll a day | observation service, hooks | missed days, other saves, reused addresses, incomplete captures | a record is true of the days it is for |
| Campaign runner (`plugins/campaign_runner/src`) | launcher state machine, watchdog, benchmark phases | frontend steps, console, observe, benchmark, quit | campaign services, telemetry | the game runs on between reading and acting; every call may fail | the benchmark ends with one true record |
| Interest bug fix (`plugins/interest_bug_fix/src`) | the pass's counters, a result queue with its worker | before and after each country | interest service | rounding, overflow, a pass broken off | only fresh interest is paid, once, and the report says so |
| Launcher (`apps/launcher`) | plan, process, remote threads, run record | validate, launch, wait | kernel DLL, plugins' argument parsers | timeouts of threads that go on, kills, failing writes | the game runs only whole; the record is true |
| Trace (`apps/trace`) | one pass over a file | summary, benchmark assertion, five exports, filtered export | telemetry files | cut, lossy and reordered files; files replaced meanwhile | no published row is false; a healthy trace is published |
| Logging, executable identity, telemetry registry | one mutex; none; none | append; hash; tables | all | | |

The threads that matter: the loader's thread (plugins load before the game's main thread
is resumed; nothing unloads them at process exit, the loader object is leaked on
purpose), the game thread that delivers country updates and console calls, one worker
per plugin that needs one (Lua, telemetry writer, drain), and any thread of any plugin
that calls a capability.

## 2. Modules, and the plan

| Module | Models | Builds on |
|---|---|---|
| `Registration` | the lock-free daily event registry | |
| `CallbackRegistry` | what a plugin relies on when it registers; `Registration` implements it | |
| `KernelProofs` | theorems about `Registration`, `PluginLoader` and `InterestFix` | `Registration`, `CallbackRegistry`, `InterestFix` |
| `Scripting` | the scripting plugin's three threads | takes from `Registration` that `unregister` stops and waits |
| `ScriptSchedule` | one script on the worker: callbacks, schedule, error limit | |
| `Telemetry` | publication, queue, writer, drain, unload of the telemetry plugin | takes the same from `Registration` |
| `Campaign` | campaign sessions, frontend leases, the automation slot and the native side under them | |
| `BenchmarkTrace` | what `smedley_trace` accepts as a benchmark, no state | |
| `CampaignRunner` | the campaign runner's timer-driven machine and the game it drives | its records are read by `BenchmarkTrace` |
| `CodePatch` | one place of the code patched and restored while threads run through it | |
| `EconomyHooks` | the four hooks as the services see them | |
| `TelemetryService`, `TelemetryReads` | sessions, subscription and the shapes of reads | `EconomyHooks` |
| `HookService` | the plugin's day over those services: open, subscribe, drain, read, close | both |
| `StateReader` | the walks over the game's states, provinces and POPs | |
| `InterestAllocation` | the division of a pool | |
| `InterestPool` | collect, prepare, pay, discard | `StateReader`, `InterestAllocation` |
| `PluginLoader` | the kernel's start and its rollback | |
| `InterestFix` | the interest plugin under the bank's pass and under the loader | `InterestPool`, `PluginLoader` |
| `TraceStream` | one pass of `smedley_trace` over a file, and what it demands of a healthy one | |
| `TracePops`, `TraceEconomy` | the two POP exports and the three economic ones | `TraceStream` |
| `TraceWriter` | what every collector shares: records, numbers, losses, lifecycle records | `TraceStream` |
| `PopulationCollector`, `EconomyCollector` | one poll as a function | `TraceWriter` |
| `Population`, `Economy` | a campaign, its polls, the file, the exports | a collector and its exports |
| `LaunchPlan` | profile to plan to command line | |
| `PluginArguments` | what each plugin makes of that command line | `LaunchPlan` |
| `TraceOutput` | trace files on disk, written and exported at once | |
| `Launch` | launchers, suspended games, remote threads, run records | `PluginArguments`, `TraceOutput` |
| `ScriptingProofs` (with `ScriptSchedule`), `TelemetryProofs`, `CampaignProofs`, `CampaignRunnerProofs`, `CodePatchProofs`, `HookServiceProofs`, `LaunchProofs` | theorems about the component of that name | that component |
| `MC...` | the instances TLC checks | the component; `campaign`, `telemetry`, `hooks` and `patch` need no module of their own |

The last three groups are compositions on purpose: what a collector emits is held
against what an exporter publishes and against what the game really did, and what the
launcher writes is held against what three plugins read. Neither side can be wrong in a
way the other happens to expect without a property noticing.

What is left to do, in this order:

1. Proofs: the launcher's plans (`PlansAreSound`) and the exports, which are folds over
   data; section 7 has what else is only model-checked. Every module
   is free of RECURSIVE operators and its constants carry named assumptions for that
   reason, and the invariants a proof needs stand at the end of the component's module,
   where TLC can check them (the campaign runner's stand with their proof).
2. `EventServices`: the slots are `Registration`'s, the authority scope and the choice
   between console results are not modelled yet; and province modifier reconciliation,
   which rests on it.
3. The province, world and military snapshots, if a property can be found that is about
   more than copying fields.

## 3. How the modules correspond to the code

`PROJECT.json` maps every definition to its lines. Two conventions hold throughout. A
step ends where another thread can tell the difference: an atomic operation or a
section under a lock. And `compare_exchange_weak` in a loop is the one
step in which it succeeds, on the value it tested.

### Registration (`kernel/src/event_abi_runtime.cpp`)

A slot's atomic `control` word is the pair `flag`, `refs`; `kActive`, `kDisabled`,
`kRemoving` and `kWriting` are the values of `flag`, and 0 is "free". `handle` stands for
handle, callback and context, which are written together. `nextHandle` is
`next_registration`, `active` is `active_registrations`, deliberately an integer of any
sign so that a wrong order of increment and decrement is visible. Each dispatcher and
each client has a program counter; a dispatcher that is inside a callback may itself
register and unregister, so a thread has both a dispatch and a call frame
(`callback_registration`, a `thread_local`, is `dispHandle`). Register claims a free
slot, writes it, publishes it, counts it; Unregister finds the handle, exchanges the
word to removing, uncounts, drains, clears; Dispatch scans the slots in order, acquires,
runs, disables if asked, releases. `known`, `gone` and `due` are history: handles given
out, handles whose Unregister succeeded, and what each dispatch has still to run.

`CallbackRegistry` has no slots and no counters: handles that are enabled, the one each
dispatcher is inside, the ones their owner was told are gone. `Registration` maps
`enabled` to the handles in active slots, `running` to the handle of the slot a
dispatcher holds, `retired` to `gone`.

### Scripting, ScriptSchedule (`plugins/scripting/src`)

`Scripting` has the loader's thread (load, unload, with the failures of each step), the
game's (the daily callback: a try-lock push into the ring, then a pending pause request)
and the worker's (wait, take an event, run the scripts, accept a request, log a result).
`request` is `pause_request_state_`; a request is a number, so that results can be
compared with the request they answer. The condition variable is whether the worker is
blocked, and a wake-up can be missed: a notification made after the predicate was tested
and before the thread blocked is lost. `ScriptSchedule` is one script's walk over its
scheduled callbacks; they may schedule more, fail, or reach the error limit in the middle.

### Telemetry (`plugins/telemetry/src/telemetry_core.cpp`, `plugin.cpp`)

A record is its sequence number. Emitters take `emission_mutex_` (or lose the try-lock),
take a number and push; a refused number is in `dropped`. The queue keeps `Reserve` of
its slots for reliable records. The writer pops, writes, flushes; a failing write leaves
`Fragment` in `file`. A drain, by a client with a deadline or by the host at unload,
closes the gate, waits for producers, unregisters the daily callback, emits the
summaries and starts the drain thread, and may time out at each of its waits and be
called again.

### Campaign (`kernel/game_state/src/services/campaign_runtime.cpp`, `campaign_automation.cpp`, `runtime.cpp`)

Two threads: the service owner's and the game's. `metadata_mutex` is held through most
calls, so they are one action; the exceptions are the points of the module. They are the
wait for callbacks (`Drained`, mutex held), the two calls that check the session, give
the mutex back and take it again (`CheckLessee`/`TakeLease`, `BeginInstall`/`InstallChecks`),
and the hooks, which take no mutex at all. `flag` and `refs` are the automation's
control word, with the borrow that `fetch_sub` makes when no reference is
counted. `controllers` are the game's live frontends; `capture` is the captured one with
its thread and generation, taken back field by field. `epoch` is the number of games
seen, and a session, lease or automation carries the one it was last used in. The console
hook behaves like the frontend's and the main menu's controller like the frontend's; one
of each pair is modelled.

### CampaignRunner, BenchmarkTrace (`plugins/campaign_runner/src`, `apps/trace/trace.cpp`)

All of the plugin runs in the callback of one timer, on the game's interface thread, but
the simulation does not wait for it. So a callback is a path through `pc`, and days may
pass, a country be annexed, the player pause or the campaign be lost between any two of
its steps; `seen` is what it read at its start. `r` is the launcher's state, `b` the
benchmark controller's, `con` the console's one-slot request. Each call into the kernel
has a failing disjunct. `trace` is the sequence of records the plugin emits, in the form
`BenchmarkTrace` reads: `BenchmarkSchema`, `BenchmarkTransition` and `VerifyBenchmark`
are the reader's functions of those names.

### CodePatch (`kernel/src/memory.cpp`, `factory_sales_hook.cpp`, `pop_cash_flow_hook.cpp`)

`at` is where each thread of the game has its instruction pointer: elsewhere in the game,
at the patched place, in the module's hook, in the trampoline or in the function it leads to. `Snapshot`,
`Suspend` and `Verify` are the constructor of `ScopedThreadQuiescence` with the
second enumeration that finds threads created meanwhile; `Forbidden` is the IP test.
Protection, write, flush and release each have their failure; what the code cannot undo
ends the process, as it does there (`TerminateProcess`).

### EconomyHooks, TelemetryService, TelemetryReads, HookService (`services/telemetry.cpp`, the hook files, `telemetry_services.cpp`)

A hook is `installed`, the set of sites patched, what is queued and what was lost.
The services are one step a call (`metadata_mutex`), their slots carry handle, owner
thread and epoch. A read is its name and the shape of what the game's memory holds;
`Answer` gives its status, and `Accepts` what the plugin's wrapper takes for a value.
`HookService` is the plugin's day as `OnDailyUpdate` orders it, `api` its `Api`
object; `reported` counts, per hook, the flows a day's report owes its reader.

### StateReader, InterestAllocation, InterestPool, InterestFix, PluginLoader

`StateReader` follows lists given as sequences of nodes with the count the game reports,
a tail, and whether the list loops; anything wrong sets the collection's flag.
`InterestAllocation` is `AllocateInterest` with its products of limited width. The
operations of `InterestPool` return an outcome: status, what was written, whether it
needed a write to fail; `InterestFix` runs them in the order of the plugin's callback,
one call of the service a step, while `PluginLoader`'s machine creates, loads, fails and
unloads the plugin among others. `fresh` and `given` are history: what of a pool this pass
has put there, and what its POPs got, so that a payment of something old shows.

### TraceStream, TracePops, TraceEconomy, TraceWriter, the collectors, Population, Economy

A line of a file is a record with the fields its event has; whether the JSON parses is
one field (`form`). `Stream` folds a visitor over the lines, and each export is a visitor,
a flush whenever the date changes, and a verdict at the end. A collector's poll is a
function from its state and what it reads (`w`) to its next state, the set of records and
the invalid counts. `Population` and `Economy` have the game change, cede, rebuild, pay
and settle between polls, hooks that see part of it, and the faults: a lost record, an
incomplete capture, an overflowing hook ring, a skipped day, an earlier save, a lost
session, a crash in the middle of a line. `truth` is history: what each day really was.

### LaunchPlan, PluginArguments, TraceOutput, Launch (`apps/launcher/core/src/launcher.cpp`)

A command line is a function from options to the values given. `ValidateRunProfile`,
`ValidateTelemetryProfile` and the checks of scripts are predicates over profiles,
`CampaignArguments` and its siblings make the command line, and `PluginArguments` has
the parsers of the three plugins that read it. `QuoteArgument` is modelled on characters, with the
rules of the Windows command line as its inverse. `Launch` has a program counter per
launcher, each remote call with its wait, timeout and thread that goes on regardless, and
`TraceOutput` a directory (path to file), so that two paths may name one file and a
game may replace a path while an export reads.

## 4. What the runs check

Deadlock is not checked where a system may rest (no event, no call, a run that has
ended); there the liveness properties, and `NoneWaitsForEver`, say what may not be left
undone. `population` and `economy` end in an explicit stuttering step instead.

| Run | Bounds | What it shows |
|---|---|---|
| `registration` | 2 slots that count one reference, 2 handles, two dispatchers whose callbacks may unregister, two clients, calls that race for one handle | no call after unregister; slots and counts exact; an unregister removes what it names, answers truthfully and never waits for itself; a dispatch runs every live callback; `CallbackRegistry` |
| `scripting` | a ring of 2, 4 events, 3 requests, every failure; 3 dates, 2 list entries, 3 callbacks, 3 errors | one pause at a time, each with one fate, none begun after the close; events once and in order; accepted events are handled, load and unload return; scheduled callbacks run once, not early, none that is due is left |
| `scripting_pause_log` | ring of 1, 2 events, 1 request, no failures | a disagreement: the result of a pause is not logged |
| `telemetry` | one external emitter beside the callback, the client and the host; queue of 2 with 1 reserved, 4 numbers, failing writes and a drain thread that may not start | order and gaps, one orderly end, no deadlock, what was queued is written unless a write failed |
| `campaign` | one session slot reused, 2 sessions, one lease, 2 automations, 2 games, one controller, failing installations | no callback after its deactivation or close, the captured controller is alive, owners agree, every call returns |
| `runner` | 6 launches (paused; days, with and without telemetry; until a date that is not a day's; observing a country; observing a benchmark), 2 days, 2 tries a retry, one deed of the player | its records are accepted by the reader; a running watchdog is armed and holds only its target, a stopped one leaves no country unreported but in two named cases; what the end says is so; the benchmark ends |
| `population` | 3 days, 2 POPs of 2 types in 2 provinces of 2 countries, with and without a country filter, 2 changes or faults | rows and records true of their days; a run without fault is published |
| `economy` | 4 days, a factory, 2 RGOs and an artisan in 2 countries, periods of 2 days, one fault, with and without a filter | the same of the three economic exports and of the in-game intervals |
| `patch` | each kind of patch, two threads and a third that may be created, 2 suspension attempts, 2 installations, 2 calls | no thread is caught; every patch is known |
| `hooks` | a hook of three sites and one of one, queues of 1, 3, 2 and 1 slots of the services, 2 games, 3 handles of each kind, 2 flows, 2 faults | nothing is left over; a drain is honest; reads are of this game |
| `interest` | 3 games of two countries, two states and three POPs, 2 passes, a save loaded between, one fault; integers of 4 bits; the interest plugin and another | divisions are fair; nothing is left behind; payments are sound |
| `launch` | two launchers, one detached, two paths, 7 files, 2 records a trace, one export, one fault; profiles that take every setting to and beyond its limits, a few settings at a time, dependencies among three plugins | plans are sound; a game runs only whole; the record is true; an export is whole |

Why the bounds are enough. The registry's races are between a dispatcher, the call
that removes its slot and the call that reuses the slot: two slots give a scan a slot
beside the one that changes, two handles a slot that is reused, and a count
of one is saturated by two dispatchers. A ring of two fills, wraps and drops; four events
cross its end twice; three requests follow each other through the one slot, and
further ones are refused while it is held. A queue of two with one reserved has full,
reserved and free; four numbers let drops, reliable records and the summaries of two
drains follow each other, and the last number is reached. A campaign slot that
is reused once, a second game and a second automation give every handle a
successor to be confused with. A benchmark of two days has a first, a middle and a last
reading, and a target between two days one that is passed. Differences compare two
days: three polls have a difference before and after a fault, four one more for a
warm-up and for intervals of two. One patch, two threads and a late third have a thread
at each place while another is created. Slots of the services run out at 3, 2 and 1.
Four bits make products overflow at three payees, which is the case the division has a
second branch for.

What the bounds cut off is named where it is: `MaxHandle`, `MaxEvents`, `MaxRequests`,
`MaxCallbacks`, `MaxDate`, `MaxDays`, `MaxHandles`, `MaxFlows`, `MaxFaults`, `MaxLoads`,
`MaxInstalls`, `MaxCalls`, `MaxAttempts` (a limit of the code), `MaxSequence` (in the code
the largest number), `MaxDeeds`, `MaxRecords`, `MaxExports`, and `Campaign`'s `MaxEpoch`,
`MaxControllers`, `MaxSessions`, `MaxLeases`, `MaxAutomations`. `MaxRefs` is the code's own
mask made small. `runner`'s `Tries` stands for every retry counter of the plugin.

What the instances assume of the callers, besides: `registration` that nothing
is registered while two calls unregister one handle, `campaign` that a client does not install over an
automation of its own (`OneRegistrant`; section 9 says what happens otherwise in each).

## 5. Fairness

- Scripting: weak fairness of each thread's steps, strong fairness for
  `Runtime::Stop`, which needs a mutex the worker takes and gives back. The daily event
  is not fair: the game may stop delivering, which is the point of `scripting_pause_log`.
- Telemetry: weak fairness of the writer only, whose wait ends after a second at the
  latest (`wait_for`). Nothing makes a client drain or anybody emit; that nobody
  waits for ever is `NoneWaitsForEver`, a state property.
- Campaign: the hooks run on; the owner's and the game's calls get the mutex if it is
  free again and again. No call and no hook is made to begin. Callbacks return and
  call no campaign service (docs/architecture.md, "They must not allocate, block,
  perform I/O, ... call engine services"); one that did would wait for the
  mutex its deactivation holds while it waits for the callback.
- CampaignRunner: the timer's callback goes on, and fires again while it is armed; time
  passes, so that a timeout comes. The simulation is not fair: a game that stands still
  is what the timeout is for.
- Everything else is safety and states none. In particular nothing makes a launched
  game exit or a bank pass go on.

## 6. What is proved

Eight modules hold theorems, each of them for every value of its component's constants
that satisfies the assumption named with them: any number of threads, slots, sessions,
records and games, any length of play. The assumptions say that sizes are natural numbers
(of at least one, where the code has at least one) and that sets of threads, paths and
files are finite; TLC evaluates them in the runs. A proof has the same shape everywhere: an
invariant `IInv` that is inductive, one lemma per action or per conjunct that says a step
keeps it, an induction (PTL), and a theorem for each property of the runs, which `IInv`
implies or which a step from `IInv` satisfies. Each such invariant was first checked by TLC
on the instance of its component's run, but for the campaign runner's two, which stand in
`CampaignRunnerProofs` with the notions they are written in.

| Module | Theorem | Says |
|---|---|---|
| `KernelProofs`, on `Registration` | `SpecTypeOK` | types; a count never leaves its field, so `refs` and `flag` are one word |
| | `SpecRefsCountHolders` | a slot's count is the number of dispatchers inside it |
| | `SpecNoCallAfterUnregister` | no callback runs, or is about to, after its Unregister returned SUCCESS |
| | `SpecImplementsCallbackRegistry` | every step is a step of `CallbackRegistry` or leaves it alone |
| | `SpecActiveCountExact` | the counter of active registrations is the number of active slots, corrected by the steps under way |
| | `SpecEveryLiveCallbackRuns` | a dispatch runs every callback live from its start to its end, unless its count was saturated |
| | `SpecSlotsAreExact`, `SpecUnregisterIsExact` | no slot leaks; Unregister takes away what it names, answers truly and never waits for itself. Both for `NoReuseInRace` |
| `KernelProofs`, on `InterestFix` | `FixSpecNothingLeftBehind` | no callback enters a plugin that is not there; when the loader gives up nothing of any plugin is left |
| | `FixSpecPaymentsAreSound` | a pool is paid once, out of this pass's interest, and every result published is true |
| | `FixSpecAllocationIsFair` | a division is exact in sum, fair to each POP and monotone, and refused only when it must be |
| `ScriptingProofs` | `SpecOnePauseAtATime` | a request is attempted or cancelled, never both; the slot is held until the answer is logged; nobody uses a runtime that is gone |
| | `SpecNoPauseLostOrLate` | no result is stored over another, no pause begins after the close |
| | `SpecEventsInOrder` | the ring holds the newest accepted events in order; the others are processed or in hand |
| | `ScheduleSpecScheduleIsKept` | no scheduled callback is lost, run twice or run early; the error limit holds; an event leaves none waiting that was due |
| `TelemetryProofs` | `SpecNumbersAreExact` | the file grows in the order of the numbers, and a missing number was counted as dropped |
| | `SpecDrainEndsOnce` | one drain stops the writer, a completed one is complete, nobody keeps a writer that is gone |
| `CampaignProofs` | `SpecCapturedIsAlive` | the captured controller is one the game has not destroyed |
| | `SpecNoCallAfterEnd`, `SpecOwnersAgree` | no callback outlives its registration or session; slots, sinks and control word agree. Both for `OneRegistrant` |
| `CampaignRunnerProofs` | `SpecWatchIsKept` | between two callbacks a running watchdog is armed and holds only its target, a stopped one has reported a human country, but for the two cases of section 9 (`SpecInHand` is its invariant) |
| | `SpecRecordsAccepted` | every trace the runner can write is one `smedley_trace` reads |
| | `SpecEndIsTrue` | a completed benchmark stands paused at its target, a confirmed pause is one, and the game quits after the end is recorded |
| `CodePatchProofs` | `SpecNoThreadIsCaught` | no thread executes replaced instructions or writes to buffers that are gone |
| | `SpecPatchIsKnown` | patched bytes are known to the uninstaller and registered |
| `HookServiceProofs` | `SpecNothingIsLeftOver` | a patch belongs to a hook that knows of it, and no slot of this game is forgotten |
| | `SpecDrainIsHonest` | a day's report counts every flow or says that some were dropped |
| | `SpecReadsAreOfThisGame` | what is taken for a value is of the game being played, and whole or a declared prefix |
| `LaunchProofs` | `SpecRunsOnlyWhole` | an injected game's main thread runs only with the kernel, every module and every plugin |
| | `SpecRecordIsTrue` | a run record is true at every moment, and left by every launcher that ends without a warning |
| | `SpecExportIsWhole` | an export gives its destination every record its reading met, the first of one run in order, and replaces neither a source nor a file being written |

Each component has the theorem of its inductive invariant besides: `SpecIInv`, for the
runner `SpecControl`, `SpecInHand` and `SpecStory`, for the interest plugin `FixSpecFixInv` and
`FixSpecMoneyInv`. A few proofs share a module where that module's lemmas serve both.

Assumptions that are more than sizes. `NoReuseInRace` (nothing is registered while two
calls unregister one handle) and `OneRegistrant` (a client does not install over an
automation of its own, and on the services' thread) are constants of the models and
hypotheses of exactly the theorems marked; `CampaignProofs`' `SpecIInv` has the second
too. Without them the properties are false, and section 9 says where the code lets them
be. `FilesAssumption` gives the model's directory a file more than can be in use, since
creating a file is to succeed. `RunnerAssumption` says that country tags are finitely many
numbers with a least one, none of them the tag of no country, and that the absent value is
none of the values. `FixAssumption` says what a game is (`IsGame`): its lists hold states,
provinces and POPs, and country 0, which stands for no country and which a cleanup leaves
out (`runtime.cpp:2650`), has no states.

### Why the invariants are what they are

**Registration.** That no callback runs after Unregister returned needs the count to be
exact (the drain reads it), which needs that only the call that exchanged the word to
removing clears it (`SlotOwned`), that two calls do not own one slot, that a held slot
is an occupied one and holds the handle that runs (`HeldOccupied`), and, because a slot
is used again, that a handle is in one slot at most and never issued twice
(`SlotHandles`). `CallNames` is what racing unregistrations need: between the search and
the exchange the slot may have been cleared and reused, and what remains true is that no
*other* slot holds the handle. The refinement reuses `IInv` for the three facts that are
not local: publishing finds room, a withdrawn handle was enabled, a retired one has
nobody inside. `FrameInv` adds the calls' frames and what a scan still has before it,
`CalmInv` what holds while races are calm: a slot found and not yet claimed is the named
one or free, no handle given out is lost, and a search has what it looks for ahead of it.
The counter is proved by following how one change of a function changes the number of
places with a value, for any finite set of slots.

**Scripting.** `LifeInOrder` says which threads run at each point of the plugin's life;
the rest splits in two halves that do not read each other. `SlotInv`: a request that was
taken is in one place of the chain game, result, worker, log (`InOnePlace`), the slot's
state says which (`PlaceIsKnown`), and requests are taken one after another
(`TakenInTurn`). `QueueInv`: the ring's indices agree modulo its capacity
(`RingInPlace`), it is increasing and ends with the newest accepted (`RingInOrder`),
everything older is processed or in hand (`PastIsAccountedFor`), and the event being
pushed is newer than all (`NewestLast`).

**Telemetry.** A number is safe because its owner is the one that holds the mutex
(`OneNumber`), and newer than whatever writer and queue have, as is the summary and the
number to come (`NumbersInOrder`). The summary is only then newest when no emitter has a
number, which is what the drain's protocol says (`DrainInv`: who holds the sink, one
drain, producers out by the time it passed them), with `WriterInOrder` for the writer's
end. `NumbersAreKept` says that nothing is lost between the places.

**ScriptSchedule.** `ScheduleInv` says that every callback handed out is in one place
(scheduled, running or gone), that each has run once at most, and that what the walk has
passed was not yet due, which survives callbacks that schedule others for the same date
because those are appended behind the walk.

**Campaign.** `ConnectedSoFar` says at each point of the owner's call how far it has
connected or disconnected the hooks, so that a failed installation's way back and a
deactivation's meet at the same state; `CallbackCounted` says that the one reference is
the callback's, and that what it loaded is the slot's registration as long as it runs;
`EndedIsGone` that a registration reported ended is not the one in the slot. Leases need
that handles are not issued twice (`HandlesIssued`) and that the game's thread, between
its check and its taking, has the game it checked (`LeaseIsDue`). `CaptureIsFresh` is all
`SpecCapturedIsAlive` needs, which is why it holds for any registrants.

**CampaignRunner.** `Control` says where a callback may be by what the launcher did before
it: an ended run has neither timer nor watchdog, a country in human hands is pending,
reported or an orphan, dates
are whole days after the start, so that a benchmark's target can be met exactly, and the
verdict that is about to be recorded is true of what was seen. `InHand` follows the
country from the switch asked for to its return: the game carries a switch out when it
likes, so that `WatchIsKept` alone is not inductive; it needs that a switch the game still
has to do is the pending one's and of its target, that it was done before the target is
human, and that one which outlived the watchdog has no timer left. `Story` ties the records to
that: the kinds in the trace are those of the launcher's flags, each once and after those it
presupposes, and the reader, run over the trace written so far, is in the state that
corresponds to the launcher's. The reader is a recursive function over the trace; each
record's lemma says what one more record does to it.

**CodePatch.** `StoodStill` says that from the enumeration that found nothing new all
threads are suspended, by which what `Inspect` saw still holds when bytes are written
(`SiteIsClear`); `OutcomeIsTrue` ties flags and bytes to how far the call has come;
`InFlightExact`, a cardinality, makes the count that `Drain` reads the number of threads
in the hook; `PlacesOfKind` and `CaptureIsInstalled` keep a thread that is not counted
away from the buffers.

**HookService.** `NothingIsLeftOver` and `DrainIsHonest` are inductive together with
four facts: a handle is in one slot and of no later game (`HandlesIssued`, which makes
closing the plugin's session close the only one); what is under a session ends with it
(`ParentsLive`, which reduces leaks to those of sessions); what the plugin holds at each
point of its call (`CallInOrder`, which makes an observation's parent the plugin's
session, so that a read through it is of that session's game); and, while it is
subscribed, that every hook captures and has kept or counted each flow since the last
report (`FlowsAreKept`). Reads are then a case analysis over the eighteen reads.

**Launch.** One launcher's facts do not read another's, so each lemma is about one run.
`HeldBack` says that until the launcher resumes it the game is suspended or dead and has
not run; `InStep` says what a remote thread has loaded by the step the launcher is in,
whether or not the launcher still waits for it; `ThreadsEnded` that no remote thread
outlives suspension; `KnowsTheOutcome` that what is about to be recorded is so. The disk
is separate: a file has records of one run, numbered (`OneRunAFile`), an open file is its
game's alone (`WritersOwnTheirFiles`), and the temporary file is nobody else's
(`TemporaryIsOwn`).

**PluginLoader and InterestFix.** `LoaderInOrder` says by the loader's place which of its
plugins are ahead of it, behind it or gone, `FixInOrder` what the calls of the one plugin
that is modelled leave of its registration and its thread, `WorkerInOrder` that a callback
runs only in a registration and that a thread ends only when told to and when the queue is
empty. Together they are inductive and imply `NothingLeftBehind`.

**The money.** A payment is sound because the pool it pays holds only what this pass put
there, which two facts keep. Once the pools were emptied and as long as the plugin can be
called, the states of every country still to be paid are untouched and no state is listed
by two countries (`PoolsAreSwept`); a cleanup that succeeded has found each state once, by
which the second follows from the first step and not from an assumption on the game. And
while a country is paid, its states from the next one on are untouched and distinct
(`PayingInOrder`), since the collection refuses a list that names a state twice. A flag set
by an earlier day's cleanup cannot stand in for this day's (`Swept`, `PassBegins`). That
what a cleanup reports is the sum of what it emptied, over collections put together
country by country, rests on lemmas about concatenations and sums.

**The division.** `MultiplyDivide` is long division bit by bit, a fold over the bits of a
word. `Divides` is its loop invariant: quotient and remainder are those of the part of the
savings read so far, and both stay below what overflows, because the savings of one POP are
at most the sum of all. A share is therefore exact with its remainder, the remainders of
all POPs add up to the units left over times the sum of the savings (`SumCombines`), and
so there are fewer units than POPs with a remainder. The POPs with the largest remainders
are exactly as many as the units (`RanksCount`: as many elements of a finite set have a
rank below `u` as `u` says), which makes the sum exact. Monotonicity is a comparison of
quotients and, where these agree, of remainders. `AllocateInterest` adds the savings up as
long as the sum fits, and the sum that passes is the real one.

**Data.** The library's induction theorems take an operator, which none of the provers
instantiates. Where a proof needs induction over data, over how long a trace or a list is or
over the subsets of a finite set, it is done by hand over a *set* of the numbers, or of
the subsets, for which the claim holds, with the well-founded minimum of its complement
(`SetInduction`, `SubsetInduction`). That makes recursive functions, `FlattenSeq` and sums
accessible; sums are reasoned about by how a change of one place changes them.

## 7. What is only model-checked

- All liveness (`WorkIsDone`, `AppliedIsLogged`, `AcceptedIsWritten`, `EveryCallReturns`,
  `BenchmarkEnds`) and `NoneWaitsForEver`, which is about ENABLED: beyond the proof
  system used here.
- The exports and the collectors (`ExportsAreTrue`, `RecordsAreTrue`, `IntervalIsTrue`,
  `HealthyIsPublished`) and the launcher's plans (`PlansAreSound`): folds of long
  visitors over data, line by line. Nothing proved rests on them.

## 8. What is not modelled

- The engine: its memory and layouts. Where a component needs it, the model takes what
  the code can observe (a controller is constructed, a game is another one, a list
  loops, memory cannot be read).
- Memory orders weaker than sequential consistency. The code's atomics are acquire and
  release on x86, where the operations modelled are locked instructions or plain loads
  and stores of one word; the store-to-load reordering this leaves matters only where
  two threads each store one word and then load the other's, and no modelled
  protocol does.
- Machine code: how a trampoline is assembled, which registers a hook saves, how
  displaced instructions are relocated.
- Formatting, JSON, Parquet, tables, logging, the Lua sandbox, the command line and
  graphical interfaces, settings files, the discovery of installations.
- Collectors that copy one day's fields: `province.daily`, `province.production`,
  `world.daily`, `world.economy`, the military families, the artisan flow aggregate,
  precious metals in the in-game account. 64-bit sums that overflow: the models stay far
  below.
- The authority scope of the event services and the choice between console results;
  province modifier reconciliation, popup suppression and the telemetry bridge of
  the interest plugin.
- Country 0 with two authority slots in use at once, in the interest service.
- Handle counters that wrap: they are 64 bits wide.
- In `registration`, two dispatching threads whose callbacks each unregister the
  other's registration: they wait for each other (`event_abi_runtime.cpp:84`), as
  docs/plugins.md:205 lets expect.

## 9. Disagreements, and what a property leaves out

One run ends in a counterexample, `scripting_pause_log` (`PROJECT.json`, "findings"):
the result of a pause can miss the worker (`scripting_runtime.cpp:559`), and the pause
itself stops the events that would wake it.

The following were met while modelling. Where a property or an instance steps around
one, that is said here.

Registration and scripting

- `event_abi_runtime.cpp:79`: a second Unregister of one handle, stopped between search
  and exchange, removes whoever got the slot since. `UnregisterIsExact` holds while nothing
  registers during such a race (`NoReuseInRace`); with `NoReuseInRace = FALSE` TLC refutes
  it in 17 steps. Of the proved theorems only `SpecSlotsAreExact` and `SpecUnregisterIsExact`
  need the assumption.
- `scripting_runtime.cpp:620`, `plugin.cpp:84`: a request that is pending when the plugin
  unloads, or when a later script fails to load, is answered nowhere, though
  docs/scripting.md:118 says completion or rejection is logged.

Telemetry

- `telemetry_core.cpp:1149`: after a failed write the writer goes on, and the next record
  is joined to the fragment (docs/telemetry/trace.md:27 expects a bad line at the end
  only). `AcceptedIsWritten` is about runs without a failed write.

Campaign and its runner

- `campaign_automation.cpp:225`: an installation overwrites the automation of an
  earlier game with its callback in flight; the callback is no longer counted, and
  deactivating the old handle returns at once. docs/architecture.md:153 promises one
  registration. `OneRegistrant` keeps the instance away from it.
- `campaign_runtime.cpp:218`: `AcquireFrontend` may leave a lease to a session that was
  closed between the check and the lease; it is refused when used.
- `runtime.cpp:1257`: the game's epoch changes when another address is seen. A game freed
  and another allocated at the same address between two calls are one game; the models
  give every game an address of its own.
- `campaign_launcher.cpp:682`: an observing run kills the timer when it stops monitoring,
  with a benchmark still active, which then never ends: `BenchmarkEnds` is about runs that
  do not observe.
- `campaign_launcher.cpp:701`: `stop_monitoring` forgets the pending switch while its native
  command may still be outstanding (when the game cannot be paused again, or its console is
  gone). When the game carries it out after all, a country is human that
  nobody returns or reports. `StoppedIsReported`, a part of `WatchIsKept`, excepts it by
  the ghost `game.orphan`.
- `campaign_launcher.cpp:499`, `:627`, `:644`: the end of a benchmark, a campaign that was
  left and a game over take the timer and monitoring away and leave the switch
  pending; a country that is or becomes human stays so, unreported, until `Stop` returns it
  (`:193`), though mappings/evidence/campaign-automation.md:43 has the runner "wait for
  ownership transition, restore target AI". `StoppedIsReported` excepts `r.pending`. No
  call need fail: a switch asked for while the campaign stands at the benchmark's target
  date ends the benchmark in the same callback, which ticks it before the watchdog
  (`:662`) and takes a pending switch for a broken invariant (`:374`). That is
  `SwitchIsCompleted`, which TLC refutes as an invariant of the `runner` instance.
- `campaign_launcher.cpp:919`: setting up an observer pauses the campaign without telling
  the pause state, so that `pause.configured` may report "already unpaused" for a game that
  is not (docs/telemetry/events.md:93 calls it the readback).
- A `timer_unavailable` failure has no date, and the reader refuses the record the
  documentation allows (docs/telemetry/events.md:98): `RecordsAccepted` excepts it.

Collectors and exports

- `population_collector.cpp:525`: a country's account counts a type that appeared today
  without an opening, so that it does not reconcile as docs/telemetry/events.md:281 says;
  `HealthyIsPublished` excepts days with a new type.
- `trace.cpp:2276`: the cash-flow export does not look for date gaps, which
  docs/telemetry/trace.md asks for. Its rows are true nevertheless, each being of one day.
- A save of exactly one day later than the game it replaces is compared as the next day.
- `factory_economy_collector.cpp:62`: a flow retained for up to 30 days closes an interval
  that began before a session was lost; `IntervalIsTrue` is about unbroken ones.
- `factory_economy_collector.cpp:161`: a factory's identity is noted only on days on which
  its country's factories were read. After a day on which they were not, another factory at
  the same address matches the retained flow, and an interval is called complete that
  counts the old one's stock. The identity being address, state and type, so does a
  factory rebuilt with the same type as before. Either takes two changes or faults; the
  instance has one (with `MaxEvents = 2` TLC refutes `IntervalIsTrue`).
- `province_collector.cpp:104`: an RGO that cannot be read is missing without being
  counted, where docs/telemetry/trace.md:131 asks for evidence of every producer.

Hooks, patches, interest

- `telemetry_services.cpp:191`: a drain is marked as done before it is tried. When it
  fails, the first hook is told of one dropped record and the others of an empty day,
  which docs/telemetry/native-api.md:36 says it never is. `DrainIsHonest` is about
  reports made through a subscription.
- The first version of `ReadPops` and `ReadFactories` gives a prefix as a success, which
  `ReadsAreOfThisGame` admits by name.
- A session that was opened by one thread stays until that thread closes it, and an
  unload on another thread leaves its hooks in place.
- `pop_cash_flow_hook.cpp:399`: the trampoline is freed when nobody is counted in the hook
  and nobody stands in the module. A thread that has entered the hook and is not yet
  counted, standing in the trampoline, is seen by neither test; docs/architecture.md:171
  says trampolines stay for the life of the process. `NoThreadIsCaught` is about replaced
  instructions and capture buffers.
- `memory.cpp`: some failures build their message while other threads are suspended, one of
  which may own the heap's lock.
- `interest_bug_fix.cpp:172`: the handler that disables the plugin after an exception cannot
  be reached, since the callback is `noexcept`, though docs/interest-fix.md describes it.
- `loader.cpp:179`: hooks that were installed stay when the plugins fail to load.
- `runtime.cpp:2634`: a discard that failed half way reports the units of all the pools it was
  asked to empty.

Launcher and trace files

- `launcher.cpp:2781`: a sampling rate below a millionth is written as 0.000000, which the
  plugin refuses, although the profile is within the documented range.
  `ArgumentsAreAccepted` says that it is the one sound profile that is refused.
- Artisan flows with no country, or with more than 16, pass the launcher's checks and
  are refused by the plugin when it loads (`HooksFit`). `ArgumentsAreAccepted` says the
  command line does not change which, `RunsOnlyWhole` covers what happens then.
- `launcher.cpp:1570`: a record is not written when the profile's speed is not between 1 and
  5, so that this failed preflight leaves none (docs/launcher.md:127 promises one for
  every attempt). The profile that fails in `launch` has a speed in that range.
- A launcher that is killed between the creation of the game and its resumption leaves
  a suspended process, and no record.
