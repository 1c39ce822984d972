---------------------------- MODULE HookService ----------------------------
(***************************************************************************)
(* The telemetry plugin on top of the kernel's telemetry services: the Api *)
(* of plugins/telemetry/src/telemetry_services.cpp as OnDailyUpdate and    *)
(* OnUnload drive it.  Each day it makes sure that its sessions and its    *)
(* subscription are those of the game being played, drains the hooks and   *)
(* reads; meanwhile the game's economy flows through the hooks, and        *)
(* another save may be loaded.                                             *)
(*                                                                         *)
(* Day               the daily event arrives: EnsureOpen tests             *)
(* Unsubscribe, CloseObservation, CloseSession       Api::Close            *)
(* OpenSession, OpenObservation                      Api::Open             *)
(* Subscribe                                         Api::Subscribe        *)
(* DrainDay          BeginHookDrain and the four drains of OnDailyUpdate   *)
(* Read              one of the reads of the collectors                    *)
(* Unload            OnUnload, on the thread that unloads plugins          *)
(* Flow, LoadGame    the game                                              *)
(***************************************************************************)
EXTENDS TelemetryService, TelemetryReads

CONSTANTS
    FirstDrained,     \* the hook OnDailyUpdate asks for first
    MaxEpoch,         \* bound: other games observed
    MaxHandles,       \* bound: sessions opened
    MaxFlows,         \* bound: flows of one hook between two reports
    MaxFaults         \* bound: failures of a patch or of a read

ASSUME PluginAssumption == FirstDrained \in Wanted

VARIABLES
    api,              \* session_, observation_ and hooks_ of the Api, 0 is none
    pc, goal,         \* where the current call is, and what it closes for
    unloader,         \* the thread that unloads plugins
    faults,
    since,            \* flows of each hook since they were last reported or subscribed
    report,           \* what the last drain told the collectors: count and dropped
    reported,         \* since, when it did
    taken             \* the value the last read gave, if any: what it was read from, of which epoch

plugin == <<api, pc, goal, unloader, faults, since, report, reported, taken>>
vars == <<service, plugin>>

NoApi == [session |-> 0, observation |-> 0, hooks |-> 0]
NoReport == [h \in Wanted |-> [count |-> 0, dropped |-> 0, held |-> FALSE]]
NoneTaken == [value |-> FALSE, shape |-> "whole", epoch |-> 0]
Nothing == [h \in Wanted |-> 0]

T == IF goal = "unload" THEN unloader ELSE "daily"
Dispatching == goal # "unload"

(***************************************************************************)
(* At most one hook fails in an operation over all of them.                *)
(***************************************************************************)
NoFaults == [h \in Wanted |-> NoFault]
Faulty(FaultsOf(_)) ==
    {NoFaults} \cup
        (IF faults = MaxFaults THEN {} ELSE UNION {{[NoFaults EXCEPT ![h] = f] : f \in FaultsOf(h)} : h \in Wanted})
Counts(f) == faults' = IF f = NoFaults THEN faults ELSE faults + 1

(***************************************************************************)
(* EnsureOpen: with both sessions, a read of the world decides whether     *)
(* they are still those of this game; `readable' is FALSE when the game's  *)
(* memory cannot be read this once.                                        *)
(***************************************************************************)
Usable == api.session # 0 /\ api.observation # 0
ReadCurrent(readable) ==
    /\ readable
    /\ game # 0
    /\ ObservationSessionStatus(api.observation, "daily", TRUE) = "success"

Day(readable) ==
    /\ pc = "idle"
    /\ handles.session <= MaxHandles
    /\ ~readable => faults < MaxFaults
    /\ faults' = IF readable THEN faults ELSE faults + 1
    /\ pc' = IF Usable /\ ReadCurrent(readable) THEN "drain" ELSE "unsubscribe"
    /\ goal' = "reopen"
    /\ seen' = IF Usable THEN CurrentGameSession ELSE seen
    /\ taken' = NoneTaken
    /\ UNCHANGED <<game, owner, sessions, observations, subscriptions, handles, hook,
                   api, unloader, since, report, reported>>

(***************************************************************************)
(* Api::Unsubscribe and Api::Close: each handle is forgotten, whatever the *)
(* service answered.                                                       *)
(***************************************************************************)
Unsubscribe ==
    /\ pc = "unsubscribe"
    /\ \/ /\ api.hooks # 0
          /\ SubscriptionStatus(api.hooks, T, Dispatching) = "success"
          /\ \E f \in Faulty(UninstallFaults) : UnsubscribeHooks(api.hooks, T, Dispatching, f) /\ Counts(f)
       \/ /\ api.hooks = 0 \/ SubscriptionStatus(api.hooks, T, Dispatching) # "success"
          /\ UNCHANGED <<service, faults>>
    /\ api' = [api EXCEPT !.hooks = 0]
    /\ pc' = "close observation"
    /\ UNCHANGED <<goal, unloader, since, report, reported, taken>>

CloseObservation ==
    /\ pc = "close observation"
    /\ \/ CloseObservationSession(api.observation, T)
       \/ /\ T = owner => Slot(observations, api.observation) = {}
          /\ UNCHANGED service
    /\ api' = [api EXCEPT !.observation = 0]
    /\ pc' = "close session"
    /\ UNCHANGED <<goal, unloader, faults, since, report, reported, taken>>

CloseSession ==
    /\ pc = "close session"
    /\ \/ \E f \in Faulty(UninstallFaults) : CloseTelemetrySession(api.session, T, f) /\ Counts(f)
       \/ /\ T = owner => Slot(sessions, api.session) = {}
          /\ UNCHANGED <<service, faults>>
    /\ api' = [api EXCEPT !.session = 0]
    /\ pc' = CASE goal = "reopen" -> "open session" [] goal = "abort" -> "idle" [] goal = "unload" -> "gone"
    /\ UNCHANGED <<goal, unloader, since, report, reported, taken>>

(***************************************************************************)
(* Api::Open: a parent session, then an observation session under it;      *)
(* without the second the first is closed again.                           *)
(***************************************************************************)
OpenSession ==
    /\ pc = "open session"
    /\ \/ /\ OpenTelemetrySession("daily", NoFaults)
          /\ api' = [api EXCEPT !.session = handles.session]
          /\ pc' = "open observation"
       \/ /\ game = 0 \/ Takeable = {}
          /\ seen' = CurrentGameSession
          /\ UNCHANGED <<game, owner, sessions, observations, subscriptions, handles, hook, api>>
          /\ pc' = "idle"
    /\ UNCHANGED <<goal, unloader, faults, since, report, reported, taken>>

OpenObservation ==
    /\ pc = "open observation"
    /\ \/ /\ OpenObservationSession(api.session, "daily")
          /\ api' = [api EXCEPT !.observation = handles.observation]
          /\ pc' = "subscribe"
          /\ goal' = goal
       \/ /\ FreeObservation = {}
          /\ UNCHANGED <<service, api>>
          /\ pc' = "unsubscribe"
          /\ goal' = "abort"
    /\ UNCHANGED <<unloader, faults, since, report, reported, taken>>

(***************************************************************************)
(* Api::Subscribe: when it fails the sessions stay open, and the next day  *)
(* finds them usable.                                                      *)
(***************************************************************************)
Subscribe ==
    /\ pc = "subscribe"
    /\ \/ /\ FreeSubscription # {}
          /\ \E f \in Faulty(InstallFaults) : \E g \in IF f = NoFaults THEN {NoFaults} ELSE Faulty(UninstallFaults) :
                SubscribeHooks(api.session, "daily", f, g) /\ Counts(f)
          /\ api' = [api EXCEPT !.hooks = IF handles'.subscription = handles.subscription THEN 0
                                          ELSE handles.subscription]
       \/ FreeSubscription = {} /\ UNCHANGED <<service, api, faults>>
    /\ pc' = IF api'.hooks = 0 THEN "idle" ELSE "drain"
    /\ since' = IF api'.hooks = 0 THEN since ELSE Nothing
    /\ UNCHANGED <<goal, unloader, report, reported, taken>>

(***************************************************************************)
(* The drains of OnDailyUpdate, on the first event of a date.  The hooks   *)
(* are drained once for all of them, when the first asks: FillHookCache    *)
(* notes that it has drained before it has, so that after a failure the    *)
(* first hook is told and the others find an empty cache.                  *)
(***************************************************************************)
DrainDay ==
    /\ pc = "drain"
    /\ \/ /\ DrainHooksSucceeds(api.hooks, "daily")
          /\ \E room \in BOOLEAN :
                report' = [h \in Wanted |->
                    [count |-> HookRecords(room)[h], dropped |-> HookDropped(room), held |-> TRUE]]
          /\ DrainHooks
          /\ since' = Nothing
       \/ /\ ~DrainHooksSucceeds(api.hooks, "daily")
          /\ report' = [h \in Wanted |->
                [count |-> 0, dropped |-> IF h = FirstDrained THEN 1 ELSE 0, held |-> FALSE]]
          /\ UNCHANGED <<hook, since>>
    /\ reported' = since
    /\ seen' = CurrentGameSession
    /\ pc' = "read"
    /\ UNCHANGED <<game, owner, sessions, observations, subscriptions, handles, api, goal, unloader, faults, taken>>

(***************************************************************************)
(* An event of a date already drained: the other countries of the day.     *)
(***************************************************************************)
SameDate == pc = "drain" /\ pc' = "read" /\ UNCHANGED <<service, api, goal, unloader, faults, since, report, reported, taken>>

Prefixes == {"ReadPops", "ReadFactories"}
Status(read) ==
    IF read \in GameReads THEN TelemetrySessionStatus(api.session, "daily", TRUE)
    ELSE ObservationSessionStatus(api.observation, "daily", TRUE)
Read ==
    /\ pc = "read"
    /\ \E read \in Reads, shape \in Shapes, room \in BOOLEAN, known \in BOOLEAN :
         taken' = IF /\ Status(read) = "success"
                     /\ Accepts(read, shape, Reading(read, shape, room, known))
                  THEN [value |-> TRUE, shape |-> IF read \in Prefixes THEN "prefix" ELSE shape, epoch |-> Epoch]
                  ELSE NoneTaken
    /\ seen' = CurrentGameSession
    /\ pc' = "idle"
    /\ report' = NoReport /\ reported' = Nothing
    /\ UNCHANGED <<game, owner, sessions, observations, subscriptions, handles, hook, api, goal, unloader, faults, since>>

Unload ==
    /\ pc = "idle"
    /\ pc' = "unsubscribe"
    /\ goal' = "unload"
    /\ UNCHANGED <<service, api, unloader, faults, since, report, reported, taken>>

(***************************************************************************)
(* The game: a flow through a hooked site; another save, at an address     *)
(* that is not the one last observed, or none.                             *)
(***************************************************************************)
Flow(h) ==
    /\ game # 0 /\ pc \in {"idle", "gone"}
    /\ since[h] < MaxFlows
    /\ \E selected \in BOOLEAN, decodes \in BOOLEAN :
         /\ since' = [since EXCEPT ![h] = @ + IF MatchesSelectedCountry(h, selected) THEN 1 ELSE 0]
         /\ hook' = [hook EXCEPT ![h] = CapturePool(h, @, selected, decodes)]
    /\ UNCHANGED <<game, seen, owner, sessions, observations, subscriptions, handles,
                   api, pc, goal, unloader, faults, report, reported, taken>>

LoadGame(a) ==
    /\ pc = "idle"
    /\ a \notin {game, seen.address}
    /\ Epoch < MaxEpoch
    /\ game' = a
    /\ UNCHANGED <<seen, owner, sessions, observations, subscriptions, handles, hook, plugin>>

Init ==
    /\ ServiceInit
    /\ api = NoApi
    /\ pc = "idle" /\ goal = "reopen"
    /\ unloader \in Threads
    /\ faults = 0
    /\ since = Nothing
    /\ report = NoReport
    /\ reported = since
    /\ taken = NoneTaken

Next ==
    \/ \E readable \in BOOLEAN : Day(readable)
    \/ Unsubscribe \/ CloseObservation \/ CloseSession
    \/ OpenSession \/ OpenObservation \/ Subscribe
    \/ DrainDay \/ SameDate \/ Read \/ Unload
    \/ \E h \in Wanted : Flow(h)
    \/ \E a \in Games \cup {0} : LoadGame(a)

Spec == Init /\ [][Next]_vars
-----------------------------------------------------------------------------
(***************************************************************************)
(* PatchesAreKnown.  A hook is wholly patched while it captures, a patch   *)
(* that stays in the game belongs to a hook that knows it is installed,    *)
(* and one left in part captures nothing and is never taken for a working  *)
(* one (factory_consumption_hook.cpp's `installed', `poisoned', `active'). *)
(***************************************************************************)
PatchesAreKnown ==
    \A h \in Wanted :
        /\ hook[h].sites # {} => hook[h].installed
        /\ hook[h].active => hook[h].sites = Sites(h)
        /\ hook[h].installed => hook[h].sites # {}

(***************************************************************************)
(* The sessions and subscriptions of the game being played are those the   *)
(* plugin holds: none is left behind in a slot that only another save      *)
(* would free.  True when the daily events come on the thread that owns    *)
(* the services, the only one that may close a session.                    *)
(***************************************************************************)
NoLeakedSlot ==
    (owner = "daily" /\ (goal = "unload" => unloader = "daily")) =>
        /\ \A i \in DOMAIN sessions :
            sessions[i].handle \notin {0, api.session} => sessions[i].epoch # Epoch
        /\ \A i \in DOMAIN observations : 
            observations[i].handle \notin {0, api.observation} =>
                Slot(sessions, observations[i].parent) # {}
        /\ \A i \in DOMAIN subscriptions :
            subscriptions[i].handle \notin {0, api.hooks} =>
                Slot(sessions, subscriptions[i].session) # {}

(***************************************************************************)
(* Neither a patch in the game nor a slot of the services is left over,    *)
(* whatever failed and whichever save was loaded (PatchesAreKnown,         *)
(* NoLeakedSlot: Unsubscribe, Close, OpenTelemetrySession).                *)
(***************************************************************************)
NothingIsLeftOver == PatchesAreKnown /\ NoLeakedSlot

(***************************************************************************)
(* A day's report made through a subscription counts every flow since the  *)
(* subscription or the report before, or says that some were dropped: a    *)
(* full queue and a full table of identities are never silent.             *)
(***************************************************************************)
DrainIsHonest ==
    \A h \in Wanted : (report[h].held /\ report[h].dropped = 0) => report[h].count = reported[h]

(***************************************************************************)
(* What the collectors take for a value is of the game being played and    *)
(* was read whole; the first version of the API gives a prefix of the POPs *)
(* and of the factories as a success.                                      *)
(***************************************************************************)
ReadsAreOfThisGame ==
    [][taken' # taken /\ taken'.value =>
        /\ \E i \in DOMAIN sessions : sessions[i].handle = api.session /\ sessions[i].epoch = taken'.epoch
        /\ taken'.shape \in {"whole", "prefix"}]_vars
-----------------------------------------------------------------------------
(* The inductive invariant behind them.                                    *)

Pcs == {"idle", "drain", "read", "unsubscribe", "close observation", "close session", "open session",
        "open observation", "subscribe", "gone"}
HookStates == [sites : SUBSET {"settlement", "first", "second", "call"}, installed : BOOLEAN,
               poisoned : BOOLEAN, active : BOOLEAN, queued : Nat, lost : Nat]
TypeOK ==
    /\ game \in Nat /\ seen \in [address : Nat, epoch : Nat]
    /\ owner \in Threads /\ unloader \in Threads
    /\ sessions \in [1 .. SessionSlots -> [handle : Nat, epoch : Nat, thread : Threads \cup {"none"}]]
    /\ observations \in [1 .. ObservationSlots ->
            [handle : Nat, parent : Nat, epoch : Nat, thread : Threads \cup {"none"}]]
    /\ subscriptions \in [1 .. SubscriptionSlots ->
            [handle : Nat, session : Nat, epoch : Nat, thread : Threads \cup {"none"}]]
    /\ handles \in [session : Nat \ {0}, observation : Nat \ {0}, subscription : Nat \ {0}]
    /\ hook \in [Wanted -> HookStates]
    /\ api \in [session : Nat, observation : Nat, hooks : Nat]
    /\ pc \in Pcs /\ goal \in {"reopen", "abort", "unload"}
    /\ since \in [Wanted -> Nat]

\* Every handle is new: a session's is in one slot, and none is of a later game.
HandlesIssued ==
    /\ \A i \in DOMAIN sessions :
        /\ sessions[i].handle < handles.session
        /\ sessions[i].handle # 0 =>
            /\ sessions[i].epoch <= seen.epoch
            /\ \A j \in DOMAIN sessions : sessions[j].handle = sessions[i].handle => j = i
    /\ \A i \in DOMAIN observations : observations[i].handle < handles.observation

\* An observation session or a subscription never outlives its session.
ParentsLive ==
    /\ \A i \in DOMAIN observations :
        observations[i].handle # 0 => Slot(sessions, observations[i].parent) # {}
    /\ \A i \in DOMAIN subscriptions :
        subscriptions[i].handle # 0 => Slot(sessions, subscriptions[i].session) # {}

\* What the plugin holds at each point of a call, and for which game.
CallInOrder ==
    /\ goal = "unload" => pc \in {"unsubscribe", "close observation", "close session", "gone"}
    /\ pc \in {"close observation", "close session", "open session", "open observation", "subscribe"} =>
        api.hooks = 0
    /\ pc \in {"close session", "open session", "open observation"} => api.observation = 0
    /\ pc = "open session" => api.session = 0
    /\ \A i \in DOMAIN observations :
        api.observation # 0 /\ observations[i].handle = api.observation => observations[i].parent = api.session

\* While the plugin is subscribed every hook captures and has kept or counted
\* each flow since the last report.
FlowsAreKept ==
    api.hooks # 0 => \A h \in Wanted : hook[h].active /\ since[h] = hook[h].queued + hook[h].lost

IInv ==
    /\ TypeOK /\ HandlesIssued /\ ParentsLive /\ CallInOrder /\ FlowsAreKept
    /\ NothingIsLeftOver /\ DrainIsHonest
=============================================================================
