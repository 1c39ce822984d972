------------------------------ MODULE Campaign ------------------------------
(***************************************************************************)
(* The campaign services (kernel/game_state/src/services): sessions and    *)
(* frontend leases (campaign_runtime.cpp), the one automation registration *)
(* (campaign_automation.cpp), and the native side both rest on: the        *)
(* captured frontend controller and the hooks' sinks (runtime.cpp).        *)
(*                                                                         *)
(* Two threads: the service owner's (the loader's: open, close, install,   *)
(* deactivate) and the game's (the hooks and their callbacks, the calls a  *)
(* plugin makes from a timer of the engine).  metadata_mutex makes most    *)
(* calls one step; what is done without it, and the wait for callbacks     *)
(* with it held, are steps of their own.  The two kinds of controller are  *)
(* alike and do not meet: one is modelled.                                 *)
(***************************************************************************)
EXTENDS Integers, FiniteSets, FiniteSetsExt

CONSTANTS
  SessionSlots,     \* how many campaign_sessions there are
  LeaseSlots,       \* how many frontend_slots there are
  MaxRefs,          \* automation_references: the most callbacks counted
  MaxEpoch,         \* bound of the checks on games ...
  MaxControllers,   \* ... on controllers constructed ...
  MaxSessions,      \* ... on sessions opened ...
  MaxLeases,        \* ... on leases ...
  MaxAutomations,   \* ... and on registrations
  InstallMayFail,   \* a hook may not be installed
  OneRegistrant     \* TRUE: nobody installs over an automation, and only the
                    \* owner's thread installs

ASSUME CampaignAssumption ==
  /\ SessionSlots \in Nat \ {0} /\ LeaseSlots \in Nat \ {0} /\ MaxRefs \in Nat \ {0}
  /\ MaxEpoch \in Nat /\ MaxControllers \in Nat /\ MaxSessions \in Nat
  /\ MaxLeases \in Nat /\ MaxAutomations \in Nat
  /\ InstallMayFail \in BOOLEAN /\ OneRegistrant \in BOOLEAN

Threads == {"owner", "game"}
Hooks   == {"frontend", "annexation"}   \* console_capture is like frontend

VARIABLES
  epoch,           \* game_session_epoch
  sessions,        \* campaign_sessions
  leases,          \* frontend_slots
  nextSession, nextLease,
  controllers,     \* the game's live controllers
  constructed,     \* how many it has constructed
  capture,         \* captured_frontend
  frontendActive,  \* campaign_automation_frontend_active
  sinks,           \* the native callbacks that are not null
  flag, refs,      \* the automation slot's control word
  automation,      \* its other fields
  nextAutomation,
  mutex,           \* owner of metadata_mutex
  pc, call, arg,   \* each thread's call: where it is, which it is, on what
  hook, callback,  \* the hook the game runs and the callback it loaded
  token,           \* the generation AcquireFrontend read
  ended            \* history: registrations whose deactivation has returned

runtime  == <<sessions, leases, nextSession, nextLease>>
native   == <<capture, frontendActive, sinks>>
slot     == <<flag, refs, automation, nextAutomation>>
engine   == <<controllers, constructed>>
callVars == <<pc, call, arg>>
hookVars == <<hook, callback, token>>
vars     == <<epoch, runtime, engine, native, slot, mutex, callVars, hookVars, ended>>

NoSession    == [handle |-> 0, epoch |-> 0, engine |-> FALSE]
NoLease      == [handle |-> 0, owner |-> 0, epoch |-> 0, generation |-> 0]
NoAutomation == [handle |-> 0, session |-> 0, epoch |-> 0, callbacks |-> {}, thread |-> "none"]
NoCallback   == [automation |-> 0, session |-> 0, set |-> FALSE]
NoCapture    == [address |-> 0, generation |-> 1, thread |-> FALSE]

OwnerPcs == {"lock", "disable", "drain", "sinks", "uncapture", "unthread", "clear", "finish"}
InstallPcs == {"check", "hooks", "failed", "fields", "publish", "connect"}
GamePcs  == {"capture", "acquire", "load", "invoke", "running", "release", "status", "lease"}

Epochs      == 0 .. MaxEpoch + 1
Sessions    == [handle : 0 .. MaxSessions, epoch : Epochs, engine : BOOLEAN]
Leases      == [handle : 0 .. MaxLeases, owner : 0 .. MaxSessions, epoch : Epochs, generation : Nat]
Automations == [handle : 0 .. MaxAutomations, session : 0 .. MaxSessions, epoch : Epochs,
                callbacks : SUBSET Hooks, thread : Threads \cup {"none"}]

RuntimeType ==
  /\ epoch \in 1 .. MaxEpoch + 1
  /\ sessions \in [1 .. SessionSlots -> Sessions]
  /\ leases \in [1 .. LeaseSlots -> Leases]
  /\ nextSession \in 1 .. MaxSessions + 1 /\ nextLease \in 1 .. MaxLeases + 1

NativeType ==
  /\ controllers \subseteq 1 .. MaxControllers /\ constructed \in 0 .. MaxControllers
  /\ capture \in [address : 0 .. MaxControllers, generation : Nat, thread : BOOLEAN]
  /\ frontendActive \in BOOLEAN /\ sinks \subseteq Hooks

SlotType ==
  /\ flag \in {"free", "active", "removing"} /\ refs \in 0 .. MaxRefs
  /\ automation \in Automations
  /\ nextAutomation \in 1 .. MaxAutomations + 1
  /\ ended \subseteq 1 .. MaxAutomations

CallType ==
  /\ mutex \in Threads \cup {"none"}
  /\ pc \in [Threads -> {"idle"} \cup OwnerPcs \cup InstallPcs \cup GamePcs]
  /\ call \in [Threads -> {"none", "open", "close", "deactivate", "install"}]
  /\ arg \in [Threads -> Nat]
  /\ hook \in Hooks
  /\ callback \in [automation : 0 .. MaxAutomations, session : 0 .. MaxSessions, set : BOOLEAN]
  /\ token \in Nat

TypeOK == RuntimeType /\ NativeType /\ SlotType /\ CallType

Init ==
  /\ epoch = 1
  /\ sessions = [i \in 1 .. SessionSlots |-> NoSession]
  /\ leases = [i \in 1 .. LeaseSlots |-> NoLease]
  /\ nextSession = 1 /\ nextLease = 1
  /\ controllers = {} /\ constructed = 0
  /\ capture = NoCapture /\ frontendActive = FALSE /\ sinks = {}
  /\ flag = "free" /\ refs = 0 /\ automation = NoAutomation /\ nextAutomation = 1
  /\ mutex = "none"
  /\ pc = [t \in Threads |-> "idle"]
  /\ call = [t \in Threads |-> "none"]
  /\ arg = [t \in Threads |-> 0]
  /\ hook = "frontend" /\ callback = NoCallback /\ token = 0
  /\ ended = {}

Goes(t, from, to) == pc[t] = from /\ pc' = [pc EXCEPT ![t] = to]

\* Starts a call that goes on in later steps, or one that is over at once.
Calls(t, name, on, at) ==
  /\ pc' = [pc EXCEPT ![t] = at]
  /\ call' = [call EXCEPT ![t] = name]
  /\ arg' = [arg EXCEPT ![t] = on]

Returns(t) == Calls(t, "none", 0, "idle")

-----------------------------------------------------------------------------
(* The game                                                                *)

\* Another game is loaded: CurrentGameSession sees another address, and the
\* thread whose compare-exchange succeeds counts it.
NewGame ==
  /\ pc["game"] = "idle"
  /\ epoch <= MaxEpoch
  /\ epoch' = epoch + 1
  /\ UNCHANGED <<runtime, engine, native, slot, mutex, callVars, hookVars, ended>>

\* A frontend is constructed; CaptureFrontendController looks whether automation
\* is active ...
Construct ==
  /\ constructed < MaxControllers
  /\ Goes("game", "idle", IF frontendActive THEN "capture" ELSE "idle")
  /\ constructed' = constructed + 1
  /\ controllers' = controllers \cup {constructed + 1}
  /\ UNCHANGED <<epoch, runtime, native, slot, mutex, call, arg, hookVars, ended>>

\* ... and captures it, for this thread, then runs the sink.
Capture ==
  /\ Goes("game", "capture", IF "frontend" \in sinks THEN "acquire" ELSE "idle")
  /\ capture' = [address |-> constructed, generation |-> capture.generation + 1, thread |-> TRUE]
  /\ hook' = "frontend"
  /\ UNCHANGED <<epoch, runtime, engine, frontendActive, sinks, slot, mutex, call, arg,
                 callback, token, ended>>

Uncaptured == [address |-> 0, generation |-> capture.generation + 1, thread |-> FALSE]

\* Fault: a destroyed controller stays captured.
Destroy_StaysCaptured(c) ==
  /\ pc["game"] = "idle"
  /\ controllers' = controllers \ {c}
  /\ UNCHANGED <<epoch, runtime, constructed, native, slot, mutex, callVars, hookVars, ended>>

\* The destructor's hook takes back the capture if it is this controller's.
Destroy(c) ==
  /\ pc["game"] = "idle"
  /\ controllers' = controllers \ {c}
  /\ capture' = IF capture.address = c THEN Uncaptured ELSE capture
  /\ UNCHANGED <<epoch, runtime, constructed, frontendActive, sinks, slot, mutex, callVars,
                 hookVars, ended>>

\* A country is annexed: the sink is run if there is one.
Annex ==
  /\ "annexation" \in sinks
  /\ Goes("game", "idle", "acquire")
  /\ hook' = "annexation"
  /\ UNCHANGED <<epoch, runtime, engine, native, slot, mutex, call, arg, callback, token,
                 ended>>

-----------------------------------------------------------------------------
(* OnCampaignAutomationFrontendCapture and -Annexation                     *)

\* AcquireCampaignAutomationCallback.
AcquireCallback ==
  /\ IF flag = "active" /\ refs < MaxRefs
     THEN Goes("game", "acquire", "load") /\ refs' = refs + 1
     ELSE Goes("game", "acquire", "idle") /\ UNCHANGED refs
  /\ UNCHANGED <<epoch, runtime, engine, native, flag, automation, nextAutomation, mutex, call,
                 arg, hookVars, ended>>

\* Loads the callback and its context ...
LoadCallback ==
  /\ Goes("game", "load", "invoke")
  /\ callback' = [automation |-> automation.handle, session |-> automation.session,
                  set |-> hook \in automation.callbacks]
  /\ UNCHANGED <<epoch, runtime, engine, native, slot, mutex, call, arg, hook, token, ended>>

\* Fault: a callback that is null keeps the reference.
InvokeCallback_KeepsReference ==
  /\ Goes("game", "invoke", IF callback.set THEN "running" ELSE "idle")
  /\ automation' = [automation EXCEPT !.epoch = epoch]
  /\ UNCHANGED <<epoch, runtime, engine, native, flag, refs, nextAutomation, mutex, call, arg,
                 hookVars, ended>>

\* ... stores the epoch, and calls it unless it is null.
InvokeCallback ==
  /\ Goes("game", "invoke", IF callback.set THEN "running" ELSE "release")
  /\ automation' = [automation EXCEPT !.epoch = epoch]
  /\ UNCHANGED <<epoch, runtime, engine, native, flag, refs, nextAutomation, mutex, call, arg,
                 hookVars, ended>>

\* It returns CONTINUE, or DISABLE, which makes this hook's callback null.
CallbackReturns ==
  /\ Goes("game", "running", "release")
  /\ automation' \in {automation, [automation EXCEPT !.callbacks = @ \ {hook}]}
  /\ UNCHANGED <<epoch, runtime, engine, native, flag, refs, nextAutomation, mutex, call, arg,
                 hookVars, ended>>

\* fetch_sub on the whole word: with no reference counted it borrows from the
\* flags, and a free slot's word becomes all ones.
ReleaseCallback ==
  /\ Goes("game", "release", "idle")
  /\ refs' = IF refs = 0 THEN MaxRefs ELSE refs - 1
  /\ flag' = IF refs # 0 THEN flag
             ELSE CASE flag = "active"   -> "removing"
                    [] flag = "removing" -> "free"
                    [] flag = "free"     -> "active"
  /\ callback' = NoCallback
  /\ UNCHANGED <<epoch, runtime, engine, native, automation, nextAutomation, mutex, call, arg,
                 hook, token, ended>>

-----------------------------------------------------------------------------
(* Sessions                                                                *)

Without(h) == [i \in DOMAIN leases |-> IF leases[i].owner = h THEN NoLease ELSE leases[i]]

\* The session was last used in an earlier game.
Stale(h) == \E i \in DOMAIN sessions : sessions[i].handle = h /\ sessions[i].epoch # epoch

LeasesAfter(h) == IF Stale(h) THEN Without(h) ELSE leases

SessionsAfter(h, engineThread) ==
  [i \in DOMAIN sessions |->
     IF sessions[i].handle # h THEN sessions[i]
     ELSE [sessions[i] EXCEPT !.epoch = epoch, !.engine = @ \/ engineThread]]

AutomationAfter(h) ==
  IF Stale(h) /\ automation.session = h THEN [automation EXCEPT !.epoch = epoch] ELSE automation

\* CampaignSessionStatus and FrontendSessionStatus: an open session of an earlier
\* game loses its leases and goes over to this game, with its automation;
\* FrontendSessionStatus admits the engine's thread from now on.
Refreshes(h, engineThread) ==
  /\ sessions' = SessionsAfter(h, engineThread)
  /\ leases' = LeasesAfter(h)
  /\ automation' = AutomationAfter(h)

Open     == {sessions[i].handle : i \in DOMAIN sessions} \ {0}
Admits(t) == {sessions[i].handle : i \in {j \in DOMAIN sessions : t = "owner" \/ sessions[j].engine}}
               \ {0}

\* set_paused, set_speed and the other calls that check the session first.
UseSession(t, h) ==
  /\ pc[t] = "idle" /\ mutex = "none"
  /\ h \in Admits(t)
  /\ Refreshes(h, FALSE)
  /\ UNCHANGED <<epoch, nextSession, nextLease, engine, native, flag, refs, nextAutomation, mutex,
                 callVars, hookVars, ended>>

\* What a call does once the automation of its session is out of the way.
OpensIn(i) ==
  /\ sessions' = [sessions EXCEPT ![i] = [handle |-> nextSession, epoch |-> epoch, engine |-> FALSE]]
  /\ nextSession' = nextSession + 1

\* OpenCampaignSession takes the first slot that is free or whose session has
\* not been used since another game was loaded; that one is retired like a
\* closed one.  None: UNAVAILABLE.
OpenSession ==
  LET usable == {i \in DOMAIN sessions : sessions[i].handle = 0 \/ sessions[i].epoch # epoch}
      first  == Min(usable)
      old    == sessions[first].handle
  IN /\ pc["owner"] = "idle" /\ mutex = "none"
     /\ nextSession <= MaxSessions
     /\ usable # {}
     /\ leases' = IF old = 0 THEN leases ELSE Without(old)
     /\ IF old # 0 /\ automation.session = old
        THEN /\ Calls("owner", "open", first, "disable")
             /\ mutex' = "owner"
             /\ UNCHANGED <<sessions, nextSession>>
        ELSE OpensIn(first) /\ UNCHANGED <<mutex, callVars>>
     /\ UNCHANGED <<epoch, nextLease, engine, native, slot, hookVars, ended>>

FinishOpen ==
  /\ pc["owner"] = "finish" /\ call["owner"] = "open"
  /\ OpensIn(arg["owner"])
  /\ Returns("owner")
  /\ mutex' = "none"
  /\ UNCHANGED <<epoch, leases, nextLease, engine, native, slot, hookVars, ended>>

\* Fault: the session's automation is not retired.
CloseSession_KeepsAutomation(i) ==
  /\ pc["owner"] = "idle" /\ mutex = "none"
  /\ sessions[i].handle # 0
  /\ leases' = Without(sessions[i].handle)
  /\ sessions' = [sessions EXCEPT ![i] = NoSession]
  /\ UNCHANGED <<epoch, nextSession, nextLease, engine, native, slot, mutex, callVars, hookVars, ended>>

\* CloseCampaignSession.  The native controllers it would release belong to its
\* own thread; the engine's belong to the game's, so there are none.
CloseSession(i) ==
  /\ pc["owner"] = "idle" /\ mutex = "none"
  /\ sessions[i].handle # 0
  /\ IF automation.session = sessions[i].handle
     THEN /\ Calls("owner", "close", i, "disable")
          /\ mutex' = "owner"
          /\ UNCHANGED <<sessions, leases>>
     ELSE /\ leases' = Without(sessions[i].handle)
          /\ sessions' = [sessions EXCEPT ![i] = NoSession]
          /\ UNCHANGED <<mutex, callVars>>
  /\ UNCHANGED <<epoch, nextSession, nextLease, engine, native, slot, hookVars, ended>>

FinishClose ==
  /\ pc["owner"] = "finish" /\ call["owner"] = "close"
  /\ leases' = Without(sessions[arg["owner"]].handle)
  /\ sessions' = [sessions EXCEPT ![arg["owner"]] = NoSession]
  /\ Returns("owner")
  /\ mutex' = "none"
  /\ UNCHANGED <<epoch, nextSession, nextLease, engine, native, slot, hookVars, ended>>

-----------------------------------------------------------------------------
(* Frontend leases, on the game's thread                                   *)

\* AcquireFrontend: the native token of the captured controller, without the
\* mutex, ...
AcquireFrontend(h) ==
  /\ nextLease <= MaxLeases
  /\ frontendActive /\ capture.address # 0 /\ capture.thread
  /\ pc["game"] = "idle"
  /\ Calls("game", "none", h, "status")
  /\ token' = capture.generation
  /\ UNCHANGED <<epoch, runtime, engine, native, slot, mutex, hook, callback, ended>>

\* ... then FrontendSessionStatus ...
CheckLessee ==
  /\ pc["game"] = "status" /\ mutex = "none"
  /\ IF arg["game"] \in Open
     THEN Calls("game", "none", arg["game"], "lease") /\ Refreshes(arg["game"], TRUE)
     ELSE Returns("game") /\ UNCHANGED <<sessions, leases, automation>>
  /\ UNCHANGED <<epoch, nextSession, nextLease, engine, native, flag, refs, nextAutomation, mutex,
                 hookVars, ended>>

\* ... and, with the mutex taken anew, a free lease, unless the session has one
\* of this game.
TakeLease ==
  LET free == {i \in DOMAIN leases : leases[i].handle = 0}
      had  == \E i \in DOMAIN leases : leases[i].owner = arg["game"] /\ leases[i].epoch = epoch
  IN /\ pc["game"] = "lease" /\ mutex = "none"
     /\ Returns("game")
     /\ IF had \/ free = {}
        THEN UNCHANGED <<leases, nextLease>>
        ELSE /\ leases' = [leases EXCEPT ![Min(free)] =
                             [handle |-> nextLease, owner |-> arg["game"], epoch |-> epoch,
                              generation |-> token]]
             /\ nextLease' = nextLease + 1
     /\ UNCHANGED <<epoch, sessions, nextSession, engine, native, slot, mutex, hookVars, ended>>

\* request_save, read_save, dispatch: FrontendStatus, then the controller if the
\* token is the capture's.
UseFrontend(i) ==
  /\ pc["game"] = "idle" /\ mutex = "none"
  /\ leases[i].handle # 0
  /\ Refreshes(leases[i].owner, TRUE)
  /\ UNCHANGED <<epoch, nextSession, nextLease, engine, native, flag, refs, nextAutomation, mutex,
                 callVars, hookVars, ended>>

\* ReleaseFrontend gives the lease up in every case, and the captured controller
\* with it if the lease is good and that controller still the one it is for.
ReleaseFrontend(i) ==
  LET lease == leases[i]
      good  == lease.owner \in Open /\ ~Stale(lease.owner) /\ lease.epoch = epoch
  IN /\ pc["game"] = "idle" /\ mutex = "none"
     /\ lease.handle # 0
     /\ sessions' = SessionsAfter(lease.owner, TRUE)
     /\ automation' = AutomationAfter(lease.owner)
     /\ leases' = [LeasesAfter(lease.owner) EXCEPT ![i] = NoLease]
     /\ capture' = IF good /\ capture.generation = lease.generation /\ capture.address # 0
                   THEN Uncaptured ELSE capture
     /\ UNCHANGED <<epoch, nextSession, nextLease, engine, frontendActive, sinks, flag, refs,
                    nextAutomation, mutex, callVars, hookVars, ended>>

-----------------------------------------------------------------------------
(* InstallCampaignAutomation                                               *)

\* CampaignSessionStatus ...
BeginInstall(t, h) ==
  /\ pc[t] = "idle" /\ mutex = "none"
  /\ nextAutomation <= MaxAutomations
  /\ h \in Admits(t)
  /\ OneRegistrant => t = "owner" /\ automation.handle = 0
  /\ Refreshes(h, FALSE)
  /\ Calls(t, "install", h, "check")
  /\ UNCHANGED <<epoch, nextSession, nextLease, engine, native, flag, refs, nextAutomation, mutex,
                 hookVars, ended>>

\* ... then, with the mutex taken anew, CAPACITY if there is an automation of this
\* game; one of an earlier game does not count.  The frontend's hooks first.
InstallChecks(t) ==
  /\ pc[t] = "check" /\ mutex = "none"
  /\ IF automation.handle # 0 /\ automation.epoch = epoch
     THEN Returns(t) /\ UNCHANGED <<frontendActive, mutex>>
     ELSE \/ /\ Goes(t, "check", "hooks")
             /\ frontendActive' = TRUE
             /\ mutex' = t
             /\ UNCHANGED <<call, arg>>
          \/ /\ InstallMayFail
             /\ Returns(t) /\ UNCHANGED <<frontendActive, mutex>>
  /\ UNCHANGED <<epoch, runtime, engine, capture, sinks, slot, hookVars, ended>>

InstallHooks(t) ==
  /\ Goes(t, "hooks", "fields")
  /\ UNCHANGED <<epoch, runtime, engine, native, slot, mutex, call, arg, hookVars, ended>>

\* The campaign's hooks or the console's registration fail: the frontend is
\* deactivated again, and the campaign's sinks if they were reached.
HooksFail(t) ==
  /\ InstallMayFail
  /\ Goes(t, "hooks", "uncapture")
  /\ sinks' \in {sinks \ {"frontend"}, {}}
  /\ frontendActive' = FALSE
  /\ UNCHANGED <<epoch, runtime, engine, capture, slot, mutex, call, arg, hookVars, ended>>

InstallFailed(t) ==
  /\ pc[t] = "failed"
  /\ Returns(t)
  /\ mutex' = "none"
  /\ UNCHANGED <<epoch, runtime, engine, native, slot, hookVars, ended>>

\* The slot's fields; the annexation callback may be null.
InstallFields(t) ==
  /\ Goes(t, "fields", "publish")
  /\ \E callbacks \in {Hooks, {"frontend"}} :
       automation' = [handle |-> nextAutomation, session |-> arg[t], epoch |-> epoch,
                      callbacks |-> callbacks, thread |-> t]
  /\ nextAutomation' = nextAutomation + 1
  /\ UNCHANGED <<epoch, runtime, engine, native, flag, refs, mutex, call, arg, hookVars, ended>>

\* control.store(automation_active).
InstallPublish(t) ==
  /\ Goes(t, "publish", "connect")
  /\ flag' = "active" /\ refs' = 0
  /\ UNCHANGED <<epoch, runtime, engine, native, automation, nextAutomation, mutex, call, arg,
                 hookVars, ended>>

InstallConnect(t) ==
  /\ pc[t] = "connect"
  /\ sinks' = Hooks
  /\ Returns(t)
  /\ mutex' = "none"
  /\ UNCHANGED <<epoch, runtime, engine, capture, frontendActive, slot, hookVars, ended>>

-----------------------------------------------------------------------------
(* DeactivateCampaignAutomation and DisableCampaignAutomation              *)

\* FindCampaignAutomation, without the mutex: STALE_HANDLE if the slot holds
\* another one, WRONG_THREAD if the game's thread installed it.
Deactivate(h) ==
  /\ pc["owner"] = "idle"
  /\ h = nextAutomation - 1 => call["game"] # "install"
  /\ IF automation.handle = h
     THEN automation.thread = "owner" /\ Calls("owner", "deactivate", h, "lock") /\ UNCHANGED ended
     ELSE ended' = ended \cup {h} /\ UNCHANGED callVars
  /\ UNCHANGED <<epoch, runtime, engine, native, slot, mutex, hookVars>>

\* CampaignAutomationStatus checks the session, whatever it says.
DeactivateLocks ==
  /\ mutex = "none"
  /\ Goes("owner", "lock", "disable")
  /\ mutex' = "owner"
  /\ Refreshes(automation.session, FALSE)
  /\ UNCHANGED <<epoch, nextSession, nextLease, engine, native, flag, refs, nextAutomation, call,
                 arg, hookVars, ended>>

\* The exchange to removing keeps the references.
Disable ==
  /\ Goes("owner", "disable", "drain")
  /\ flag' = IF flag = "active" THEN "removing" ELSE flag
  /\ UNCHANGED <<epoch, runtime, engine, native, refs, automation, nextAutomation, mutex, call, arg,
                 hookVars, ended>>

\* Fault: callbacks are not waited for.
Drained_NoWait ==
  /\ Goes("owner", "drain", "sinks")
  /\ UNCHANGED <<epoch, runtime, engine, native, slot, mutex, call, arg, hookVars, ended>>

\* The wait for callbacks, under the mutex.
Drained ==
  /\ refs = 0
  /\ Goes("owner", "drain", "sinks")
  /\ UNCHANGED <<epoch, runtime, engine, native, slot, mutex, call, arg, hookVars, ended>>

DisconnectSinks ==
  /\ Goes("owner", "sinks", "uncapture")
  /\ sinks' = {}
  /\ frontendActive' = FALSE
  /\ UNCHANGED <<epoch, runtime, engine, capture, slot, mutex, call, arg, hookVars, ended>>

\* What a deactivated frontend's release goes on to.
Released(t) == IF call[t] = "install" THEN "failed" ELSE "clear"

\* ReleaseCapturedFrontendController: the address ...
Uncapture(t) ==
  /\ Goes(t, "uncapture", IF capture.address = 0 THEN Released(t) ELSE "unthread")
  /\ capture' = [capture EXCEPT !.address = 0]
  /\ UNCHANGED <<epoch, runtime, engine, frontendActive, sinks, slot, mutex, call, arg,
                 hookVars, ended>>

\* ... then the thread and the generation, of whatever is captured by then.
Unthread(t) ==
  /\ Goes(t, "unthread", Released(t))
  /\ capture' = [capture EXCEPT !.thread = FALSE, !.generation = @ + 1]
  /\ UNCHANGED <<epoch, runtime, engine, frontendActive, sinks, slot, mutex, call, arg,
                 hookVars, ended>>

\* The fields, then control.store(0).
Clear ==
  /\ Goes("owner", "clear", "finish")
  /\ automation' = NoAutomation
  /\ flag' = "free" /\ refs' = 0
  /\ UNCHANGED <<epoch, runtime, engine, native, nextAutomation, mutex, call, arg, hookVars, ended>>

FinishDeactivate ==
  /\ pc["owner"] = "finish" /\ call["owner"] = "deactivate"
  /\ ended' = ended \cup {arg["owner"]}
  /\ Returns("owner")
  /\ mutex' = "none"
  /\ UNCHANGED <<epoch, runtime, engine, native, slot, hookVars>>

-----------------------------------------------------------------------------
HookStep ==
  \/ Capture \/ AcquireCallback \/ LoadCallback \/ InvokeCallback \/ CallbackReturns
  \/ ReleaseCallback

InstallStep(t) ==
  \/ InstallChecks(t) \/ InstallHooks(t) \/ HooksFail(t) \/ InstallFailed(t)
  \/ InstallFields(t) \/ InstallPublish(t) \/ InstallConnect(t) \/ Uncapture(t) \/ Unthread(t)

DisableStep ==
  \/ DeactivateLocks \/ Disable \/ Drained \/ DisconnectSinks \/ Clear
  \/ FinishOpen \/ FinishClose \/ FinishDeactivate

LeaseStep == CheckLessee \/ TakeLease

Next ==
  \/ NewGame \/ Construct \/ Annex
  \/ \E c \in controllers : Destroy(c)
  \/ HookStep \/ LeaseStep \/ DisableStep
  \/ \E t \in Threads : InstallStep(t)
  \/ OpenSession
  \/ \E i \in 1 .. SessionSlots : CloseSession(i)
  \/ \E h \in 1 .. nextSession - 1 :
       AcquireFrontend(h) \/ \E t \in Threads : UseSession(t, h) \/ BeginInstall(t, h)
  \/ \E i \in 1 .. LeaseSlots : UseFrontend(i) \/ ReleaseFrontend(i)
  \/ \E h \in 1 .. nextAutomation - 1 : Deactivate(h)

Spec == Init /\ [][Next]_vars

\* Both threads run on, callbacks return, and a thread gets the mutex that the
\* other takes and gives back.  Nothing makes anybody start a call.
FairSpec ==
  /\ Spec
  /\ WF_vars(HookStep) /\ SF_vars(LeaseStep) /\ SF_vars(DisableStep)
  /\ \A t \in Threads : SF_vars(InstallStep(t))

-----------------------------------------------------------------------------
(* What the services promise.                                              *)

\* "Owner-thread deactivation disables callback sinks before waiting for
\* acquired callbacks": no callback runs for a registration whose deactivation
\* has returned, nor for a session that is closed.
NoCallAfterEnd ==
  pc["game"] = "running" =>
    callback.automation \notin ended /\ callback.session \in Open

\* "invalidate its generation before native storage is released": the captured
\* controller is a live one, whoever deactivates while the game constructs and
\* destroys controllers.
CapturedIsAlive == capture.address # 0 => capture.address \in controllers

\* With no call under way the native side is connected exactly while there is
\* an automation: a failed installation leaves nothing behind, a deactivation
\* leaves no sink and a free word.
ConnectedIffInstalled ==
  pc["owner"] = "idle" /\ call["game"] # "install" =>
    IF automation.handle = 0
    THEN sinks = {} /\ ~frontendActive /\ flag = "free"
    ELSE sinks = Hooks /\ frontendActive /\ flag = "active"

\* A lease is of the game its session was last used in: a handle from before a
\* new game does not come back to life, whichever thread notices the new game.
LeasesFollowSessions ==
  \A i \in DOMAIN leases, j \in DOMAIN sessions :
    leases[i].handle # 0 /\ leases[i].owner = sessions[j].handle =>
      leases[i].epoch = sessions[j].epoch

\* The automation's session is open, so that closing it ends the automation.
AutomationOwned ==
  automation.handle # 0 => automation.session \in Open

\* What the slots, the sinks and the word say of each other, whatever calls and
\* failures came before: the connection is that of the automation, the automation
\* that of an open session, the leases those of the session's game.
OwnersAgree == TypeOK /\ ConnectedIffInstalled /\ LeasesFollowSessions /\ AutomationOwned

\* Open, close, install, deactivate and acquire return, and so do callbacks,
\* although the owner waits for callbacks with the mutex held.
EveryCallReturns == \A t \in Threads : pc[t] # "idle" ~> pc[t] = "idle"

-----------------------------------------------------------------------------
(* The inductive invariant behind them, for one registrant.                *)

\* The controller that was just constructed is there when it is captured.
CaptureIsFresh == pc["game"] = "capture" => constructed \in controllers

\* Session handles are not used again.
HandlesIssued ==
  /\ \A j \in DOMAIN sessions : sessions[j].handle < nextSession
  /\ \A i \in DOMAIN leases : leases[i].handle # 0 => leases[i].owner \in 1 .. nextSession - 1

\* The game's thread takes a lease in the game it found the session in.
LeaseIsDue ==
  /\ pc["game"] \in {"status", "lease"} =>
       arg["game"] \in 1 .. nextSession - 1 /\ nextLease <= MaxLeases
  /\ pc["game"] = "lease" =>
       \A j \in DOMAIN sessions : sessions[j].handle = arg["game"] => sessions[j].epoch = epoch

\* Where each thread can be in which call, and on what.
CallsInPlace ==
  /\ pc["game"] \in {"idle"} \cup GamePcs /\ call["game"] = "none"
  /\ pc["owner"] = "idle" => call["owner"] = "none"
  /\ pc["owner"] = "lock" => call["owner"] = "deactivate"
  /\ pc["owner"] \in {"disable", "drain", "sinks", "clear", "finish"} =>
       call["owner"] \in {"open", "close", "deactivate"}
  /\ pc["owner"] \in InstallPcs => call["owner"] = "install"
  /\ pc["owner"] \in {"uncapture", "unthread"} => call["owner"] # "none"
  /\ pc["owner"] \in {"idle"} \cup OwnerPcs \cup InstallPcs
  /\ call["owner"] = "open" => arg["owner"] \in 1 .. SessionSlots /\ nextSession <= MaxSessions
  /\ call["owner"] = "close" => arg["owner"] \in 1 .. SessionSlots
  /\ call["owner"] = "install" => arg["owner"] \in Open
  /\ pc["owner"] \in {"check", "hooks", "fields"} => nextAutomation <= MaxAutomations
  /\ call["owner"] = "deactivate" =>
       /\ arg["owner"] \in 1 .. nextAutomation - 1
       /\ pc["owner"] # "finish" => automation.handle = arg["owner"]

Connected    == sinks = Hooks /\ frontendActive /\ flag = "active" /\ automation.handle # 0
Disconnected == sinks = {} /\ ~frontendActive /\ flag = "free" /\ automation.handle = 0

\* The game's thread is between the reference it took and its release.
InCallback == pc["game"] \in {"load", "invoke", "running", "release"}

\* How far the owner's call has come in connecting or disconnecting.
ConnectedSoFar ==
  /\ pc["owner"] = "idle" => Connected \/ Disconnected
  /\ pc["owner"] \in {"lock", "disable"} => Connected
  /\ pc["owner"] \in {"check", "failed", "finish"} => Disconnected
  /\ pc["owner"] \in {"uncapture", "unthread"} /\ call["owner"] = "install" => Disconnected
  /\ pc["owner"] \in {"hooks", "fields"} =>
       sinks = {} /\ frontendActive /\ flag = "free" /\ automation.handle = 0
  /\ pc["owner"] \in {"publish", "connect"} =>
       /\ sinks = {} /\ frontendActive /\ automation.handle # 0
       /\ flag = IF pc["owner"] = "publish" THEN "free" ELSE "active"
  /\ pc["owner"] \in {"drain", "sinks"} =>
       /\ sinks = Hooks /\ frontendActive /\ flag = "removing" /\ automation.handle # 0
       /\ pc["owner"] = "sinks" => ~InCallback
  /\ (pc["owner"] \in {"uncapture", "unthread"} /\ call["owner"] # "install") \/ pc["owner"] = "clear" =>
       sinks = {} /\ ~frontendActive /\ flag = "removing" /\ automation.handle # 0 /\ ~InCallback

\* One reference for the one callback under way, and none to a free slot.
CallbackCounted ==
  /\ refs = IF InCallback THEN 1 ELSE 0
  /\ InCallback => flag # "free"
  /\ pc["game"] \in {"invoke", "running"} =>
       callback.automation = automation.handle /\ callback.session = automation.session

\* A registration that has ended is not the one in the slot.
EndedIsGone ==
  /\ ended \subseteq 1 .. nextAutomation - 1
  /\ automation.handle # 0 => automation.handle \in (1 .. nextAutomation - 1) \ ended
  /\ automation.handle = 0 => automation.session = 0

IInv ==
  /\ TypeOK /\ CapturedIsAlive /\ CaptureIsFresh /\ LeasesFollowSessions /\ HandlesIssued /\ LeaseIsDue
  /\ CallsInPlace /\ ConnectedSoFar /\ CallbackCounted /\ EndedIsGone /\ AutomationOwned

=============================================================================
