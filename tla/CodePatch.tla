----------------------------- MODULE CodePatch ------------------------------
(***************************************************************************)
(* One place of the game's code patched and restored while the game runs:  *)
(* the suspension of the other threads and the registry of patches         *)
(* (kernel/src/memory.cpp), and the three kinds of patch made under it: a  *)
(* raw hook (memory.cpp), a replaced call (factory_sales_hook.cpp) and the *)
(* entry of CPop::GiveMoney (pop_cash_flow_hook.cpp), which alone has a    *)
(* trampoline and buffers to free.                                         *)
(*                                                                         *)
(* A thread of the game is where its instruction pointer is.  The patcher  *)
(* is the thread that installs and uninstalls: it is never suspended and   *)
(* is not one of Threads.  What it cannot undo ends the process.           *)
(***************************************************************************)
EXTENDS Integers, FiniteSets

CONSTANTS
  Kinds,         \* the kinds of patch tried: of "raw", "call", "pop"
  Threads,       \* the game's threads, those not yet created included
  First,         \* the threads there are at the start
  MaxAttempts,   \* 8: how often the threads are enumerated
  MaxInstalls,   \* bound of the checks on installations
  MaxCalls       \* bound of the checks on calls of the patched code

ASSUME CodePatchAssumption ==
  /\ Kinds \subseteq {"raw", "call", "pop"}
  /\ IsFiniteSet(Threads) /\ First \subseteq Threads
  /\ MaxAttempts \in Nat \ {0} /\ MaxInstalls \in Nat /\ MaxCalls \in Nat

VARIABLES
  kind,       \* which patch it is
  at,         \* where each thread is
  bytes,      \* what stands at the place
  registered, \* the patch is in registered_code_patches
  installed, poisoned, active,
  buffers,    \* the capture buffers are allocated
  trampoline, \* the trampoline is allocated
  inFlight,   \* in_flight
  suspended,  \* threads_: the suspended threads
  listed,     \* those of the snapshot not reached yet
  attempt,
  pc, call,   \* the patcher's step and call
  outcome,    \* what quiescence was used for: nothing, a look, a write
  running,    \* the process has not been terminated
  installs, calls  \* counters of the bounds

game     == <<at, inFlight, calls>>
patch    == <<bytes, registered, installed, poisoned, active, buffers, trampoline>>
threads_ == <<suspended, listed, attempt>>
patcher  == <<pc, call, outcome, installs>>
vars     == <<kind, game, patch, threads_, patcher, running>>

\* In the game's code: the first overwritten instruction, the others, beyond.
Site   == {"entry", "inside"}
\* In the kernel's.
Module == {"hook", "counted", "captured", "storing", "leaving", "left"}
Places == {"unborn", "gone", "game", "trampoline", "nested"} \cup Site \cup Module

Alive == {t \in Threads : at[t] \notin {"unborn", "gone"}}

TypeOK ==
  /\ kind \in Kinds /\ at \in [Threads -> Places] /\ bytes \in {"original", "hook"}
  /\ {registered, installed, poisoned, active, buffers, trampoline, running} \subseteq BOOLEAN
  /\ inFlight \in 0 .. Cardinality(Threads)
  /\ suspended \subseteq Threads /\ listed \subseteq Threads /\ attempt \in 0 .. MaxAttempts - 1
  /\ pc \in {"idle", "snapshot", "suspend", "verify", "inspect", "write", "release",
             "after", "drain", "free"}
  /\ call \in {"none", "install", "uninstall", "wait"}
  /\ outcome \in {"none", "quiet", "written"}
  /\ installs \in 0 .. MaxInstalls /\ calls \in 0 .. MaxCalls

Init ==
  /\ kind \in Kinds
  /\ at = [t \in Threads |-> IF t \in First THEN "game" ELSE "unborn"]
  /\ bytes = "original" /\ registered = FALSE
  /\ installed = FALSE /\ poisoned = FALSE /\ active = FALSE
  /\ buffers = FALSE /\ trampoline = FALSE /\ inFlight = 0
  /\ suspended = {} /\ listed = {} /\ attempt = 0
  /\ pc = "idle" /\ call = "none" /\ outcome = "none"
  /\ running = TRUE /\ installs = 0 /\ calls = 0

\* ---------------------------------------------------------------------------
\* The game's threads.

Runs(t) == running /\ t \in Alive /\ t \notin suspended

Moves(t, from, to) ==
  /\ Runs(t) /\ at[t] = from /\ at' = [at EXCEPT ![t] = to]
  /\ UNCHANGED <<kind, patch, threads_, patcher, running>>

Create(t, born) ==
  /\ Runs(t) /\ at[born] = "unborn" /\ at' = [at EXCEPT ![born] = "game"]
  /\ UNCHANGED <<kind, inFlight, calls, patch, threads_, patcher, running>>

Exit(t) == Moves(t, "game", "gone") /\ UNCHANGED <<inFlight, calls>>

\* Calls what is patched.
Enter(t) ==
  /\ calls < MaxCalls /\ calls' = calls + 1
  /\ Moves(t, "game", "entry") /\ UNCHANGED inFlight

\* The instruction at the place: the game's own, of which a call is the only
\* one, or the jump to the hook.
Execute(t) ==
  /\ \/ bytes = "original" /\ kind = "call" /\ Moves(t, "entry", "game")
     \/ bytes = "original" /\ kind # "call" /\ Moves(t, "entry", "inside")
     \/ bytes = "hook" /\ Moves(t, "entry", "hook")
  /\ UNCHANGED <<inFlight, calls>>

Finish(t) == Moves(t, "inside", "game") /\ UNCHANGED <<inFlight, calls>>

\* A raw hook and a replaced call go on to the game's code.
Return(t) == kind # "pop" /\ Moves(t, "hook", "game") /\ UNCHANGED <<inFlight, calls>>

\* GiveMoneyHook, step by step: it counts itself, ...
Count(t) ==
  /\ kind = "pop" /\ Moves(t, "hook", "counted")
  /\ inFlight' = inFlight + 1 /\ UNCHANGED calls

\* ... calls the trampoline, which leads into GiveMoney, ...
CallTrampoline(t) == Moves(t, "counted", "trampoline") /\ UNCHANGED <<inFlight, calls>>
EnterBody(t) == Moves(t, "trampoline", "nested") /\ UNCHANGED <<inFlight, calls>>
ReturnToHook(t) == Moves(t, "nested", "captured") /\ UNCHANGED <<inFlight, calls>>

\* Mutant of the next: captures although the hook is no longer active.
CapturePopCashFlow_Always(t) ==
  Moves(t, "captured", "storing") /\ UNCHANGED <<inFlight, calls>>

\* ... captures the payment while the hook is active, ...
CapturePopCashFlow(t) ==
  /\ \/ active /\ Moves(t, "captured", "storing")
     \/ ~active /\ Moves(t, "captured", "leaving")
  /\ UNCHANGED <<inFlight, calls>>

\* ... and is counted no more.
Store(t) ==
  /\ Moves(t, "storing", "leaving") /\ UNCHANGED <<inFlight, calls>>
Uncount(t) ==
  /\ Moves(t, "leaving", "left") /\ inFlight' = inFlight - 1 /\ UNCHANGED calls
Leave(t) == Moves(t, "left", "game") /\ UNCHANGED <<inFlight, calls>>

Game(t) ==
  \/ Exit(t) \/ Enter(t) \/ Execute(t) \/ Finish(t) \/ Return(t) \/ Count(t)
  \/ CallTrampoline(t) \/ EnterBody(t) \/ ReturnToHook(t) \/ CapturePopCashFlow(t)
  \/ Store(t) \/ Uncount(t) \/ Leave(t) \/ \E born \in Threads : Create(t, born)

\* ---------------------------------------------------------------------------
\* ScopedThreadQuiescence.

At(from, to) == running /\ pc = from /\ pc' = to

Resumed == suspended' = {} /\ listed' = {} /\ attempt' = 0

\* An enumeration of the process's threads; with any failure the suspended
\* ones are resumed and the call goes on without quiescence.
Snapshot ==
  /\ \/ At("snapshot", "suspend") /\ listed' = Alive /\ UNCHANGED <<suspended, attempt>>
     \/ At("snapshot", "after") /\ Resumed
  /\ UNCHANGED <<kind, game, patch, call, outcome, installs, running>>

\* The next thread of the snapshot: suspended unless it is already or is gone.
Suspend ==
  /\ \E t \in listed :
       \/ /\ At("suspend", "suspend") /\ listed' = listed \ {t}
          /\ suspended' = IF t \in Alive THEN suspended \cup {t} ELSE suspended
          /\ UNCHANGED attempt
       \/ t \in Alive /\ t \notin suspended /\ At("suspend", "after") /\ Resumed
  /\ UNCHANGED <<kind, game, patch, call, outcome, installs, running>>

\* The threads are enumerated once more: a thread created since is found here.
Verify ==
  /\ listed = {}
  /\ \/ Alive \subseteq suspended /\ At("suspend", "inspect") /\ UNCHANGED threads_
     \/ /\ ~ Alive \subseteq suspended /\ attempt + 1 < MaxAttempts
        /\ At("suspend", "snapshot") /\ attempt' = attempt + 1 /\ UNCHANGED <<suspended, listed>>
     \/ /\ ~ Alive \subseteq suspended /\ attempt + 1 = MaxAttempts
        /\ At("suspend", "after") /\ Resumed
  /\ UNCHANGED <<kind, game, patch, call, outcome, installs, running>>

\* The instruction pointers that forbid the write.
Forbidden ==
  CASE kind = "call"                      -> {}
    [] kind = "pop" /\ call = "uninstall" -> {"inside"}
    [] OTHER                              -> Site

AnyInstructionPointerIn(places) == \E t \in suspended : at[t] \in places

\* Where the threads stand, which may also turn out to be unreadable.
Inspect ==
  /\ call \in {"install", "uninstall"}
  /\ \/ ~ AnyInstructionPointerIn(Forbidden) /\ At("inspect", "write")
     \/ kind # "call" /\ At("inspect", "release")
  /\ outcome' = "quiet" /\ UNCHANGED <<kind, game, patch, threads_, call, installs, running>>

\* The bytes are written, or not (protection, flush), or left in a state
\* nothing is known of, which ends the process.
Write ==
  /\ \/ /\ At("write", "release") /\ outcome' = "written"
        /\ bytes' = IF call = "install" THEN "hook" ELSE "original"
        /\ installed' = (installed \/ call = "install") /\ UNCHANGED running
     \/ At("write", "release") /\ UNCHANGED <<bytes, installed, outcome, running>>
     \/ At("write", "idle") /\ running' = FALSE /\ UNCHANGED <<bytes, installed, outcome>>
  /\ UNCHANGED <<kind, game, registered, poisoned, active, buffers, trampoline, threads_,
                 call, installs>>

\* The threads run again; one that cannot be resumed ends the process.
Release ==
  /\ \/ At("release", "after") /\ Resumed /\ UNCHANGED running
     \/ At("release", "idle") /\ running' = FALSE /\ UNCHANGED threads_
  /\ UNCHANGED <<kind, game, patch, call, outcome, installs>>

\* ---------------------------------------------------------------------------
\* The registry of patches: an address once; TerminateProcess otherwise.

RegisterCodePatch   == ~registered /\ registered' = TRUE
UnregisterCodePatch == registered /\ registered' = FALSE
MatchesOriginalOrRegisteredCodePatch == bytes = "original" \/ registered

\* ---------------------------------------------------------------------------
\* Installation and removal: up to quiescence, and from it on.

Begins(k, name) ==
  /\ kind = k /\ At("idle", "snapshot") /\ call' = name /\ outcome' = "none"
  /\ UNCHANGED <<kind, game, bytes, installed, poisoned, threads_, running>>
BeginsInstall(k) ==
  /\ installs < MaxInstalls /\ installs' = installs + 1
  /\ ~installed /\ ~poisoned /\ Begins(k, "install") /\ UNCHANGED active
BeginsUninstall(k) ==
  /\ installed /\ Begins(k, "uninstall") /\ active' = FALSE
  /\ UNCHANGED <<installs, registered, buffers, trampoline>>
Goes(k, name, step) ==
  /\ kind = k /\ call = name /\ At("after", step)
  /\ UNCHANGED <<kind, game, bytes, buffers, trampoline, threads_, installs, running>>
Ends(k, name) == Goes(k, name, "idle") /\ call' = "none" /\ outcome' = "none"

InstallRawHook == BeginsInstall("raw") /\ UNCHANGED <<registered, buffers, trampoline>>
RawHookInstalled == Ends("raw", "install") /\ UNCHANGED <<registered, installed, poisoned, active>>

RestoreRawHook == BeginsUninstall("raw")
RawHookRestored ==
  /\ Ends("raw", "uninstall") /\ installed' = (outcome # "written")
  /\ UNCHANGED <<registered, poisoned, active>>

InstallFactorySalesHook == BeginsInstall("call") /\ UNCHANGED <<registered, buffers, trampoline>>
FactorySalesHookInstalled ==
  /\ Ends("call", "install") /\ active' = (outcome = "written")
  /\ UNCHANGED <<registered, installed, poisoned>>

UninstallFactorySalesHook == BeginsUninstall("call")
FactorySalesHookUninstalled ==
  /\ Ends("call", "uninstall") /\ installed' = (outcome # "written")
  /\ UNCHANGED <<registered, poisoned, active>>

\* The POP hook first makes its buffers and its trampoline and registers ...
InstallPopCashFlowHook ==
  BeginsInstall("pop") /\ RegisterCodePatch /\ buffers' = TRUE /\ trampoline' = TRUE

\* ... unless there is no memory, which frees the buffers, or the place holds
\* neither the game's bytes nor the patch, which leaves them.
BuildTrampoline ==
  /\ kind = "pop" /\ running /\ pc = "idle" /\ ~installed /\ ~poisoned
  /\ \/ buffers' = FALSE /\ UNCHANGED trampoline
     \/ buffers' = TRUE /\ trampoline' = TRUE
  /\ UNCHANGED <<kind, game, bytes, registered, installed, poisoned, active, threads_, patcher,
                 running>>

\* Capture begins, or the patch is registered no more.
PopCashFlowHookInstalled ==
  /\ Ends("pop", "install")
  /\ \/ outcome = "written" /\ active' = TRUE /\ UNCHANGED registered
     \/ outcome # "written" /\ UnregisterCodePatch /\ UNCHANGED active
  /\ UNCHANGED <<installed, poisoned>>

UninstallPopCashFlowHook == BeginsUninstall("pop")

\* Mutant of the next: a patch that was not removed is not registered either.
PopCashFlowHookRestored_Unregisters ==
  /\ \/ outcome = "written" /\ Goes("pop", "uninstall", "drain") /\ UNCHANGED <<poisoned, call, outcome>>
     \/ /\ outcome # "written" /\ Ends("pop", "uninstall")
        /\ poisoned' = (poisoned \/ outcome = "quiet")
  /\ UnregisterCodePatch /\ UNCHANGED <<installed, active>>

\* What is restored is registered no more; what is not is poisoned, unless the
\* threads were never still.
PopCashFlowHookRestored ==
  /\ \/ /\ outcome = "written" /\ Goes("pop", "uninstall", "drain") /\ UnregisterCodePatch
        /\ UNCHANGED <<poisoned, call, outcome>>
     \/ /\ outcome # "written" /\ Ends("pop", "uninstall") /\ UNCHANGED registered
        /\ poisoned' = (poisoned \/ outcome = "quiet")
  /\ UNCHANGED <<installed, active>>

\* The invocations counted have ended, or five seconds have passed.
Drain ==
  /\ \/ inFlight = 0 /\ At("drain", "snapshot") /\ call' = "wait" /\ UNCHANGED running
     \/ inFlight # 0 /\ At("drain", "idle") /\ running' = FALSE /\ UNCHANGED call
  /\ UNCHANGED <<kind, game, patch, threads_, outcome, installs>>

\* WaitForTelemetryThreads: again and again until no thread is in the
\* kernel's code, or five seconds have passed.
ThreadsLeft ==
  /\ call = "wait"
  /\ \/ /\ ~ AnyInstructionPointerIn(Module) /\ At("inspect", "free") /\ UNCHANGED running
     \/ /\ AnyInstructionPointerIn(Module) /\ At("inspect", "snapshot") /\ UNCHANGED running
     \/ At("inspect", "idle") /\ running' = FALSE
  /\ Resumed /\ UNCHANGED <<kind, game, patch, call, outcome, installs>>

\* Threads that could not be made still: the process ends.
WaitFailed ==
  /\ call = "wait" /\ At("after", "idle") /\ running' = FALSE
  /\ UNCHANGED <<kind, game, patch, threads_, call, outcome, installs>>

Free ==
  /\ At("free", "idle") /\ call' = "none" /\ outcome' = "none"
  /\ trampoline' = FALSE /\ buffers' = FALSE /\ installed' = FALSE
  /\ UNCHANGED <<kind, game, bytes, registered, poisoned, active, threads_, installs, running>>

Patcher ==
  \/ Snapshot \/ Suspend \/ Verify \/ Inspect \/ Write \/ Release
  \/ InstallRawHook \/ RawHookInstalled \/ RestoreRawHook \/ RawHookRestored
  \/ InstallFactorySalesHook \/ FactorySalesHookInstalled
  \/ UninstallFactorySalesHook \/ FactorySalesHookUninstalled
  \/ InstallPopCashFlowHook \/ BuildTrampoline \/ PopCashFlowHookInstalled
  \/ UninstallPopCashFlowHook \/ PopCashFlowHookRestored
  \/ Drain \/ ThreadsLeft \/ WaitFailed \/ Free

Next == Patcher \/ \E t \in Threads : Game(t)

Spec == Init /\ [][Next]_vars

\* ---------------------------------------------------------------------------
\* No thread is between two instructions of the game that a hook has replaced
\* (AnyInstructionPointerIn under ScopedThreadQuiescence): also not one that
\* was created while the others were being suspended.
NoTornExecution ==
  running /\ bytes = "hook" => \A t \in Threads : at[t] # "inside"

\* A payment is only written to buffers that are still there
\* (UninstallPopCashFlowHook): the invocations not counted when in_flight was
\* read, or not seen in the module, find the hook inactive.
BuffersOutliveStores ==
  running => \A t \in Threads : at[t] = "storing" => buffers

\* What stands at the place is always the game's bytes or a patch that is
\* registered (MatchesOriginalOrRegisteredCodePatch, by which the interest
\* payout accepts GiveMoney) and that the uninstaller knows of, however an
\* installation or a removal failed.
PatchIsKnown ==
  running => /\ bytes = "hook" => installed
             /\ kind = "pop" => MatchesOriginalOrRegisteredCodePatch

\* No thread of the game is caught by a patch: in the middle of replaced
\* instructions, or with freed buffers under its hand.
NoThreadIsCaught == NoTornExecution /\ BuffersOutliveStores

\* ---------------------------------------------------------------------------
\* The inductive invariant behind both.

\* From the enumeration that found nothing new until the threads are resumed,
\* every thread is suspended, so that none moves and none is created.
StoodStill == pc \in {"inspect", "write", "release"} => Alive \subseteq suspended

\* What each kind of patch leads a thread to.
PlacesOfKind ==
  \A t \in Threads :
    /\ at[t] = "inside" => kind # "call"
    /\ at[t] \in {"trampoline", "nested"} \cup (Module \ {"hook"}) => kind = "pop"

\* The code an installation replaces was seen to be empty, and stays so.
SiteIsClear ==
  bytes = "hook" \/ (pc = "write" /\ call = "install") => \A t \in Threads : at[t] # "inside"

\* What the patcher's steps and its call say of each other.
StepsOfCall ==
  /\ pc = "idle" <=> call = "none"
  /\ pc \in {"write", "release"} => call \in {"install", "uninstall"}
  /\ pc = "drain" => call = "uninstall" /\ kind = "pop"
  /\ pc = "free" => call = "wait"
  /\ call = "wait" => kind = "pop"

\* What the patcher knows of the bytes: by outcome while a call goes on.
OutcomeIsTrue ==
  /\ pc \in {"snapshot", "suspend", "inspect"} /\ call # "wait" => outcome = "none"
  /\ pc = "write" => outcome = "quiet"
  /\ call = "install" =>
       /\ bytes = "hook" <=> outcome = "written"
       /\ installed <=> outcome = "written"
       /\ kind = "pop" => registered /\ buffers
  /\ call = "uninstall" /\ outcome = "written" => bytes = "original"
  /\ call = "wait" \/ pc = "drain" => bytes = "original"
  /\ call \in {"uninstall", "wait"} => installed /\ ~active

\* Capture goes on, and buffers are in use, only in an installed patch.
CaptureIsInstalled ==
  /\ active => installed
  /\ kind = "pop" /\ installed => buffers
  /\ \A t \in Threads : at[t] = "storing" => installed /\ pc # "free"

\* in_flight counts the threads between Count and Uncount.
Counted  == {"counted", "trampoline", "nested", "captured", "storing", "leaving"}
InFlight == {t \in Threads : at[t] \in Counted}

InFlightExact == inFlight = Cardinality(InFlight)

IInv ==
  /\ TypeOK /\ InFlightExact
  /\ running => /\ StoodStill /\ PlacesOfKind /\ SiteIsClear /\ StepsOfCall
                /\ OutcomeIsTrue /\ CaptureIsInstalled /\ PatchIsKnown
=============================================================================
