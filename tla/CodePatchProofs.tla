--------------------------- MODULE CodePatchProofs ---------------------------
(***************************************************************************)
(* Theorems about CodePatch: for any threads, kinds of patch and number of *)
(* attempts, no thread is caught by a patch.                               *)
(***************************************************************************)
EXTENDS CodePatch, FiniteSetTheorems, TLAPS

-----------------------------------------------------------------------------
(* Counting the invocations in flight.                                     *)

LEMMA InFlightFinite == IsFiniteSet(InFlight) /\ Cardinality(InFlight) \in 0 .. Cardinality(Threads)
  <1>1. InFlight \subseteq Threads /\ IsFiniteSet(Threads)
    BY CodePatchAssumption DEF InFlight
  <1> QED BY <1>1, FS_Subset, FS_CardinalityType

\* One thread's move counts it in, counts it out or does neither.
LEMMA MoveCounts ==
  ASSUME at \in [Threads -> Places], NEW t \in Threads, NEW to \in Places,
         at' = [at EXCEPT ![t] = to]
  PROVE  /\ at[t] \notin Counted /\ to \in Counted =>
              Cardinality(InFlight') = Cardinality(InFlight) + 1
         /\ at[t] \in Counted /\ to \notin Counted =>
              Cardinality(InFlight') = Cardinality(InFlight) - 1
         /\ (at[t] \in Counted <=> to \in Counted) =>
              Cardinality(InFlight') = Cardinality(InFlight)
  <1>1. CASE at[t] \notin Counted /\ to \in Counted
    <2>1. InFlight' = InFlight \cup {t} /\ t \notin InFlight
      BY <1>1 DEF InFlight
    <2> QED BY <1>1, <2>1, InFlightFinite, FS_AddElement
  <1>2. CASE at[t] \in Counted /\ to \notin Counted
    <2>1. InFlight' = InFlight \ {t} /\ t \in InFlight
      BY <1>2 DEF InFlight
    <2> QED BY <1>2, <2>1, InFlightFinite, FS_RemoveElement
  <1>3. CASE at[t] \in Counted <=> to \in Counted
    <2>1. InFlight' = InFlight
      BY <1>3 DEF InFlight
    <2> QED BY <1>3, <2>1
  <1> QED BY <1>1, <1>2, <1>3

-----------------------------------------------------------------------------
(* The steps of the game.                                                  *)

\* A step of the game takes one thread to another place, by a thread that is
\* running and leaves the patcher's variables alone.
GameMoves(t, u, to) ==
  /\ Runs(t) /\ at' = [at EXCEPT ![u] = to] /\ to \in Places
  /\ UNCHANGED <<kind, patch, threads_, patcher, running>>
  /\ u = t \/ at[u] = "unborn"
  /\ to = "inside" => bytes = "original" /\ kind # "call"
  /\ to \in {"trampoline", "nested"} \cup (Module \ {"hook"}) => kind = "pop"
  /\ to = "storing" => active
  /\ calls' \in {calls, calls + 1} /\ calls' <= MaxCalls
  /\ \/ inFlight' = inFlight /\ (at[u] \in Counted <=> to \in Counted)
     \/ inFlight' = inFlight + 1 /\ at[u] \notin Counted /\ to \in Counted
     \/ inFlight' = inFlight - 1 /\ at[u] \in Counted /\ to \notin Counted

LEMMA GameStep ==
  ASSUME TypeOK, running => PlacesOfKind, NEW t \in Threads, Game(t)
  PROVE  \E u \in Threads, to \in Places : GameMoves(t, u, to)
  <1> USE DEF Places, Site, Module, Counted
  <1>1. calls \in Nat /\ calls <= MaxCalls /\ MaxCalls \in Nat
    BY CodePatchAssumption DEF TypeOK
  <1>2. CASE Exit(t)
    <2>1. GameMoves(t, t, "gone")
      BY <1>1, <1>2 DEF Exit, Moves, GameMoves
    <2> QED BY <2>1
  <1>3. CASE Enter(t)
    <2>1. GameMoves(t, t, "entry")
      BY <1>1, <1>3 DEF Enter, Moves, GameMoves
    <2> QED BY <2>1
  <1>4. CASE Execute(t)
    <2>1. GameMoves(t, t, "game") \/ GameMoves(t, t, "inside") \/ GameMoves(t, t, "hook")
      BY <1>1, <1>4 DEF Execute, Moves, GameMoves
    <2> QED BY <2>1
  <1>5. CASE Finish(t) \/ Return(t) \/ Leave(t)
    <2>1. GameMoves(t, t, "game")
      BY <1>1, <1>5 DEF Finish, Return, Leave, Moves, GameMoves
    <2> QED BY <2>1
  <1>6. CASE Count(t)
    <2>1. GameMoves(t, t, "counted")
      BY <1>1, <1>6 DEF Count, Moves, GameMoves
    <2> QED BY <2>1
  <1>7. CASE CallTrampoline(t)
    <2>1. GameMoves(t, t, "trampoline")
      BY <1>1, <1>7 DEF CallTrampoline, Moves, GameMoves, Runs, PlacesOfKind
    <2> QED BY <2>1
  <1>8. CASE EnterBody(t)
    <2>1. GameMoves(t, t, "nested")
      BY <1>1, <1>8 DEF EnterBody, Moves, GameMoves, Runs, PlacesOfKind
    <2> QED BY <2>1
  <1>9. CASE ReturnToHook(t)
    <2>1. GameMoves(t, t, "captured")
      BY <1>1, <1>9 DEF ReturnToHook, Moves, GameMoves, Runs, PlacesOfKind
    <2> QED BY <2>1
  <1>10. CASE CapturePopCashFlow(t)
    <2>1. GameMoves(t, t, "storing") \/ GameMoves(t, t, "leaving")
      BY <1>1, <1>10 DEF CapturePopCashFlow, Moves, GameMoves, Runs, PlacesOfKind
    <2> QED BY <2>1
  <1>11. CASE Store(t)
    <2>1. GameMoves(t, t, "leaving")
      BY <1>1, <1>11 DEF Store, Moves, GameMoves, Runs, PlacesOfKind
    <2> QED BY <2>1
  <1>12. CASE Uncount(t)
    <2>1. GameMoves(t, t, "left")
      BY <1>1, <1>12 DEF Uncount, Moves, GameMoves, Runs, PlacesOfKind
    <2> QED BY <2>1
  <1>13. CASE \E born \in Threads : Create(t, born)
    <2>1. PICK born \in Threads : Create(t, born)
      BY <1>13
    <2>2. GameMoves(t, born, "game")
      BY <1>1, <2>1 DEF Create, GameMoves
    <2> QED BY <2>2
  <1> QED BY <1>2, <1>3, <1>4, <1>5, <1>6, <1>7, <1>8, <1>9, <1>10, <1>11, <1>12, <1>13 DEF Game

LEMMA GameKeepsInv ==
  ASSUME IInv, NEW t \in Threads, Game(t)
  PROVE  IInv'
  <1>1. PICK u \in Threads, to \in Places : GameMoves(t, u, to)
    BY GameStep DEF IInv
  <1>2. /\ running /\ t \in Alive /\ t \notin suspended
        /\ at' = [at EXCEPT ![u] = to] /\ at \in [Threads -> Places]
    BY <1>1 DEF GameMoves, Runs, IInv, TypeOK
  <1>3. UNCHANGED <<kind, bytes, registered, installed, poisoned, active, buffers, trampoline,
                    suspended, listed, attempt, pc, call, outcome, running, installs>>
    BY <1>1 DEF GameMoves, patch, threads_, patcher
  <1>4. InFlightExact'
    <2>1. /\ at[u] \notin Counted /\ to \in Counted =>
               Cardinality(InFlight') = Cardinality(InFlight) + 1
          /\ at[u] \in Counted /\ to \notin Counted =>
               Cardinality(InFlight') = Cardinality(InFlight) - 1
          /\ (at[u] \in Counted <=> to \in Counted) =>
               Cardinality(InFlight') = Cardinality(InFlight)
      BY <1>2, MoveCounts
    <2>2. inFlight = Cardinality(InFlight)
      BY DEF IInv, InFlightExact
    <2> QED BY <1>1, <2>1, <2>2 DEF GameMoves, InFlightExact
  <1>5. TypeOK'
    <2>1. inFlight' \in 0 .. Cardinality(Threads)
      <3>1. InFlight' \subseteq Threads
        BY DEF InFlight
      <3> QED BY <1>4, <3>1, CodePatchAssumption, FS_Subset, FS_CardinalityType DEF InFlightExact
    <2>2. calls' \in 0 .. MaxCalls
      BY <1>1, CodePatchAssumption DEF GameMoves, IInv, TypeOK
    <2>3. at' \in [Threads -> Places]
      BY <1>2
    <2> QED BY <1>3, <2>1, <2>2, <2>3 DEF IInv, TypeOK
  <1>6. StoodStill'
    BY <1>2, <1>3 DEF IInv, StoodStill
  <1>7. PlacesOfKind'
    BY <1>1, <1>2, <1>3 DEF IInv, PlacesOfKind, GameMoves, Module
  <1>8. SiteIsClear'
    <2>1. bytes = "original" => bytes # "hook"
      OBVIOUS
    <2>2. pc # "write"
      BY <1>2 DEF IInv, StoodStill
    <2> QED BY <1>1, <1>2, <1>3, <2>1, <2>2 DEF IInv, SiteIsClear, GameMoves
  <1>9. StepsOfCall' /\ OutcomeIsTrue' /\ PatchIsKnown'
    BY <1>2, <1>3 DEF IInv, StepsOfCall, OutcomeIsTrue, PatchIsKnown,
                      MatchesOriginalOrRegisteredCodePatch
  <1>10. CaptureIsInstalled'
    BY <1>1, <1>2, <1>3 DEF IInv, CaptureIsInstalled, OutcomeIsTrue, StepsOfCall, GameMoves
  <1> QED BY <1>4, <1>5, <1>6, <1>7, <1>8, <1>9, <1>10 DEF IInv

-----------------------------------------------------------------------------
(* The steps of the patcher.                                               *)

\* What the patcher never changes.
LEMMA GameUnmoved ==
  ASSUME InFlightExact, PlacesOfKind, UNCHANGED <<kind, game>>
  PROVE  InFlightExact' /\ PlacesOfKind'
  BY DEF InFlightExact, InFlight, PlacesOfKind, game

\* The threads are suspended and looked at: the registry does not change.
LEMMA QuiescenceKeepsInv ==
  ASSUME IInv, Snapshot \/ Suspend \/ Verify \/ Inspect \/ Release
  PROVE  IInv'
  <1>1. /\ UNCHANGED <<kind, at, inFlight, calls, bytes, registered, installed, poisoned, active,
                       buffers, trampoline, call, installs>>
        /\ running
    BY DEF Snapshot, Suspend, Verify, Inspect, Release, At, game, patch
  <1>2. TypeOK'
    <2>1. attempt \in Nat /\ MaxAttempts \in Nat \ {0} /\ attempt <= MaxAttempts - 1
      BY CodePatchAssumption DEF IInv, TypeOK
    <2>2. suspended' \subseteq Threads /\ listed' \subseteq Threads /\ attempt' \in 0 .. MaxAttempts - 1
      BY <2>1 DEF Snapshot, Suspend, Verify, Inspect, Release, Resumed, threads_, Alive, IInv, TypeOK
    <2>3. /\ pc' \in {"idle", "snapshot", "suspend", "verify", "inspect", "write", "release",
                      "after", "drain", "free"}
          /\ outcome' \in {"none", "quiet", "written"}
          /\ running' \in BOOLEAN
      BY <1>1 DEF Snapshot, Suspend, Verify, Inspect, Release, At, IInv, TypeOK
    <2> QED BY <1>1, <2>2, <2>3 DEF IInv, TypeOK
  <1>3. InFlightExact' /\ PlacesOfKind'
    BY <1>1, GameUnmoved DEF IInv, game
  <1>4. StoodStill'
    BY <1>1 DEF Snapshot, Suspend, Verify, Inspect, Release, At, StoodStill, Alive, threads_, IInv
  <1>5. SiteIsClear'
    <2>1. CASE Inspect
      <3>1. pc' = "write" /\ call = "install" =>
              kind = "call" \/ (Alive \subseteq suspended /\ \A t \in suspended : at[t] # "inside")
        BY <1>1, <2>1 DEF Inspect, At, AnyInstructionPointerIn, Forbidden, Site, StoodStill, IInv, TypeOK
      <3>2. \A t \in Threads : at[t] = "inside" => t \in Alive
        BY DEF Alive
      <3> QED BY <1>1, <3>1, <3>2 DEF SiteIsClear, PlacesOfKind, IInv
    <2>2. CASE Snapshot \/ Suspend \/ Verify \/ Release
      BY <1>1, <2>2 DEF Snapshot, Suspend, Verify, Release, At, SiteIsClear, IInv
    <2> QED BY <2>1, <2>2
  <1>6. running' => StepsOfCall'
    BY <1>1 DEF Snapshot, Suspend, Verify, Inspect, Release, At, StepsOfCall, IInv
  <1>7. OutcomeIsTrue'
    BY <1>1 DEF Snapshot, Suspend, Verify, Inspect, Release, At, OutcomeIsTrue, StepsOfCall, IInv
  <1>8. CaptureIsInstalled' /\ PatchIsKnown'
    BY <1>1 DEF Snapshot, Suspend, Verify, Inspect, Release, At, CaptureIsInstalled, PatchIsKnown,
                MatchesOriginalOrRegisteredCodePatch, IInv
  <1> QED BY <1>2, <1>3, <1>4, <1>5, <1>6, <1>7, <1>8 DEF IInv

LEMMA WriteKeepsInv ==
  ASSUME IInv, Write
  PROVE  IInv'
  <1>1. /\ UNCHANGED <<kind, at, inFlight, calls, registered, poisoned, active,
                       buffers, trampoline, suspended, listed, attempt, call, installs>>
        /\ running /\ pc = "write" /\ pc' \in {"release", "idle"}
    BY DEF Write, At, game, threads_
  <1>2. \/ /\ outcome' = "written"
           /\ call = "install" => bytes' = "hook" /\ installed'
           /\ call # "install" => bytes' = "original" /\ (installed' <=> installed)
        \/ UNCHANGED <<bytes, installed, outcome>>
    BY DEF Write
  <1>3. TypeOK'
    BY <1>1 DEF Write, IInv, TypeOK
  <1>4. InFlightExact' /\ PlacesOfKind'
    BY <1>1, GameUnmoved DEF IInv, game
  <1>5. running' => StoodStill' /\ SiteIsClear'
    BY <1>1 DEF Write, At, StoodStill, SiteIsClear, Alive, IInv, TypeOK
  <1>6. running' => StepsOfCall'
    BY <1>1 DEF Write, At, StepsOfCall, IInv
  <1>7. running' => OutcomeIsTrue'
    BY <1>1, <1>2 DEF OutcomeIsTrue, StepsOfCall, IInv, TypeOK
  <1>8. running' => CaptureIsInstalled'
    BY <1>1, <1>2 DEF CaptureIsInstalled, OutcomeIsTrue, StepsOfCall, IInv
  <1>9. running' => PatchIsKnown'
    BY <1>1, <1>2 DEF PatchIsKnown, MatchesOriginalOrRegisteredCodePatch, OutcomeIsTrue,
                StepsOfCall, IInv, TypeOK
  <1> QED BY <1>3, <1>4, <1>5, <1>6, <1>7, <1>8, <1>9 DEF IInv

\* A call begins: up to quiescence.
LEMMA BeginKeepsInv ==
  ASSUME IInv,
         \/ InstallRawHook \/ RestoreRawHook \/ InstallFactorySalesHook \/ UninstallFactorySalesHook
         \/ InstallPopCashFlowHook \/ UninstallPopCashFlowHook
  PROVE  IInv'
  <1>1. /\ UNCHANGED <<kind, at, inFlight, calls, bytes, installed, poisoned,
                       suspended, listed, attempt, running>>
        /\ running /\ pc = "idle" /\ pc' = "snapshot" /\ outcome' = "none"
    BY DEF InstallRawHook, RestoreRawHook, InstallFactorySalesHook, UninstallFactorySalesHook,
           InstallPopCashFlowHook, UninstallPopCashFlowHook, BeginsInstall, BeginsUninstall,
           Begins, At, game, threads_
  <1>2. \/ /\ call' = "install" /\ ~installed /\ active' = active
           /\ installs < MaxInstalls /\ installs' = installs + 1
           /\ IF kind = "pop" THEN registered' = TRUE /\ buffers' = TRUE /\ trampoline' = TRUE
                              ELSE UNCHANGED <<registered, buffers, trampoline>>
        \/ /\ call' = "uninstall" /\ installed /\ active' = FALSE
           /\ UNCHANGED <<installs, registered, buffers, trampoline>>
    BY DEF InstallRawHook, RestoreRawHook, InstallFactorySalesHook, UninstallFactorySalesHook,
           InstallPopCashFlowHook, UninstallPopCashFlowHook, BeginsInstall, BeginsUninstall,
           Begins, RegisterCodePatch
  <1>3. TypeOK'
    <2>1. installs' \in 0 .. MaxInstalls
      BY <1>2, CodePatchAssumption DEF IInv, TypeOK
    <2> QED BY <1>1, <1>2, <2>1 DEF IInv, TypeOK
  <1>4. InFlightExact' /\ PlacesOfKind'
    BY <1>1, GameUnmoved DEF IInv, game
  <1>5. StoodStill' /\ SiteIsClear' /\ StepsOfCall'
    BY <1>1, <1>2 DEF StoodStill, SiteIsClear, StepsOfCall, IInv
  <1>6. OutcomeIsTrue'
    BY <1>1, <1>2 DEF OutcomeIsTrue, StepsOfCall, CaptureIsInstalled, PatchIsKnown, IInv
  <1>7. CaptureIsInstalled' /\ PatchIsKnown'
    BY <1>1, <1>2 DEF CaptureIsInstalled, PatchIsKnown, MatchesOriginalOrRegisteredCodePatch, IInv
  <1> QED BY <1>3, <1>4, <1>5, <1>6, <1>7 DEF IInv

\* An installation ends.
LEMMA InstalledKeepsInv ==
  ASSUME IInv, RawHookInstalled \/ FactorySalesHookInstalled \/ PopCashFlowHookInstalled
  PROVE  IInv'
  <1>1. /\ UNCHANGED <<kind, at, inFlight, calls, bytes, installed, poisoned, buffers, trampoline,
                       suspended, listed, attempt, installs, running>>
        /\ running /\ pc = "after" /\ pc' = "idle" /\ call = "install" /\ call' = "none"
        /\ outcome' = "none"
    BY DEF RawHookInstalled, FactorySalesHookInstalled, PopCashFlowHookInstalled, Ends, Goes, At,
           game, threads_
  <1>2. /\ active' \in BOOLEAN /\ registered' \in BOOLEAN
        /\ active' => active \/ outcome = "written"
        /\ outcome = "written" => registered' = registered
    <2>1. active \in BOOLEAN /\ registered \in BOOLEAN
      BY DEF IInv, TypeOK
    <2>2. CASE RawHookInstalled
      BY <2>1, <2>2 DEF RawHookInstalled
    <2>3. CASE FactorySalesHookInstalled
      BY <2>1, <2>3 DEF FactorySalesHookInstalled
    <2>4. CASE PopCashFlowHookInstalled
      <3>1. CASE outcome = "written" /\ active' = TRUE /\ registered' = registered
        BY <2>1, <3>1
      <3>2. CASE outcome # "written" /\ registered' = FALSE /\ active' = active
        BY <2>1, <3>2
      <3> QED BY <2>4, <3>1, <3>2 DEF PopCashFlowHookInstalled, UnregisterCodePatch
    <2> QED BY <2>2, <2>3, <2>4
  <1>3. TypeOK'
    BY <1>1, <1>2 DEF IInv, TypeOK
  <1>4. InFlightExact' /\ PlacesOfKind'
    BY <1>1, GameUnmoved DEF IInv, game
  <1>5. StoodStill' /\ SiteIsClear' /\ StepsOfCall' /\ OutcomeIsTrue'
    BY <1>1 DEF StoodStill, SiteIsClear, StepsOfCall, OutcomeIsTrue, IInv
  <1>6. CaptureIsInstalled'
    BY <1>1, <1>2 DEF CaptureIsInstalled, OutcomeIsTrue, IInv
  <1>7. PatchIsKnown'
    BY <1>1, <1>2 DEF PatchIsKnown, MatchesOriginalOrRegisteredCodePatch, OutcomeIsTrue, IInv, TypeOK
  <1> QED BY <1>3, <1>4, <1>5, <1>6, <1>7 DEF IInv

\* A removal ends, or goes on to wait for the invocations.
LEMMA RestoredKeepsInv ==
  ASSUME IInv, RawHookRestored \/ FactorySalesHookUninstalled \/ PopCashFlowHookRestored
  PROVE  IInv'
  <1>1. /\ UNCHANGED <<kind, at, inFlight, calls, bytes, active, buffers, trampoline,
                       suspended, listed, attempt, installs, running>>
        /\ running /\ pc = "after" /\ call = "uninstall"
    BY DEF RawHookRestored, FactorySalesHookUninstalled, PopCashFlowHookRestored, Ends, Goes, At,
           game, threads_
  <1>2. \/ /\ pc' = "idle" /\ call' = "none" /\ outcome' = "none" /\ installed' \in BOOLEAN
           /\ installed' <=> (kind = "pop" /\ installed) \/ outcome # "written"
           /\ kind = "pop" => outcome # "written"
           /\ registered' = registered
        \/ /\ pc' = "drain" /\ UNCHANGED <<call, outcome, installed>> /\ outcome = "written"
           /\ kind = "pop" /\ registered' = FALSE
    <2>1. installed \in BOOLEAN
      BY DEF IInv, TypeOK
    <2>2. CASE RawHookRestored
      BY <2>1, <2>2 DEF RawHookRestored, Ends, Goes, At
    <2>3. CASE FactorySalesHookUninstalled
      BY <2>1, <2>3 DEF FactorySalesHookUninstalled, Ends, Goes, At
    <2>4. CASE PopCashFlowHookRestored
      <3>1. CASE outcome = "written" /\ Goes("pop", "uninstall", "drain")
        BY <2>1, <2>4, <3>1 DEF PopCashFlowHookRestored, Ends, Goes, At, UnregisterCodePatch
      <3>2. CASE outcome # "written" /\ Ends("pop", "uninstall") /\ registered' = registered
        BY <1>1, <2>1, <2>4, <3>2 DEF PopCashFlowHookRestored, Ends, Goes, At, OutcomeIsTrue, IInv
      <3> QED BY <2>4, <3>1, <3>2 DEF PopCashFlowHookRestored
    <2> QED BY <2>2, <2>3, <2>4
  <1>3. poisoned' \in BOOLEAN
    BY DEF RawHookRestored, FactorySalesHookUninstalled, PopCashFlowHookRestored, IInv, TypeOK
  <1>4. TypeOK'
    BY <1>1, <1>2, <1>3 DEF IInv, TypeOK
  <1>5. InFlightExact' /\ PlacesOfKind'
    BY <1>1, GameUnmoved DEF IInv, game
  <1>6. StoodStill' /\ SiteIsClear' /\ StepsOfCall'
    BY <1>1, <1>2 DEF StoodStill, SiteIsClear, StepsOfCall, IInv
  <1>7. OutcomeIsTrue'
    BY <1>1, <1>2 DEF OutcomeIsTrue, IInv
  <1>8. CaptureIsInstalled'
    BY <1>1, <1>2 DEF CaptureIsInstalled, OutcomeIsTrue, PlacesOfKind, Module, IInv
  <1>9. PatchIsKnown'
    BY <1>1, <1>2 DEF PatchIsKnown, MatchesOriginalOrRegisteredCodePatch, OutcomeIsTrue, IInv, TypeOK
  <1> QED BY <1>4, <1>5, <1>6, <1>7, <1>8, <1>9 DEF IInv

\* The POP hook's buffers made anew, the wait for its invocations, and its end.
LEMMA PopKeepsInv ==
  ASSUME IInv, BuildTrampoline \/ Drain \/ ThreadsLeft \/ WaitFailed \/ Free
  PROVE  IInv'
  <1>1. /\ UNCHANGED <<kind, at, inFlight, calls, bytes, registered, poisoned, active, installs>>
        /\ running
    BY DEF BuildTrampoline, Drain, ThreadsLeft, WaitFailed, Free, At, game, patch, patcher
  <1>2. TypeOK'
    <2>1. 0 \in 0 .. MaxAttempts - 1
      BY CodePatchAssumption
    <2> QED BY <1>1, <2>1 DEF BuildTrampoline, Drain, ThreadsLeft, WaitFailed, Free, At, Resumed,
                patch, patcher, threads_, IInv, TypeOK
  <1>3. InFlightExact' /\ PlacesOfKind'
    BY <1>1, GameUnmoved DEF IInv, game
  <1>4. CASE BuildTrampoline
    BY <1>1, <1>2, <1>3, <1>4 DEF BuildTrampoline, threads_, patcher, StoodStill, Alive, SiteIsClear,
       StepsOfCall, OutcomeIsTrue, CaptureIsInstalled, PatchIsKnown,
       MatchesOriginalOrRegisteredCodePatch, IInv
  <1>5. CASE Drain \/ WaitFailed
    BY <1>1, <1>2, <1>3, <1>5 DEF Drain, WaitFailed, At, patch, threads_, StoodStill, SiteIsClear,
       StepsOfCall, OutcomeIsTrue, CaptureIsInstalled, PatchIsKnown,
       MatchesOriginalOrRegisteredCodePatch, IInv
  <1>6. CASE ThreadsLeft
    <2>1. pc' = "free" => \A t \in Threads : at[t] # "storing"
      BY <1>6 DEF ThreadsLeft, At, AnyInstructionPointerIn, Module, StoodStill, Alive, IInv
    <2>2. /\ pc = "inspect" /\ call = "wait" /\ call' = "wait" /\ outcome' = outcome
          /\ UNCHANGED <<installed, buffers, trampoline>>
          /\ running' => pc' \in {"free", "snapshot"}
      BY <1>6 DEF ThreadsLeft, At, patch
    <2> QED BY <1>1, <1>2, <1>3, <2>1, <2>2 DEF StoodStill, SiteIsClear, StepsOfCall,
       OutcomeIsTrue, CaptureIsInstalled, PatchIsKnown, MatchesOriginalOrRegisteredCodePatch, IInv
  <1>7. CASE Free
    BY <1>1, <1>2, <1>3, <1>7 DEF Free, At, threads_, StoodStill, SiteIsClear,
       StepsOfCall, OutcomeIsTrue, CaptureIsInstalled, PatchIsKnown,
       MatchesOriginalOrRegisteredCodePatch, IInv
  <1> QED BY <1>4, <1>5, <1>6, <1>7

-----------------------------------------------------------------------------
(* The theorems.                                                           *)

LEMMA InitInv == Init => IInv
  <1> SUFFICES ASSUME Init PROVE IInv
    OBVIOUS
  <1>1. TypeOK
    <2>1. 0 \in 0 .. MaxAttempts - 1 /\ 0 \in 0 .. MaxInstalls /\ 0 \in 0 .. MaxCalls
      BY CodePatchAssumption
    <2>2. 0 \in 0 .. Cardinality(Threads)
      BY CodePatchAssumption, FS_CardinalityType
    <2>3. {registered, installed, poisoned, active, buffers, trampoline, running} \subseteq BOOLEAN
      BY DEF Init
    <2> QED BY <2>1, <2>2, <2>3 DEF Init, TypeOK, Places
  <1>2. InFlightExact
    <2>1. InFlight = {}
      BY DEF Init, InFlight, Counted
    <2> QED BY <2>1, FS_EmptySet DEF Init, InFlightExact
  <1>3. StoodStill /\ PlacesOfKind /\ SiteIsClear /\ StepsOfCall /\ OutcomeIsTrue
    BY DEF Init, StoodStill, PlacesOfKind, SiteIsClear, StepsOfCall, OutcomeIsTrue, Module
  <1>4. CaptureIsInstalled /\ PatchIsKnown
    BY DEF Init, CaptureIsInstalled, PatchIsKnown, MatchesOriginalOrRegisteredCodePatch
  <1> QED BY <1>1, <1>2, <1>3, <1>4 DEF IInv

LEMMA NextInv == IInv /\ [Next]_vars => IInv'
  <1> SUFFICES ASSUME IInv, [Next]_vars PROVE IInv'
    OBVIOUS
  <1>1. CASE \E t \in Threads : Game(t)
    BY <1>1, GameKeepsInv
  <1>2. CASE Patcher
    BY <1>2, QuiescenceKeepsInv, WriteKeepsInv, BeginKeepsInv, InstalledKeepsInv, RestoredKeepsInv,
       PopKeepsInv DEF Patcher
  <1>3. CASE UNCHANGED vars
    BY <1>3 DEF vars, game, patch, threads_, patcher, IInv, TypeOK, InFlightExact, InFlight,
       StoodStill, Alive, PlacesOfKind, SiteIsClear, StepsOfCall, OutcomeIsTrue,
       CaptureIsInstalled, PatchIsKnown, MatchesOriginalOrRegisteredCodePatch
  <1> QED BY <1>1, <1>2, <1>3 DEF Next

\* ScopedThreadQuiescence stands still whatever it suspends, the call and the
\* outcome tell the truth of the bytes, and in_flight counts the invocations.
THEOREM SpecIInv == Spec => []IInv
  BY InitInv, NextInv, PTL DEF Spec

\* No thread is between instructions that a hook has replaced, and none stores a
\* payment to buffers that are gone.
THEOREM SpecNoThreadIsCaught == Spec => []NoThreadIsCaught
  <1>1. IInv => NoThreadIsCaught
    BY DEF IInv, NoThreadIsCaught, NoTornExecution, BuffersOutliveStores, SiteIsClear,
           CaptureIsInstalled, PlacesOfKind, Module
  <1> QED BY <1>1, SpecIInv, PTL

\* What stands at the place is the game's or a registered patch that the
\* uninstaller knows of.
THEOREM SpecPatchIsKnown == Spec => []PatchIsKnown
  <1>1. IInv => PatchIsKnown
    BY DEF IInv, PatchIsKnown
  <1> QED BY <1>1, SpecIInv, PTL

=============================================================================
