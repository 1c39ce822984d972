---------------------------- MODULE CampaignProofs ----------------------------
(***************************************************************************)
(* Theorems about Campaign: the captured controller is alive whoever       *)
(* installs, and with one registrant no callback outlives its registration *)
(* and the slots, the sinks and the word agree, for any number of sessions *)
(* and leases and any length of play.                                      *)
(***************************************************************************)
EXTENDS Campaign, FiniteSetTheorems, WellFoundedInduction, TLAPS

-----------------------------------------------------------------------------
(* The least element of a set of numbers.                                  *)

LEMMA MinIs ==
  ASSUME NEW S, S \subseteq Nat, S # {}
  PROVE  Min(S) \in S
  <1> DEFINE T == {1 .. n : n \in S}
  <1>1. T \subseteq FiniteSubsetsOf(Nat) /\ T # {}
    <2>1. ASSUME NEW n \in S PROVE (1 .. n) \subseteq Nat /\ IsFiniteSet(1 .. n)
      BY FS_Interval
    <2> QED BY <2>1 DEF FiniteSubsetsOf
  <1>2. PICK I \in T : \A J \in T : ~ (<<J, I>> \in StrictSubsetOrdering(Nat))
    <2>1. IsWellFoundedOn(StrictSubsetOrdering(Nat), FiniteSubsetsOf(Nat))
      BY FS_StrictSubsetOrderingWellFounded
    <2> HIDE DEF T
    <2> QED BY <1>1, <2>1, WFMin
  <1>3. PICK m \in S : I = 1 .. m
    OBVIOUS
  <1>4. ASSUME NEW n \in S PROVE m <= n
    <2> SUFFICES ASSUME n < m PROVE FALSE
      OBVIOUS
    <2>1. (1 .. n) \subseteq (1 .. m) /\ (1 .. n) # (1 .. m)
      <3>1. m \in 1 .. m /\ m \notin 1 .. n
        OBVIOUS
      <3> QED BY <3>1
    <2>2. <<1 .. n, 1 .. m>> \in StrictSubsetOrdering(Nat)
      BY <2>1 DEF StrictSubsetOrdering
    <2> QED BY <1>2, <1>3, <2>2
  <1> QED BY <1>4 DEF Min

-----------------------------------------------------------------------------
(* What the helpers do.                                                    *)

\* No session is opened or closed, and the automation stays that of its session.
HandlesStay ==
  /\ \A j \in 1 .. SessionSlots : sessions'[j].handle = sessions[j].handle
  /\ Open' = Open
  /\ automation'.handle = automation.handle /\ automation'.session = automation.session

\* A session is refreshed, and leases may go with it.
RefreshesOrDrops(h, b) ==
  /\ sessions' = SessionsAfter(h, b)
  /\ automation' = AutomationAfter(h)
  /\ leases' \in [1 .. LeaseSlots -> Leases]
  /\ \A k \in 1 .. LeaseSlots : leases'[k].handle # 0 => leases'[k] = LeasesAfter(h)[k]

LEMMA RefreshHandles ==
  ASSUME RuntimeType, SlotType, NEW h, NEW b \in BOOLEAN, RefreshesOrDrops(h, b)
  PROVE  HandlesStay
  <1>1. DOMAIN sessions = 1 .. SessionSlots
    BY DEF RuntimeType
  <1>2. ASSUME NEW j \in 1 .. SessionSlots PROVE sessions'[j].handle = sessions[j].handle
    BY <1>1 DEF RefreshesOrDrops, SessionsAfter, RuntimeType, Sessions
  <1>3. DOMAIN sessions' = 1 .. SessionSlots
    BY <1>1 DEF RefreshesOrDrops, SessionsAfter
  <1>4. automation'.handle = automation.handle /\ automation'.session = automation.session
    BY DEF RefreshesOrDrops, AutomationAfter, SlotType, Automations
  <1> QED BY <1>1, <1>2, <1>3, <1>4 DEF HandlesStay, Open

LEMMA EpochStored ==
  ASSUME NEW a \in Automations, NEW e \in Epochs
  PROVE  [a EXCEPT !.epoch = e] \in Automations
  BY DEF Automations

LEMMA SessionsAfterType ==
  ASSUME RuntimeType, NEW h, NEW b \in BOOLEAN
  PROVE  SessionsAfter(h, b) \in [1 .. SessionSlots -> Sessions]
  <1>1. ASSUME NEW x \in Sessions, NEW e \in Epochs, NEW c \in BOOLEAN
        PROVE  [x EXCEPT !.epoch = e, !.engine = c] \in Sessions
    BY DEF Sessions
  <1>2. ASSUME NEW x \in Sessions PROVE (x.engine \/ b) \in BOOLEAN
    OBVIOUS
  <1>3. epoch \in Epochs
    BY DEF RuntimeType, Epochs
  <1> HIDE DEF Sessions, Epochs
  <1> QED BY <1>1, <1>2, <1>3 DEF RuntimeType, SessionsAfter

LEMMA LeasesWithout ==
  ASSUME RuntimeType, NEW h
  PROVE  /\ Without(h) \in [1 .. LeaseSlots -> Leases]
         /\ LeasesAfter(h) \in [1 .. LeaseSlots -> Leases]
         /\ \A k \in 1 .. LeaseSlots : Without(h)[k].handle # 0 => Without(h)[k] = leases[k]
  <1>1. NoLease \in Leases /\ NoLease.handle = 0
    BY CampaignAssumption DEF NoLease, Leases, Epochs
  <1>2. \A k \in 1 .. LeaseSlots : Without(h)[k] = leases[k] \/ Without(h)[k] = NoLease
    BY DEF RuntimeType, Without
  <1> QED BY <1>1, <1>2 DEF RuntimeType, Without, LeasesAfter

LEMMA RefreshType ==
  ASSUME RuntimeType, SlotType, NEW h, NEW b \in BOOLEAN, RefreshesOrDrops(h, b)
  PROVE  /\ sessions' \in [1 .. SessionSlots -> Sessions]
         /\ automation' \in Automations
  <1>1. epoch \in Epochs
    BY DEF RuntimeType, Epochs
  <1> QED BY <1>1, EpochStored, SessionsAfterType DEF RefreshesOrDrops, AutomationAfter, SlotType

LEMMA RefreshDrops ==
  ASSUME RuntimeType, NEW h, NEW b \in BOOLEAN, Refreshes(h, b)
  PROVE  RefreshesOrDrops(h, b)
  BY LeasesWithout DEF Refreshes, RefreshesOrDrops

LEMMA CallbacksDropped ==
  ASSUME NEW a \in Automations, NEW hk
  PROVE  [a EXCEPT !.callbacks = @ \ {hk}] \in Automations
  BY DEF Automations

\* The steps, by what they are about; with one registrant the game's thread
\* never installs.
EngineStep == NewGame \/ Construct \/ Annex \/ Capture \/ \E c \in controllers : Destroy(c)

CallbackStep ==
  AcquireCallback \/ LoadCallback \/ InvokeCallback \/ CallbackReturns \/ ReleaseCallback

SessionStep ==
  \/ \E t \in Threads, h \in 1 .. nextSession - 1 : UseSession(t, h)
  \/ OpenSession \/ FinishOpen \/ FinishClose
  \/ \E i \in 1 .. SessionSlots : CloseSession(i)

LesseeStep ==
  \/ \E h \in 1 .. nextSession - 1 : AcquireFrontend(h)
  \/ CheckLessee \/ TakeLease
  \/ \E i \in 1 .. LeaseSlots : UseFrontend(i) \/ ReleaseFrontend(i)

OwnerInstalls ==
  \/ \E h \in 1 .. nextSession - 1 : BeginInstall("owner", h)
  \/ InstallStep("owner")

OwnerDisables ==
  \/ \E h \in 1 .. nextAutomation - 1 : Deactivate(h)
  \/ DeactivateLocks \/ Disable \/ Drained \/ DisconnectSinks \/ Clear \/ FinishDeactivate

LEMMA StepsOfOneRegistrant ==
  ASSUME OneRegistrant, CallsInPlace, Next
  PROVE  EngineStep \/ CallbackStep \/ SessionStep \/ LesseeStep \/ OwnerInstalls \/ OwnerDisables
  <1>1. ~InstallStep("game")
    BY DEF CallsInPlace, GamePcs, InstallStep, InstallChecks, InstallHooks, HooksFail, InstallFailed,
           InstallFields, InstallPublish, InstallConnect, Uncapture, Unthread, Goes
  <1>2. \A h \in 1 .. nextSession - 1 : ~BeginInstall("game", h)
    BY DEF BeginInstall
  <1> QED BY <1>1, <1>2 DEF Next, Threads, HookStep, LeaseStep, DisableStep, EngineStep,
             CallbackStep, SessionStep, LesseeStep, OwnerInstalls, OwnerDisables

-----------------------------------------------------------------------------
(* The game: controllers, games, annexations.                              *)

LEMMA EngineStepKeeps ==
  ASSUME OneRegistrant, IInv, EngineStep
  PROVE  IInv'
  <1> USE DEF IInv, TypeOK, CallsInPlace, CallType, Threads
  <1>1. /\ UNCHANGED <<sessions, leases, nextSession, nextLease, flag, refs, automation>>
        /\ UNCHANGED <<nextAutomation, ended, sinks, frontendActive, call, arg, callback>>
        /\ pc'["owner"] = pc["owner"]
    BY DEF EngineStep, NewGame, Construct, Annex, Capture, Destroy, Goes, runtime, native, slot,
           callVars, hookVars
  <1>2. /\ pc["game"] \in {"idle", "capture"} /\ pc'["game"] \in {"idle", "capture", "acquire"}
        /\ pc' \in [Threads -> {"idle"} \cup OwnerPcs \cup InstallPcs \cup GamePcs]
    BY DEF EngineStep, NewGame, Construct, Annex, Capture, Destroy, Goes, callVars, GamePcs
  <1>3. RuntimeType'
    <2>1. epoch' = epoch \/ (epoch <= MaxEpoch /\ epoch' = epoch + 1)
      BY DEF EngineStep, NewGame, Construct, Annex, Capture, Destroy
    <2>2. epoch' \in 1 .. MaxEpoch + 1
      BY <2>1, CampaignAssumption DEF RuntimeType
    <2> QED BY <1>1, <2>2 DEF RuntimeType, Sessions, Leases, Epochs
  <1>4. NativeType'
    <2>1. capture' = capture \/ capture' = Uncaptured
          \/ capture' = [address |-> constructed, generation |-> capture.generation + 1,
                         thread |-> TRUE]
      BY DEF EngineStep, NewGame, Construct, Annex, Capture, Destroy, native, engine
    <2>2. capture' \in [address : 0 .. MaxControllers, generation : Nat, thread : BOOLEAN]
      <3>1. capture.generation + 1 \in Nat /\ 0 \in 0 .. MaxControllers
        BY CampaignAssumption DEF NativeType
      <3>2. capture \in [address : 0 .. MaxControllers, generation : Nat, thread : BOOLEAN]
            /\ constructed \in 0 .. MaxControllers
        BY DEF NativeType
      <3>3. CASE capture' = Uncaptured
        BY <3>1, <3>2, <3>3 DEF Uncaptured
      <3>4. CASE capture' = [address |-> constructed, generation |-> capture.generation + 1,
                             thread |-> TRUE]
        BY <3>1, <3>2, <3>4
      <3> QED BY <2>1, <3>2, <3>3, <3>4
    <2>3. \/ constructed' = constructed /\ controllers' \subseteq controllers
          \/ /\ constructed < MaxControllers /\ constructed' = constructed + 1
             /\ controllers' = controllers \cup {constructed + 1}
      BY DEF EngineStep, NewGame, Construct, Annex, Capture, Destroy, engine
    <2>4. constructed' \in 0 .. MaxControllers /\ controllers' \subseteq 1 .. MaxControllers
      <3>1. constructed \in 0 .. MaxControllers /\ controllers \subseteq 1 .. MaxControllers
        BY DEF NativeType
      <3>2. constructed < MaxControllers => constructed + 1 \in 1 .. MaxControllers
        BY <3>1, CampaignAssumption
      <3>3. CASE constructed' = constructed /\ controllers' \subseteq controllers
        BY <3>1, <3>3
      <3>4. CASE /\ constructed < MaxControllers /\ constructed' = constructed + 1
                 /\ controllers' = controllers \cup {constructed + 1}
        <4>1. constructed + 1 \in 0 .. MaxControllers
          BY <3>1, <3>2, <3>4, CampaignAssumption
        <4>2. (controllers \cup {constructed + 1}) \subseteq 1 .. MaxControllers
          BY <3>1, <3>2, <3>4
        <4> QED BY <3>4, <4>1, <4>2
      <3> QED BY <2>3, <3>3, <3>4
    <2> QED BY <1>1, <2>2, <2>4 DEF NativeType
  <1>5. SlotType'
    BY <1>1 DEF SlotType, Automations, Epochs
  <1>6. CallType'
    BY <1>1, <1>2 DEF EngineStep, NewGame, Construct, Annex, Capture, Destroy, hookVars, Hooks
  <1>7. CapturedIsAlive' /\ CaptureIsFresh'
    BY DEF CapturedIsAlive, CaptureIsFresh, NativeType, EngineStep, NewGame, Construct, Annex,
           Capture, Destroy, Uncaptured, native, engine, callVars, Goes
  <1>8. LeasesFollowSessions' /\ HandlesIssued' /\ LeaseIsDue'
    BY <1>1, <1>2 DEF LeasesFollowSessions, HandlesIssued, LeaseIsDue
  <1>9. CallsInPlace'
    BY <1>1, <1>2 DEF GamePcs, Open
  <1>10. ConnectedSoFar' /\ CallbackCounted'
    BY <1>1, <1>2 DEF ConnectedSoFar, CallbackCounted, Connected, Disconnected, InCallback
  <1>11. EndedIsGone' /\ AutomationOwned'
    BY <1>1 DEF EndedIsGone, AutomationOwned, Open
  <1> QED BY <1>3, <1>4, <1>5, <1>6, <1>7, <1>8, <1>9, <1>10, <1>11

-----------------------------------------------------------------------------
(* The game: callbacks.                                                    *)

\* The reference taken is the one given back.
LEMMA CallbackStepIs ==
  ASSUME IInv, CallbackStep
  PROVE  /\ UNCHANGED <<epoch, runtime, engine, native, flag, nextAutomation, mutex, call, arg, ended>>
         /\ pc'["owner"] = pc["owner"] /\ pc["game"] \in {"acquire", "load", "invoke", "running", "release"}
         /\ pc'["game"] \in {"idle", "load", "invoke", "running", "release"}
         /\ pc' = [pc EXCEPT !["game"] = pc'["game"]]
         /\ automation'.handle = automation.handle /\ automation'.session = automation.session
         /\ automation' \in Automations
         /\ refs' = IF InCallback' THEN 1 ELSE 0
         /\ pc["game"] = "acquire" /\ pc'["game"] # "idle" => flag = "active"
         /\ pc'["game"] = "load" => pc["game"] = "acquire"
  <1> USE DEF IInv, TypeOK, CallType, Threads, CallbackCounted, InCallback
  <1>1. CASE AcquireCallback
    BY <1>1, CampaignAssumption DEF AcquireCallback, Goes, slot, SlotType
  <1>2. CASE LoadCallback
    BY <1>2 DEF LoadCallback, Goes, slot, SlotType
  <1>3. CASE InvokeCallback
    <2>1. epoch \in Epochs
      BY DEF RuntimeType, Epochs
    <2>2. /\ automation'.handle = automation.handle /\ automation'.session = automation.session
          /\ automation' \in Automations
      BY <1>3, <2>1, EpochStored DEF InvokeCallback, SlotType, Automations
    <2> QED BY <1>3, <2>2 DEF InvokeCallback, Goes
  <1>4. CASE CallbackReturns
    <2>1. /\ automation'.handle = automation.handle /\ automation'.session = automation.session
          /\ automation' \in Automations
      BY <1>4, CallbacksDropped DEF CallbackReturns, SlotType, Automations
    <2> QED BY <1>4, <2>1 DEF CallbackReturns, Goes
  <1>5. CASE ReleaseCallback
    <2>1. pc["game"] = "release" /\ refs = 1
      BY <1>5 DEF ReleaseCallback, Goes
    <2> QED BY <1>5, <2>1 DEF ReleaseCallback, Goes, slot, SlotType
  <1> QED BY <1>1, <1>2, <1>3, <1>4, <1>5 DEF CallbackStep

LEMMA CallbackStepKeeps ==
  ASSUME OneRegistrant, IInv, CallbackStep
  PROVE  IInv'
  <1> USE CallbackStepIs DEF IInv, TypeOK, CallType, Threads, runtime, engine, native
  <1>1. RuntimeType' /\ NativeType'
    BY DEF RuntimeType, NativeType, Sessions, Leases, Epochs
  <1>2. SlotType'
    <2>1. refs' \in 0 .. MaxRefs
      BY CampaignAssumption
    <2> QED BY <2>1 DEF SlotType
  <1>3. CallType'
    <2>1. hook' = hook /\ token' = token
      BY DEF CallbackStep, AcquireCallback, LoadCallback, InvokeCallback, CallbackReturns,
             ReleaseCallback, hookVars
    <2>2. \/ callback' = callback \/ callback' = NoCallback
          \/ callback' = [automation |-> automation.handle, session |-> automation.session,
                          set |-> hook \in automation.callbacks]
      BY DEF CallbackStep, AcquireCallback, LoadCallback, InvokeCallback, CallbackReturns,
             ReleaseCallback, hookVars
    <2>3. callback' \in [automation : 0 .. MaxAutomations, session : 0 .. MaxSessions, set : BOOLEAN]
      <3>1. \A b \in BOOLEAN :
              [automation |-> automation.handle, session |-> automation.session, set |-> b]
                \in [automation : 0 .. MaxAutomations, session : 0 .. MaxSessions, set : BOOLEAN]
        BY DEF SlotType, Automations
      <3>2. (hook \in automation.callbacks) \in BOOLEAN
        OBVIOUS
      <3>3. NoCallback \in [automation : 0 .. MaxAutomations, session : 0 .. MaxSessions,
                            set : BOOLEAN]
        BY CampaignAssumption DEF NoCallback
      <3> QED BY <2>2, <3>1, <3>2, <3>3
    <2> QED BY <2>1, <2>3 DEF GamePcs
  <1>4. CapturedIsAlive' /\ CaptureIsFresh'
    BY DEF CapturedIsAlive, CaptureIsFresh
  <1>5. LeasesFollowSessions' /\ HandlesIssued' /\ LeaseIsDue'
    BY DEF LeasesFollowSessions, HandlesIssued, LeaseIsDue
  <1>6. CallsInPlace'
    BY DEF CallsInPlace, GamePcs, Open
  <1>7. ConnectedSoFar'
    BY DEF ConnectedSoFar, Connected, Disconnected, InCallback, CallsInPlace, CallbackCounted
  <1>8. CallbackCounted'
    <2>1. InCallback' => flag' # "free"
      BY DEF CallbackCounted, InCallback
    <2>2. pc'["game"] = "invoke" /\ pc["game"] = "load" =>
            callback'.automation = automation'.handle /\ callback'.session = automation'.session
      BY DEF CallbackStep, AcquireCallback, LoadCallback, InvokeCallback, CallbackReturns,
             ReleaseCallback, Goes
    <2>3. pc'["game"] \in {"invoke", "running"} /\ pc["game"] # "load" =>
            pc["game"] \in {"invoke", "running"} /\ callback' = callback
      BY DEF CallbackStep, AcquireCallback, LoadCallback, InvokeCallback, CallbackReturns,
             ReleaseCallback, Goes, hookVars
    <2>4. pc'["game"] = "running" => pc["game"] = "invoke"
      BY DEF CallbackStep, AcquireCallback, LoadCallback, InvokeCallback, CallbackReturns,
             ReleaseCallback, Goes
    <2> QED BY <2>1, <2>2, <2>3, <2>4 DEF CallbackCounted
  <1>9. EndedIsGone'
    BY DEF EndedIsGone
  <1>10. AutomationOwned'
    <2>1. Open' = Open
      BY DEF Open
    <2> QED BY <2>1 DEF AutomationOwned
  <1> QED BY <1>1, <1>2, <1>3, <1>4, <1>5, <1>6, <1>7, <1>8, <1>9, <1>10

-----------------------------------------------------------------------------
(* Sessions.                                                               *)

\* What opening and closing a session does to the slots.
LEMMA OpenSessionIs ==
  ASSUME RuntimeType, OpenSession
  PROVE  \E first \in 1 .. SessionSlots :
           /\ pc["owner"] = "idle" /\ nextSession <= MaxSessions
           /\ leases' = leases \/ leases' = Without(sessions[first].handle)
           /\ \/ /\ sessions[first].handle # 0 /\ automation.session = sessions[first].handle
                 /\ Calls("owner", "open", first, "disable") /\ mutex' = "owner"
                 /\ UNCHANGED <<sessions, nextSession>>
              \/ /\ sessions[first].handle # 0 => automation.session # sessions[first].handle
                 /\ OpensIn(first) /\ UNCHANGED <<mutex, callVars>>
           /\ UNCHANGED <<epoch, nextLease, engine, native, slot, hookVars, ended>>
  <1> DEFINE usable == {i \in DOMAIN sessions : sessions[i].handle = 0 \/ sessions[i].epoch # epoch}
             first  == Min(usable)
             old    == sessions[first].handle
  <1>1. usable \subseteq 1 .. SessionSlots /\ usable # {}
    BY DEF OpenSession, RuntimeType
  <1>2. first \in 1 .. SessionSlots
    <2>1. usable \subseteq Nat
      BY <1>1, CampaignAssumption
    <2> HIDE DEF usable
    <2> QED BY <1>1, <2>1, MinIs
  <1>3. CASE old # 0 /\ automation.session = old
    BY <1>2, <1>3 DEF OpenSession
  <1>4. CASE ~(old # 0 /\ automation.session = old)
    BY <1>2, <1>4 DEF OpenSession
  <1> QED BY <1>3, <1>4

LEMMA CloseSessionIs ==
  ASSUME NEW i \in 1 .. SessionSlots, CloseSession(i)
  PROVE  /\ pc["owner"] = "idle" /\ sessions[i].handle # 0
         /\ \/ /\ automation.session = sessions[i].handle
               /\ Calls("owner", "close", i, "disable") /\ mutex' = "owner"
               /\ UNCHANGED <<sessions, leases>>
            \/ /\ automation.session # sessions[i].handle
               /\ leases' = Without(sessions[i].handle)
               /\ sessions' = [sessions EXCEPT ![i] = NoSession]
               /\ UNCHANGED <<mutex, callVars>>
         /\ UNCHANGED <<epoch, nextSession, nextLease, engine, native, slot, hookVars, ended>>
  BY DEF CloseSession

\* Refreshing a session drops its leases of an earlier game and takes nothing
\* else away.
LEMMA RefreshKeeps ==
  ASSUME IInv, NEW h, NEW b \in BOOLEAN, RefreshesOrDrops(h, b),
         UNCHANGED <<epoch, nextSession, nextLease, flag, refs, nextAutomation, ended>>
  PROVE  /\ HandlesStay
         /\ RuntimeType' /\ SlotType'
         /\ LeasesFollowSessions' /\ HandlesIssued' /\ EndedIsGone' /\ AutomationOwned'
         /\ \A j \in 1 .. SessionSlots :
              /\ sessions[j].handle = h => sessions'[j].epoch = epoch
              /\ sessions[j].handle # h => sessions'[j].epoch = sessions[j].epoch
         /\ DOMAIN sessions' = 1 .. SessionSlots
  <1> USE DEF IInv, TypeOK
  <1>1. HandlesStay
    BY RefreshHandles
  <1>2. RuntimeType'
    BY RefreshType DEF RuntimeType, RefreshesOrDrops, Sessions, Leases, Epochs
  <1>3. SlotType'
    BY RefreshType DEF SlotType, Automations, Epochs
  <1>4. DOMAIN sessions = 1 .. SessionSlots /\ DOMAIN sessions' = 1 .. SessionSlots
        /\ DOMAIN leases = 1 .. LeaseSlots /\ DOMAIN leases' = 1 .. LeaseSlots
    BY <1>2 DEF RuntimeType
  <1>5. \A j \in 1 .. SessionSlots :
          /\ sessions[j].handle = h => sessions'[j].epoch = epoch
          /\ sessions[j].handle # h => sessions'[j].epoch = sessions[j].epoch
    BY <1>4 DEF RefreshesOrDrops, SessionsAfter, RuntimeType, Sessions
  <1>6. \A i \in 1 .. LeaseSlots : leases'[i].handle # 0 =>
          leases'[i] = leases[i] /\ ~(leases[i].owner = h /\ Stale(h))
    BY <1>4, LeasesWithout DEF RefreshesOrDrops, LeasesAfter, Without, NoLease
  <1>7. LeasesFollowSessions'
    <2> SUFFICES ASSUME NEW i \in 1 .. LeaseSlots, NEW j \in 1 .. SessionSlots,
                        leases'[i].handle # 0, leases'[i].owner = sessions'[j].handle
                 PROVE  leases'[i].epoch = sessions'[j].epoch
      BY <1>4 DEF LeasesFollowSessions
    <2>1. leases'[i] = leases[i] /\ sessions'[j].handle = sessions[j].handle
      BY <1>1, <1>6 DEF HandlesStay
    <2>2. leases[i].epoch = sessions[j].epoch
      BY <2>1, <1>4 DEF LeasesFollowSessions
    <2>3. sessions[j].handle = h => sessions[j].epoch = epoch
      BY <2>1, <1>4, <1>6 DEF Stale
    <2> QED BY <1>5, <2>1, <2>2, <2>3
  <1>8. HandlesIssued'
    <2>1. \A j \in 1 .. SessionSlots : sessions'[j].handle < nextSession'
      BY <1>1, <1>4 DEF HandlesStay, HandlesIssued
    <2>2. \A i \in 1 .. LeaseSlots : leases'[i].handle # 0 => leases'[i].owner \in 1 .. nextSession' - 1
      BY <1>4, <1>6 DEF HandlesIssued
    <2> QED BY <1>4, <2>1, <2>2 DEF HandlesIssued
  <1>9. EndedIsGone' /\ AutomationOwned'
    BY <1>1 DEF HandlesStay, EndedIsGone, AutomationOwned
  <1> QED BY <1>1, <1>2, <1>3, <1>4, <1>5, <1>7, <1>8, <1>9

LEMMA UseSessionKeeps ==
  ASSUME IInv, NEW t \in Threads, NEW h, UseSession(t, h)
  PROVE  IInv'
  <1>1. /\ Refreshes(h, FALSE) /\ UNCHANGED <<epoch, nextSession, nextLease, flag, refs>>
        /\ UNCHANGED <<nextAutomation, ended, controllers, constructed, capture, frontendActive>>
        /\ UNCHANGED <<sinks, mutex, pc, call, arg, hook, callback, token>>
    BY DEF UseSession, engine, native, callVars, hookVars
  <1>2. /\ HandlesStay /\ RuntimeType' /\ SlotType' /\ LeasesFollowSessions' /\ HandlesIssued'
        /\ EndedIsGone' /\ AutomationOwned' /\ DOMAIN sessions' = 1 .. SessionSlots
        /\ \A j \in 1 .. SessionSlots :
             /\ sessions[j].handle = h => sessions'[j].epoch = epoch
             /\ sessions[j].handle # h => sessions'[j].epoch = sessions[j].epoch
    BY <1>1, RefreshDrops, RefreshKeeps DEF IInv, TypeOK
  <1> USE <1>1 DEF IInv, TypeOK
  <1>3. NativeType' /\ CallType' /\ CapturedIsAlive' /\ CaptureIsFresh'
    BY DEF NativeType, CallType, CapturedIsAlive, CaptureIsFresh
  <1>4. LeaseIsDue'
    BY <1>2 DEF HandlesStay, LeaseIsDue, RuntimeType
  <1>5. CallsInPlace' /\ ConnectedSoFar' /\ CallbackCounted'
    BY <1>2 DEF HandlesStay, CallsInPlace, ConnectedSoFar, CallbackCounted, Connected, Disconnected,
                InCallback
  <1> QED BY <1>2, <1>3, <1>4, <1>5

\* One slot gets a new session or none, and leases may go with the old one.
SlotChanges(i) ==
  /\ UNCHANGED <<epoch, nextLease>>
  /\ leases' = leases \/ \E h : leases' = Without(h)
  /\ \/ OpensIn(i) /\ nextSession <= MaxSessions
     \/ sessions' = [sessions EXCEPT ![i] = NoSession] /\ nextSession' = nextSession

LEMMA SlotChangeKeeps ==
  ASSUME IInv, NEW i \in 1 .. SessionSlots, SlotChanges(i)
  PROVE  /\ RuntimeType' /\ HandlesIssued' /\ LeasesFollowSessions' /\ nextSession' >= nextSession
         /\ \A j \in 1 .. SessionSlots \ {i} : sessions'[j] = sessions[j]
         /\ sessions'[i].handle \in {0, nextSession}
         /\ DOMAIN sessions' = 1 .. SessionSlots
  <1> USE DEF IInv, TypeOK
  <1>1. /\ DOMAIN sessions = 1 .. SessionSlots /\ DOMAIN leases = 1 .. LeaseSlots
        /\ nextSession \in 1 .. MaxSessions + 1 /\ MaxSessions \in Nat
    BY CampaignAssumption DEF RuntimeType
  <1>2. leases' \in [1 .. LeaseSlots -> Leases]
    BY LeasesWithout DEF SlotChanges, RuntimeType
  <1>3. \A k \in 1 .. LeaseSlots : leases'[k].handle # 0 => leases'[k] = leases[k]
    BY LeasesWithout DEF SlotChanges
  <1>4. /\ \A j \in 1 .. SessionSlots \ {i} : sessions'[j] = sessions[j]
        /\ \/ sessions'[i].handle = 0 /\ nextSession' = nextSession
           \/ sessions'[i].handle = nextSession /\ nextSession' = nextSession + 1
        /\ DOMAIN sessions' = 1 .. SessionSlots
    <2>1. CASE OpensIn(i)
      BY <1>1, <2>1 DEF OpensIn
    <2>2. CASE sessions' = [sessions EXCEPT ![i] = NoSession] /\ nextSession' = nextSession
      BY <1>1, <2>2 DEF NoSession
    <2> QED BY <2>1, <2>2 DEF SlotChanges
  <1>5. RuntimeType'
    <2>1. NoSession \in Sessions
      BY CampaignAssumption DEF NoSession, Sessions, Epochs
    <2>2. nextSession <= MaxSessions =>
            [handle |-> nextSession, epoch |-> epoch, engine |-> FALSE] \in Sessions
      BY <1>1 DEF Sessions, Epochs, RuntimeType
    <2>3. sessions' \in [1 .. SessionSlots -> Sessions]
      BY <2>1, <2>2 DEF SlotChanges, OpensIn, RuntimeType
    <2>4. nextSession' \in 1 .. MaxSessions + 1
      BY <1>1 DEF SlotChanges, OpensIn
    <2> QED BY <1>2, <2>3, <2>4 DEF RuntimeType, SlotChanges, Sessions, Leases, Epochs
  <1>6. HandlesIssued'
    <2>1. \A j \in 1 .. SessionSlots : sessions[j].handle \in Nat /\ sessions[j].handle < nextSession
      BY <1>1 DEF HandlesIssued, RuntimeType, Sessions
    <2>2. \A j \in 1 .. SessionSlots : sessions'[j].handle < nextSession'
      BY <1>1, <1>4, <2>1
    <2>3. \A k \in 1 .. LeaseSlots : leases'[k].handle # 0 =>
            leases'[k].owner \in 1 .. nextSession' - 1
      BY <1>1, <1>3, <1>4 DEF HandlesIssued
    <2>4. DOMAIN leases' = 1 .. LeaseSlots
      BY <1>2
    <2> QED BY <1>4, <2>2, <2>3, <2>4 DEF HandlesIssued
  <1>7. LeasesFollowSessions'
    <2> SUFFICES ASSUME NEW k \in 1 .. LeaseSlots, NEW j \in 1 .. SessionSlots,
                        leases'[k].handle # 0, leases'[k].owner = sessions'[j].handle
                 PROVE  leases'[k].epoch = sessions'[j].epoch
      BY <1>2, <1>4 DEF LeasesFollowSessions
    <2>1. leases'[k] = leases[k] /\ leases[k].owner \in 1 .. nextSession - 1
      BY <1>1, <1>3 DEF HandlesIssued
    <2>2. j # i
      BY <1>1, <1>4, <2>1
    <2> QED BY <1>1, <1>4, <2>1, <2>2 DEF LeasesFollowSessions
  <1> QED BY <1>1, <1>4, <1>5, <1>6, <1>7

\* The lease the game's thread is about to take is none of the slot's.
LEMMA SlotChangeLeaves ==
  ASSUME IInv, NEW i \in 1 .. SessionSlots, SlotChanges(i), automation' = automation,
         pc'["game"] = pc["game"], arg'["game"] = arg["game"],
         automation.handle # 0 => automation.session # sessions[i].handle
  PROVE  LeaseIsDue' /\ AutomationOwned'
  <1>1. /\ DOMAIN sessions = 1 .. SessionSlots /\ DOMAIN sessions' = 1 .. SessionSlots
        /\ nextSession \in Nat /\ nextSession' \in Nat /\ nextSession' >= nextSession
        /\ sessions'[i].handle \in {0, nextSession}
        /\ \A j \in 1 .. SessionSlots \ {i} : sessions'[j] = sessions[j]
        /\ UNCHANGED <<epoch, nextLease>>
    BY SlotChangeKeeps DEF IInv, TypeOK, RuntimeType, SlotChanges
  <1>2. LeaseIsDue'
    <2>1. pc["game"] \in {"status", "lease"} =>
            arg["game"] \in 1 .. nextSession - 1 /\ nextLease <= MaxLeases
      BY DEF IInv, LeaseIsDue
    <2>2. ASSUME pc["game"] = "lease", NEW j \in 1 .. SessionSlots, sessions'[j].handle = arg["game"]
          PROVE  sessions'[j].epoch = epoch
      <3>1. j # i
        BY <1>1, <2>1, <2>2
      <3> QED BY <1>1, <2>2, <3>1 DEF IInv, LeaseIsDue
    <2>3. pc["game"] \in {"status", "lease"} => arg["game"] \in 1 .. nextSession' - 1
      BY <1>1, <2>1
    <2> QED BY <1>1, <2>1, <2>2, <2>3 DEF LeaseIsDue
  <1>3. AutomationOwned'
    <2> SUFFICES ASSUME automation.handle # 0 PROVE automation.session \in Open'
      BY DEF AutomationOwned
    <2>1. PICK j \in 1 .. SessionSlots : sessions[j].handle = automation.session
      BY <1>1 DEF IInv, AutomationOwned, Open
    <2>2. j # i /\ automation.session # 0
      BY <2>1 DEF IInv, AutomationOwned, Open
    <2>3. sessions'[j].handle = automation.session
      BY <1>1, <2>1, <2>2
    <2> QED BY <1>1, <2>2, <2>3 DEF Open
  <1> QED BY <1>2, <1>3

LEMMA RetireKeeps ==
  ASSUME IInv, NEW i \in 1 .. SessionSlots, NEW name \in {"open", "close"},
         pc["owner"] = "idle", automation.session = sessions[i].handle, sessions[i].handle # 0,
         name = "open" => nextSession <= MaxSessions,
         Calls("owner", name, i, "disable"), mutex' = "owner",
         leases' = leases \/ \E h : leases' = Without(h),
         UNCHANGED <<epoch, sessions, nextSession, nextLease, engine, native, slot, hookVars, ended>>
  PROVE  IInv'
  <1> USE DEF IInv, TypeOK, native, engine, slot, hookVars
  <1>1. /\ DOMAIN leases = 1 .. LeaseSlots /\ leases' \in [1 .. LeaseSlots -> Leases]
        /\ \A k \in 1 .. LeaseSlots : leases'[k].handle # 0 => leases'[k] = leases[k]
    <2>1. DOMAIN leases = 1 .. LeaseSlots /\ leases \in [1 .. LeaseSlots -> Leases]
      BY DEF RuntimeType
    <2> QED BY <2>1, LeasesWithout
  <1>2. /\ pc' = [pc EXCEPT !["owner"] = "disable"] /\ pc'["game"] = pc["game"]
        /\ call' = [call EXCEPT !["owner"] = name] /\ call'["game"] = call["game"]
        /\ arg' = [arg EXCEPT !["owner"] = i] /\ arg'["game"] = arg["game"]
    BY DEF Calls, CallType, Threads
  <1>3. RuntimeType' /\ LeasesFollowSessions' /\ HandlesIssued'
    BY <1>1 DEF RuntimeType, LeasesFollowSessions, HandlesIssued, Sessions, Leases, Epochs
  <1>4. NativeType' /\ SlotType' /\ CapturedIsAlive' /\ EndedIsGone' /\ AutomationOwned'
    BY DEF NativeType, SlotType, CapturedIsAlive, EndedIsGone, AutomationOwned, Open, Automations,
           Epochs
  <1>5. CallType' /\ CaptureIsFresh' /\ LeaseIsDue'
    <2>1. i \in Nat
      BY CampaignAssumption
    <2> QED BY <1>2, <2>1 DEF CallType, CaptureIsFresh, LeaseIsDue, Threads, OwnerPcs
  <1>6. CallsInPlace'
    BY <1>2 DEF CallsInPlace, CallType, Threads, OwnerPcs, InstallPcs
  <1>7. ConnectedSoFar' /\ CallbackCounted'
    <2>1. automation.handle # 0
      BY DEF EndedIsGone
    <2> QED BY <1>2, <2>1 DEF ConnectedSoFar, CallbackCounted, Connected, Disconnected, InCallback,
               CallType, Threads
  <1> QED BY <1>3, <1>4, <1>5, <1>6, <1>7

LEMMA SlotReplacedKeeps ==
  ASSUME IInv, NEW i \in 1 .. SessionSlots, SlotChanges(i), pc["owner"] = "idle",
         sessions[i].handle # 0 => automation.session # sessions[i].handle,
         UNCHANGED <<mutex, callVars, engine, native, slot, hookVars, ended>>
  PROVE  IInv'
  <1> USE DEF IInv, TypeOK, native, engine, slot, callVars, hookVars
  <1>1. /\ RuntimeType' /\ HandlesIssued' /\ LeasesFollowSessions'
        /\ nextSession' >= nextSession
    BY SlotChangeKeeps
  <1>2. LeaseIsDue' /\ AutomationOwned'
    <2>1. automation.handle # 0 => automation.session # sessions[i].handle
      BY DEF AutomationOwned, Open
    <2> QED BY <2>1, SlotChangeLeaves
  <1>3. NativeType' /\ SlotType' /\ CallType' /\ CapturedIsAlive' /\ CaptureIsFresh' /\ EndedIsGone'
    BY DEF NativeType, SlotType, CallType, CapturedIsAlive, CaptureIsFresh, EndedIsGone,
           Automations, Epochs
  <1>4. CallsInPlace'
    BY DEF CallsInPlace, OwnerPcs, InstallPcs
  <1>5. ConnectedSoFar' /\ CallbackCounted'
    BY DEF ConnectedSoFar, CallbackCounted, Connected, Disconnected, InCallback
  <1> QED BY <1>1, <1>2, <1>3, <1>4, <1>5

LEMMA OpenSessionKeeps ==
  ASSUME IInv, OpenSession
  PROVE  IInv'
  <1> USE DEF IInv, TypeOK
  <1>1. PICK first \in 1 .. SessionSlots :
          /\ pc["owner"] = "idle" /\ nextSession <= MaxSessions
          /\ leases' = leases \/ leases' = Without(sessions[first].handle)
          /\ \/ /\ sessions[first].handle # 0 /\ automation.session = sessions[first].handle
                /\ Calls("owner", "open", first, "disable") /\ mutex' = "owner"
                /\ UNCHANGED <<sessions, nextSession>>
             \/ /\ sessions[first].handle # 0 => automation.session # sessions[first].handle
                /\ OpensIn(first) /\ UNCHANGED <<mutex, callVars>>
          /\ UNCHANGED <<epoch, nextLease, engine, native, slot, hookVars, ended>>
    BY OpenSessionIs
  <1>2. CASE UNCHANGED <<sessions, nextSession>> /\ automation.session = sessions[first].handle
             /\ sessions[first].handle # 0
             /\ Calls("owner", "open", first, "disable") /\ mutex' = "owner"
    BY <1>1, <1>2, RetireKeeps
  <1>3. CASE /\ sessions[first].handle # 0 => automation.session # sessions[first].handle
             /\ OpensIn(first) /\ UNCHANGED <<mutex, callVars>>
    <2>1. SlotChanges(first)
      BY <1>1, <1>3 DEF SlotChanges
    <2> QED BY <1>1, <1>3, <2>1, SlotReplacedKeeps
  <1> QED BY <1>1, <1>2, <1>3

LEMMA CloseSessionKeeps ==
  ASSUME IInv, NEW i \in 1 .. SessionSlots, CloseSession(i)
  PROVE  IInv'
  <1>1. CASE /\ automation.session = sessions[i].handle
             /\ Calls("owner", "close", i, "disable") /\ mutex' = "owner"
             /\ UNCHANGED <<sessions, leases>>
    <2>1. /\ pc["owner"] = "idle" /\ sessions[i].handle # 0
          /\ UNCHANGED <<epoch, nextSession, nextLease, engine, native, slot, hookVars, ended>>
      BY CloseSessionIs
    <2> QED BY <1>1, <2>1, RetireKeeps
  <1>2. CASE /\ automation.session # sessions[i].handle
             /\ leases' = Without(sessions[i].handle)
             /\ sessions' = [sessions EXCEPT ![i] = NoSession]
             /\ UNCHANGED <<mutex, callVars>>
    <2>1. SlotChanges(i)
      BY <1>2, CloseSessionIs DEF SlotChanges
    <2> QED BY <1>2, <2>1, CloseSessionIs, SlotReplacedKeeps
  <1> QED BY <1>1, <1>2, CloseSessionIs

\* The call that retired the automation goes on to what it is for.
LEMMA FinishKeeps ==
  ASSUME IInv, FinishOpen \/ FinishClose
  PROVE  IInv'
  <1> USE DEF IInv, TypeOK, native, engine, slot, hookVars
  <1>1. /\ pc["owner"] = "finish" /\ Returns("owner") /\ mutex' = "none"
        /\ UNCHANGED <<nextLease, engine, native, slot, hookVars, ended>>
    BY DEF FinishOpen, FinishClose
  <1>2. PICK i \in 1 .. SessionSlots : SlotChanges(i)
    <2>1. arg["owner"] \in 1 .. SessionSlots /\ SlotChanges(arg["owner"])
      BY DEF FinishOpen, FinishClose, SlotChanges, CallsInPlace
    <2> QED BY <2>1
  <1>3. /\ pc' = [pc EXCEPT !["owner"] = "idle"] /\ pc'["game"] = pc["game"]
        /\ call' = [call EXCEPT !["owner"] = "none"] /\ call'["game"] = call["game"]
        /\ arg' = [arg EXCEPT !["owner"] = 0] /\ arg'["game"] = arg["game"]
    BY <1>1 DEF Returns, Calls, CallType, Threads
  <1>4. Disconnected
    BY <1>1 DEF ConnectedSoFar
  <1>5. RuntimeType' /\ HandlesIssued' /\ LeasesFollowSessions'
    BY <1>2, SlotChangeKeeps
  <1>6. LeaseIsDue' /\ AutomationOwned'
    BY <1>1, <1>2, <1>3, <1>4, SlotChangeLeaves DEF Disconnected
  <1>7. NativeType' /\ SlotType' /\ CapturedIsAlive' /\ EndedIsGone'
    BY <1>1 DEF NativeType, SlotType, CapturedIsAlive, EndedIsGone, Automations, Epochs
  <1>8. CallType' /\ CaptureIsFresh'
    BY <1>1, <1>3 DEF CallType, CaptureIsFresh, Threads
  <1>9. CallsInPlace'
    BY <1>1, <1>3 DEF CallsInPlace, CallType, Threads, OwnerPcs, InstallPcs
  <1>10. ConnectedSoFar' /\ CallbackCounted'
    BY <1>1, <1>3, <1>4 DEF ConnectedSoFar, CallbackCounted, Connected, Disconnected, InCallback,
                            CallType, Threads
  <1> QED BY <1>5, <1>6, <1>7, <1>8, <1>9, <1>10

LEMMA SessionStepKeeps ==
  ASSUME IInv, SessionStep
  PROVE  IInv'
  BY UseSessionKeeps, OpenSessionKeeps, CloseSessionKeeps, FinishKeeps DEF SessionStep

-----------------------------------------------------------------------------
(* Frontend leases.                                                        *)

\* The game's thread goes on in its call, or ends it, or makes one that is over
\* at once, and what it does leaves the automation to its owner.
GameGoesOn ==
  /\ \/ UNCHANGED callVars /\ pc["game"] = "idle"
     \/ \E x \in {"idle", "status", "lease"}, v \in Nat :
          Calls("game", "none", v, x) /\ pc["game"] \in {"idle", "status", "lease"}
  /\ HandlesStay /\ nextSession' = nextSession
  /\ UNCHANGED <<engine, frontendActive, sinks, flag, refs, nextAutomation, ended, mutex>>
  /\ UNCHANGED <<hook, callback>> /\ token' \in Nat

LEMMA GameGoesOnKeeps ==
  ASSUME IInv, GameGoesOn
  PROVE  CallType' /\ CallsInPlace' /\ ConnectedSoFar' /\ CallbackCounted' /\ CaptureIsFresh'
  <1> USE DEF IInv, TypeOK, engine
  <1>1. /\ pc'["owner"] = pc["owner"] /\ call'["owner"] = call["owner"] /\ arg'["owner"] = arg["owner"]
        /\ pc["game"] \in {"idle", "status", "lease"} /\ pc'["game"] \in {"idle", "status", "lease"}
        /\ call'["game"] = "none"
    BY DEF GameGoesOn, Calls, callVars, CallType, Threads, CallsInPlace
  <1>2. CallType'
    <2>1. /\ pc' \in [Threads -> {"idle"} \cup OwnerPcs \cup InstallPcs \cup GamePcs]
          /\ call' \in [Threads -> {"none", "open", "close", "deactivate", "install"}]
          /\ arg' \in [Threads -> Nat]
      BY DEF GameGoesOn, Calls, callVars, CallType, GamePcs
    <2> QED BY <2>1 DEF CallType, GameGoesOn
  <1>3. /\ Open' = Open /\ automation'.handle = automation.handle /\ nextSession' = nextSession
        /\ automation'.session = automation.session
        /\ UNCHANGED <<frontendActive, sinks, flag, refs, nextAutomation>>
    BY DEF GameGoesOn, HandlesStay
  <1>4. CallsInPlace'
    BY <1>1, <1>3 DEF CallsInPlace, GamePcs
  <1>5. ConnectedSoFar' /\ CallbackCounted' /\ CaptureIsFresh'
    BY <1>1, <1>3 DEF ConnectedSoFar, CallbackCounted, CaptureIsFresh, Connected, Disconnected,
                      InCallback
  <1> QED BY <1>2, <1>4, <1>5

LEMMA AcquireFrontendKeeps ==
  ASSUME IInv, NEW h \in 1 .. nextSession - 1, AcquireFrontend(h)
  PROVE  IInv'
  <1> USE DEF IInv, TypeOK
  <1>1. /\ nextLease <= MaxLeases /\ pc["game"] = "idle" /\ Calls("game", "none", h, "status")
        /\ token' = capture.generation
        /\ UNCHANGED <<epoch, runtime, engine, native, slot, mutex, hook, callback, ended>>
    BY DEF AcquireFrontend
  <1>2. HandlesStay /\ h \in Nat /\ token' \in Nat
    BY <1>1 DEF HandlesStay, runtime, slot, Open, RuntimeType, NativeType
  <1>3. GameGoesOn
    BY <1>1, <1>2 DEF GameGoesOn, runtime, native, slot
  <1>4. RuntimeType' /\ NativeType' /\ SlotType' /\ CapturedIsAlive' /\ LeasesFollowSessions'
        /\ HandlesIssued' /\ EndedIsGone'
    BY <1>1 DEF runtime, engine, native, slot, RuntimeType, NativeType, SlotType, CapturedIsAlive,
                LeasesFollowSessions, HandlesIssued, EndedIsGone, Sessions, Leases, Automations, Epochs
  <1>5. AutomationOwned'
    BY <1>2 DEF HandlesStay, AutomationOwned
  <1>6. LeaseIsDue'
    <2>1. pc'["game"] = "status" /\ arg'["game"] = h
      BY <1>1 DEF Calls, CallType, Threads
    <2> QED BY <1>1, <2>1 DEF LeaseIsDue, runtime
  <1> QED BY <1>3, <1>4, <1>5, <1>6, GameGoesOnKeeps

\* The calls on the game's thread that refresh the lessee's session.
RefreshesLessee(h) ==
  /\ RefreshesOrDrops(h, TRUE)
  /\ UNCHANGED <<epoch, nextSession, nextLease, flag, refs, nextAutomation, ended, mutex, hookVars>>
  /\ UNCHANGED <<engine, frontendActive, sinks>>
  /\ capture' \in {capture, Uncaptured}
  /\ \/ UNCHANGED callVars /\ pc["game"] = "idle"
     \/ h = arg["game"] /\ pc["game"] = "status" /\ Calls("game", "none", h, "lease")

LEMMA RefreshesLesseeKeeps ==
  ASSUME IInv, NEW h, RefreshesLessee(h)
  PROVE  IInv'
  <1> USE DEF IInv, TypeOK
  <1>1. /\ HandlesStay /\ RuntimeType' /\ SlotType' /\ LeasesFollowSessions' /\ HandlesIssued'
        /\ EndedIsGone' /\ AutomationOwned' /\ DOMAIN sessions' = 1 .. SessionSlots
        /\ \A j \in 1 .. SessionSlots :
             /\ sessions[j].handle = h => sessions'[j].epoch = epoch
             /\ sessions[j].handle # h => sessions'[j].epoch = sessions[j].epoch
    <2>1. RefreshesOrDrops(h, TRUE)
          /\ UNCHANGED <<epoch, nextSession, nextLease, flag, refs, nextAutomation, ended>>
      BY DEF RefreshesLessee
    <2> QED BY <2>1, RefreshKeeps
  <1>2. GameGoesOn
    <2>1. arg["game"] \in Nat
      BY DEF CallType, Threads
    <2> QED BY <1>1, <2>1 DEF RefreshesLessee, GameGoesOn, hookVars, CallType
  <1>3. NativeType' /\ CapturedIsAlive'
    <2>1. capture'.address \in {0, capture.address}
          /\ capture' \in [address : 0 .. MaxControllers, generation : Nat, thread : BOOLEAN]
      <3>1. capture.generation + 1 \in Nat /\ 0 \in 0 .. MaxControllers
        BY CampaignAssumption DEF NativeType
      <3>2. CASE capture' = capture
        BY <3>2 DEF NativeType
      <3>3. CASE capture' = Uncaptured
        BY <3>1, <3>3 DEF Uncaptured
      <3> QED BY <3>2, <3>3 DEF RefreshesLessee
    <2> QED BY <2>1 DEF RefreshesLessee, engine, NativeType, CapturedIsAlive
  <1>4. LeaseIsDue'
    <2>1. /\ pc'["game"] \in {"status", "lease"} => pc["game"] = "status"
          /\ pc'["game"] = "lease" => h = arg'["game"] /\ arg'["game"] = arg["game"]
          /\ pc'["game"] # "status"
          /\ UNCHANGED <<epoch, nextSession, nextLease>>
      BY DEF RefreshesLessee, Calls, callVars, CallType, Threads
    <2> QED BY <1>1, <2>1 DEF HandlesStay, LeaseIsDue
  <1> QED BY <1>1, <1>2, <1>3, <1>4, GameGoesOnKeeps

LEMMA CheckLesseeKeeps ==
  ASSUME IInv, CheckLessee
  PROVE  IInv'
  <1> USE DEF IInv, TypeOK
  <1>1. /\ pc["game"] = "status"
        /\ \/ Calls("game", "none", arg["game"], "lease") /\ Refreshes(arg["game"], TRUE)
           \/ Returns("game") /\ UNCHANGED <<sessions, leases, automation>>
        /\ UNCHANGED <<epoch, nextSession, nextLease, engine, native, flag, refs, nextAutomation,
                       mutex, hookVars, ended>>
    BY DEF CheckLessee
  <1>2. CASE Calls("game", "none", arg["game"], "lease") /\ Refreshes(arg["game"], TRUE)
    <2>1. RefreshesLessee(arg["game"])
      BY <1>1, <1>2, RefreshDrops DEF RefreshesLessee, native
    <2> QED BY <2>1, RefreshesLesseeKeeps
  <1>3. CASE Returns("game") /\ UNCHANGED <<sessions, leases, automation>>
    <2>1. HandlesStay
      BY <1>3 DEF HandlesStay, Open
    <2>2. GameGoesOn
      BY <1>1, <1>3, <2>1 DEF GameGoesOn, Returns, native, hookVars, CallType
    <2>3. RuntimeType' /\ NativeType' /\ SlotType' /\ CapturedIsAlive' /\ LeasesFollowSessions'
          /\ HandlesIssued' /\ EndedIsGone'
      BY <1>1, <1>3 DEF engine, native, RuntimeType, NativeType, SlotType, CapturedIsAlive,
           LeasesFollowSessions, HandlesIssued, EndedIsGone, Sessions, Leases, Automations, Epochs
    <2>4. AutomationOwned'
      BY <2>1 DEF HandlesStay, AutomationOwned
    <2>5. LeaseIsDue'
      BY <1>3 DEF Returns, Calls, CallType, Threads, LeaseIsDue
    <2> QED BY <2>2, <2>3, <2>4, <2>5, GameGoesOnKeeps
  <1> QED BY <1>1, <1>2, <1>3

LEMMA UseFrontendKeeps ==
  ASSUME IInv, NEW i \in 1 .. LeaseSlots, UseFrontend(i) \/ ReleaseFrontend(i)
  PROVE  IInv'
  <1> USE DEF IInv, TypeOK
  <1>1. CASE UseFrontend(i)
    <2>1. RefreshesLessee(leases[i].owner)
      BY <1>1, RefreshDrops DEF UseFrontend, RefreshesLessee, native
    <2> QED BY <2>1, RefreshesLesseeKeeps
  <1>2. CASE ReleaseFrontend(i)
    <2> DEFINE h == leases[i].owner
    <2>1. leases' = [LeasesAfter(h) EXCEPT ![i] = NoLease]
      BY <1>2 DEF ReleaseFrontend
    <2>2. LeasesAfter(h) \in [1 .. LeaseSlots -> Leases] /\ NoLease \in Leases /\ NoLease.handle = 0
      BY LeasesWithout, CampaignAssumption DEF NoLease, Leases, Epochs
    <2>3. /\ leases' \in [1 .. LeaseSlots -> Leases]
          /\ \A k \in 1 .. LeaseSlots : leases'[k].handle # 0 => leases'[k] = LeasesAfter(h)[k]
      BY <2>1, <2>2
    <2>4. RefreshesLessee(h)
      BY <1>2, <2>3 DEF ReleaseFrontend, RefreshesLessee, RefreshesOrDrops
    <2> QED BY <2>4, RefreshesLesseeKeeps
  <1> QED BY <1>1, <1>2

LEMMA TakeLeaseKeeps ==
  ASSUME IInv, TakeLease
  PROVE  IInv'
  <1> USE DEF IInv, TypeOK
  <1> DEFINE new == [handle |-> nextLease, owner |-> arg["game"], epoch |-> epoch,
                     generation |-> token]
  <1>1. /\ pc["game"] = "lease" /\ Returns("game")
        /\ UNCHANGED <<epoch, sessions, nextSession, engine, native, slot, mutex, hookVars, ended>>
        /\ \/ UNCHANGED <<leases, nextLease>>
           \/ nextLease' = nextLease + 1 /\ \E k : leases' = [leases EXCEPT ![k] = new]
    BY DEF TakeLease
  <1>2. /\ arg["game"] \in 1 .. nextSession - 1 /\ nextLease <= MaxLeases
        /\ \A j \in DOMAIN sessions : sessions[j].handle = arg["game"] => sessions[j].epoch = epoch
    BY <1>1 DEF LeaseIsDue
  <1>3. new \in Leases
    <2>1. nextLease \in 0 .. MaxLeases
      BY <1>2, CampaignAssumption DEF RuntimeType
    <2>2. arg["game"] \in 0 .. MaxSessions
      <3>1. nextSession \in 1 .. MaxSessions + 1
        BY DEF RuntimeType
      <3> QED BY <1>2, <3>1, CampaignAssumption
    <2>3. epoch \in Epochs /\ token \in Nat
      BY DEF RuntimeType, CallType, Epochs
    <2> QED BY <2>1, <2>2, <2>3 DEF Leases
  <1>4. leases' \in [1 .. LeaseSlots -> Leases]
        /\ \A k \in 1 .. LeaseSlots : leases'[k] = leases[k] \/ leases'[k] = new
    BY <1>1, <1>3 DEF RuntimeType
  <1> HIDE DEF new
  <1>5. new.owner = arg["game"] /\ new.epoch = epoch
    BY DEF new
  <1>6. HandlesStay
    BY <1>1 DEF HandlesStay, Open, slot
  <1>7. GameGoesOn
    BY <1>1, <1>6 DEF GameGoesOn, Returns, native, slot, hookVars, CallType
  <1>8. RuntimeType'
    <2>1. nextLease' \in 1 .. MaxLeases + 1
      <3>1. nextLease \in 1 .. MaxLeases + 1 /\ nextLease <= MaxLeases
        BY <1>2 DEF RuntimeType
      <3>2. nextLease' = nextLease \/ nextLease' = nextLease + 1
        BY <1>1
      <3> QED BY <3>1, <3>2, CampaignAssumption
    <2>2. Leases' = Leases /\ Sessions' = Sessions
      BY DEF Leases, Sessions, Epochs
    <2> QED BY <1>1, <1>4, <2>1, <2>2 DEF RuntimeType
  <1>9. NativeType' /\ SlotType' /\ CapturedIsAlive' /\ EndedIsGone'
    BY <1>1 DEF engine, native, slot, NativeType, SlotType, CapturedIsAlive, EndedIsGone,
                Automations, Epochs
  <1>10. LeasesFollowSessions'
    BY <1>1, <1>2, <1>4, <1>5 DEF LeasesFollowSessions, RuntimeType
  <1>11. HandlesIssued'
    BY <1>1, <1>2, <1>4, <1>5 DEF HandlesIssued, RuntimeType
  <1>12. AutomationOwned'
    BY <1>6 DEF HandlesStay, AutomationOwned
  <1>13. LeaseIsDue'
    BY <1>1 DEF Returns, Calls, CallType, Threads, LeaseIsDue
  <1> QED BY <1>7, <1>8, <1>9, <1>10, <1>11, <1>12, <1>13, GameGoesOnKeeps

LEMMA LesseeStepKeeps ==
  ASSUME IInv, LesseeStep
  PROVE  IInv'
  BY AcquireFrontendKeeps, CheckLesseeKeeps, UseFrontendKeeps, TakeLeaseKeeps DEF LesseeStep

-----------------------------------------------------------------------------
(* The owner's calls on the automation.                                    *)

\* What the owner's calls on the automation leave to the others.
LEMMA OwnerLeaves ==
  ASSUME IInv, UNCHANGED <<epoch, runtime, engine>>, pc'["game"] = pc["game"],
         arg'["game"] = arg["game"]
  PROVE  /\ RuntimeType' /\ LeasesFollowSessions' /\ HandlesIssued' /\ LeaseIsDue'
         /\ CaptureIsFresh' /\ Open' = Open /\ nextSession' = nextSession
  <1> USE DEF IInv, TypeOK, runtime, engine
  <1>1. RuntimeType'
    BY DEF RuntimeType, Sessions, Leases, Epochs
  <1>2. LeasesFollowSessions' /\ HandlesIssued' /\ Open' = Open
    BY DEF LeasesFollowSessions, HandlesIssued, Open
  <1>3. LeaseIsDue' /\ CaptureIsFresh'
    BY DEF LeaseIsDue, CaptureIsFresh
  <1> QED BY <1>1, <1>2, <1>3

\* The owner's call goes on, with the fields of the automation as they are.
OwnerMoves(from, to) ==
  /\ pc["owner"] = from /\ pc' = [pc EXCEPT !["owner"] = to]
  /\ UNCHANGED <<epoch, runtime, engine, automation, nextAutomation, call, arg, hookVars, ended>>
  /\ mutex' \in Threads \cup {"none"}

LEMMA OwnerMovesTo ==
  ASSUME IInv, NEW from, NEW to \in OwnerPcs \cup InstallPcs, OwnerMoves(from, to)
  PROVE  /\ RuntimeType' /\ CallType' /\ LeasesFollowSessions' /\ HandlesIssued' /\ LeaseIsDue'
         /\ CaptureIsFresh' /\ EndedIsGone' /\ AutomationOwned'
         /\ Open' = Open /\ nextSession' = nextSession /\ InCallback' = InCallback
         /\ pc'["owner"] = to /\ pc'["game"] = pc["game"]
  <1> USE DEF IInv, TypeOK
  <1>1. pc'["owner"] = to /\ pc'["game"] = pc["game"] /\ arg' = arg
    BY DEF OwnerMoves, CallType, Threads
  <1>2. /\ RuntimeType' /\ LeasesFollowSessions' /\ HandlesIssued' /\ LeaseIsDue'
        /\ CaptureIsFresh' /\ Open' = Open /\ nextSession' = nextSession
    BY <1>1, OwnerLeaves DEF OwnerMoves
  <1>3. CallType'
    BY <1>1 DEF OwnerMoves, CallType, hookVars, OwnerPcs, InstallPcs
  <1>4. EndedIsGone' /\ AutomationOwned'
    BY <1>2 DEF OwnerMoves, EndedIsGone, AutomationOwned
  <1> QED BY <1>1, <1>2, <1>3, <1>4 DEF InCallback

\* The steps of an installation that leave the fields alone.
LEMMA InstallMovesKeep ==
  ASSUME IInv, \/ InstallChecks("owner") /\ pc'["owner"] = "hooks"
               \/ InstallHooks("owner") \/ HooksFail("owner") \/ InstallPublish("owner")
  PROVE  IInv'
  <1> USE DEF IInv, TypeOK
  <1>1. \/ /\ OwnerMoves("check", "hooks") /\ frontendActive' = TRUE
           /\ UNCHANGED <<capture, sinks, flag, refs>>
        \/ OwnerMoves("hooks", "fields") /\ UNCHANGED <<frontendActive, capture, sinks, flag, refs>>
        \/ /\ OwnerMoves("hooks", "uncapture") /\ frontendActive' = FALSE
           /\ sinks' \in {sinks \ {"frontend"}, {}} /\ UNCHANGED <<capture, flag, refs>>
        \/ /\ OwnerMoves("publish", "connect") /\ flag' = "active" /\ refs' = 0
           /\ UNCHANGED <<frontendActive, capture, sinks>>
    <2>1. CASE InstallChecks("owner") /\ pc'["owner"] = "hooks"
      <3>1. ~Returns("owner")
        BY <2>1 DEF Returns, Calls, CallType, Threads
      <3>2. automation.handle = 0
        BY <2>1 DEF InstallChecks, ConnectedSoFar, Disconnected
      <3>3. /\ Goes("owner", "check", "hooks") /\ frontendActive' = TRUE /\ mutex' = "owner"
            /\ UNCHANGED <<call, arg>>
        BY <2>1, <3>1, <3>2 DEF InstallChecks
      <3> QED BY <2>1, <3>3 DEF InstallChecks, OwnerMoves, Goes, slot, Threads
    <2>2. CASE InstallHooks("owner")
      BY <2>2 DEF InstallHooks, OwnerMoves, Goes, slot, native, CallType
    <2>3. CASE HooksFail("owner")
      BY <2>3 DEF HooksFail, OwnerMoves, Goes, slot, CallType
    <2>4. CASE InstallPublish("owner")
      BY <2>4 DEF InstallPublish, OwnerMoves, Goes, native, CallType
    <2> QED BY <2>1, <2>2, <2>3, <2>4
  <1>2. PICK from \in {"check", "hooks", "publish"}, to \in {"hooks", "fields", "uncapture", "connect"} :
          OwnerMoves(from, to)
    BY <1>1
  <1>3. /\ RuntimeType' /\ CallType' /\ LeasesFollowSessions' /\ HandlesIssued' /\ LeaseIsDue'
        /\ CaptureIsFresh' /\ EndedIsGone' /\ AutomationOwned'
        /\ Open' = Open /\ nextSession' = nextSession /\ InCallback' = InCallback
        /\ pc'["owner"] = to /\ pc["owner"] = from /\ pc'["game"] = pc["game"]
        /\ UNCHANGED <<automation, nextAutomation, call, arg, callback>>
    <2>1. to \in OwnerPcs \cup InstallPcs
      BY DEF OwnerPcs, InstallPcs
    <2> QED BY <1>2, <2>1, OwnerMovesTo DEF OwnerMoves, hookVars
  <1>4. call["owner"] = "install"
    BY <1>3 DEF CallsInPlace, InstallPcs
  <1>5. sinks = {} /\ flag = "free"
    BY <1>1, <1>3 DEF OwnerMoves, ConnectedSoFar, Disconnected, Connected
  <1>6. ~InCallback /\ refs = 0 /\ refs' = 0
    BY <1>1, <1>5 DEF CallbackCounted
  <1>7. NativeType' /\ CapturedIsAlive'
    BY <1>1, <1>2, <1>5 DEF NativeType, CapturedIsAlive, OwnerMoves, engine, Hooks
  <1>8. SlotType'
    BY <1>1, <1>2, <1>6, CampaignAssumption DEF SlotType, OwnerMoves, Automations, Epochs
  <1>9. CallsInPlace'
    BY <1>1, <1>3 DEF CallsInPlace, OwnerMoves, InstallPcs, OwnerPcs, CallType, Threads
  <1>10. ConnectedSoFar'
    <2>1. call'["owner"] = "install" /\ sinks' = {} /\ automation'.handle = automation.handle
      BY <1>1, <1>3, <1>4, <1>5
    <2>2. CASE pc["owner"] = "check"
      <3>1. pc'["owner"] = "hooks" /\ frontendActive' /\ flag' = "free" /\ automation.handle = 0
        <4>1. automation.handle = 0
          BY <2>2 DEF ConnectedSoFar, Disconnected
        <4>2. OwnerMoves("check", "hooks") /\ frontendActive' = TRUE /\ flag' = flag
          BY <1>1, <2>2 DEF OwnerMoves
        <4> QED BY <1>5, <4>1, <4>2 DEF OwnerMoves, CallType, Threads
      <3> QED BY <2>1, <3>1 DEF ConnectedSoFar
    <2>3. CASE pc["owner"] = "hooks"
      <3>1. flag' = "free" /\ automation.handle = 0
            /\ \/ pc'["owner"] = "fields" /\ frontendActive'
               \/ pc'["owner"] = "uncapture" /\ ~frontendActive'
        <4>1. automation.handle = 0 /\ frontendActive
          BY <2>3 DEF ConnectedSoFar
        <4>2. /\ flag' = flag
              /\ \/ OwnerMoves("hooks", "fields") /\ frontendActive' = frontendActive
                 \/ OwnerMoves("hooks", "uncapture") /\ frontendActive' = FALSE
          BY <1>1, <2>3 DEF OwnerMoves
        <4> QED BY <1>5, <4>1, <4>2 DEF OwnerMoves, CallType, Threads
      <3> QED BY <2>1, <3>1 DEF ConnectedSoFar, Disconnected
    <2>4. CASE pc["owner"] = "publish"
      <3>1. pc'["owner"] = "connect" /\ frontendActive' /\ flag' = "active" /\ automation.handle # 0
        <4>1. automation.handle # 0 /\ frontendActive
          BY <2>4 DEF ConnectedSoFar
        <4>2. OwnerMoves("publish", "connect") /\ frontendActive' = frontendActive /\ flag' = "active"
          BY <1>1, <2>4 DEF OwnerMoves
        <4> QED BY <4>1, <4>2 DEF OwnerMoves, CallType, Threads
      <3> QED BY <2>1, <3>1 DEF ConnectedSoFar
    <2> QED BY <1>3, <2>2, <2>3, <2>4
  <1>11. CallbackCounted'
    BY <1>3, <1>6 DEF CallbackCounted, InCallback
  <1> QED BY <1>3, <1>7, <1>8, <1>9, <1>10, <1>11

\* The owner's call ends, connected or not.
LEMMA OwnerReturnsKeeps ==
  ASSUME IInv,
         \/ InstallChecks("owner") /\ Returns("owner")
         \/ InstallFailed("owner") \/ InstallConnect("owner") \/ FinishDeactivate
  PROVE  IInv'
  <1> USE DEF IInv, TypeOK
  <1>1. /\ Returns("owner") /\ mutex' \in Threads \cup {"none"}
        /\ UNCHANGED <<epoch, runtime, engine, capture, slot, hookVars>>
        /\ \/ Disconnected /\ UNCHANGED <<frontendActive, sinks, ended>>
           \/ /\ Disconnected /\ UNCHANGED <<frontendActive, sinks>>
              /\ arg["owner"] \in 1 .. nextAutomation - 1 /\ ended' = ended \cup {arg["owner"]}
           \/ /\ pc["owner"] = "connect" /\ sinks' = Hooks
              /\ UNCHANGED <<frontendActive, ended>>
    <2>1. CASE InstallChecks("owner") /\ Returns("owner")
      <3>1. ~Goes("owner", "check", "hooks")
        BY <2>1 DEF Returns, Calls, Goes, CallType, Threads
      <3>2. pc["owner"] = "check" /\ UNCHANGED <<frontendActive, mutex>>
            /\ UNCHANGED <<epoch, runtime, engine, capture, sinks, slot, hookVars, ended>>
        BY <2>1, <3>1 DEF InstallChecks
      <3> QED BY <2>1, <3>2 DEF ConnectedSoFar, CallType
    <2>2. CASE InstallFailed("owner")
      BY <2>2 DEF InstallFailed, native, ConnectedSoFar
    <2>3. CASE InstallConnect("owner")
      BY <2>3 DEF InstallConnect
    <2>4. CASE FinishDeactivate
      BY <2>4 DEF FinishDeactivate, native, ConnectedSoFar, CallsInPlace
    <2> QED BY <2>1, <2>2, <2>3, <2>4
  <1>2. /\ pc' = [pc EXCEPT !["owner"] = "idle"] /\ pc'["game"] = pc["game"] /\ pc'["owner"] = "idle"
        /\ call' = [call EXCEPT !["owner"] = "none"] /\ call'["game"] = call["game"]
        /\ call'["owner"] = "none"
        /\ arg' = [arg EXCEPT !["owner"] = 0] /\ arg'["game"] = arg["game"]
    BY <1>1 DEF Returns, Calls, CallType, Threads
  <1>3. /\ RuntimeType' /\ LeasesFollowSessions' /\ HandlesIssued' /\ LeaseIsDue'
        /\ CaptureIsFresh' /\ Open' = Open /\ nextSession' = nextSession
    BY <1>1, <1>2, OwnerLeaves
  <1>4. NativeType' /\ CapturedIsAlive'
    BY <1>1 DEF NativeType, CapturedIsAlive, engine
  <1>5. SlotType' /\ EndedIsGone' /\ AutomationOwned'
    <2>1. arg["owner"] \in 1 .. nextAutomation - 1 => arg["owner"] \in 1 .. MaxAutomations
      BY CampaignAssumption DEF SlotType
    <2>2. UNCHANGED <<flag, refs, automation, nextAutomation>>
      BY <1>1 DEF slot
    <2>3. \/ ended' = ended
          \/ /\ automation.handle = 0 /\ arg["owner"] \in 1 .. nextAutomation - 1
             /\ ended' = ended \cup {arg["owner"]}
      BY <1>1 DEF Disconnected
    <2>4. ended' \subseteq 1 .. MaxAutomations /\ Automations' = Automations
      BY <2>1, <2>3 DEF SlotType, Automations, Epochs
    <2>5. SlotType'
      BY <2>2, <2>4 DEF SlotType
    <2>6. EndedIsGone'
      BY <2>2, <2>3 DEF EndedIsGone
    <2> QED BY <1>3, <2>2, <2>5, <2>6 DEF AutomationOwned
  <1>6. CallType'
    BY <1>1, <1>2 DEF CallType, hookVars
  <1>7. CallsInPlace'
    BY <1>2 DEF CallsInPlace, InstallPcs
  <1>8. ConnectedSoFar'
    <2>1. CASE Disconnected /\ UNCHANGED <<frontendActive, sinks>>
      BY <1>1, <1>2, <2>1 DEF slot, ConnectedSoFar, Disconnected
    <2>2. CASE pc["owner"] = "connect" /\ sinks' = Hooks /\ UNCHANGED frontendActive
      <3>1. frontendActive /\ automation.handle # 0 /\ flag = "active"
        BY <2>2 DEF ConnectedSoFar
      <3> QED BY <1>1, <1>2, <2>2, <3>1 DEF slot, ConnectedSoFar, Connected
    <2> QED BY <1>1, <2>1, <2>2
  <1>9. CallbackCounted'
    BY <1>1, <1>2 DEF CallbackCounted, InCallback, slot, hookVars
  <1> QED BY <1>3, <1>4, <1>5, <1>6, <1>7, <1>8, <1>9

\* The fields of a free slot, before its word is published.
LEMMA InstallFieldsKeeps ==
  ASSUME IInv, InstallFields("owner")
  PROVE  IInv'
  <1> USE DEF IInv, TypeOK
  <1>1. PICK callbacks \in SUBSET Hooks :
          automation' = [handle |-> nextAutomation, session |-> arg["owner"], epoch |-> epoch,
                         callbacks |-> callbacks, thread |-> "owner"]
    BY DEF InstallFields, Hooks
  <1>2. /\ pc["owner"] = "fields" /\ nextAutomation' = nextAutomation + 1
        /\ pc' = [pc EXCEPT !["owner"] = "publish"] /\ pc'["game"] = pc["game"]
        /\ pc'["owner"] = "publish"
        /\ UNCHANGED <<epoch, runtime, engine, native, flag, refs, mutex, call, arg, hookVars, ended>>
    BY DEF InstallFields, Goes, CallType, Threads
  <1>3. /\ RuntimeType' /\ LeasesFollowSessions' /\ HandlesIssued' /\ LeaseIsDue'
        /\ CaptureIsFresh' /\ Open' = Open /\ nextSession' = nextSession
    BY <1>2, OwnerLeaves
  <1>4. /\ call["owner"] = "install" /\ arg["owner"] \in Open /\ nextAutomation <= MaxAutomations
        /\ sinks = {} /\ frontendActive /\ flag = "free" /\ automation.handle = 0 /\ ~InCallback
    BY <1>2 DEF CallsInPlace, InstallPcs, ConnectedSoFar, CallbackCounted
  <1>5. NativeType' /\ CapturedIsAlive' /\ CallType'
    BY <1>2 DEF NativeType, CapturedIsAlive, CallType, native, engine, hookVars, InstallPcs
  <1>6. nextAutomation \in 1 .. MaxAutomations /\ nextAutomation' \in 1 .. MaxAutomations + 1
    BY <1>2, <1>4, CampaignAssumption DEF SlotType
  <1>7. SlotType'
    <2>1. arg["owner"] \in 0 .. MaxSessions
      BY <1>4 DEF Open, RuntimeType, Sessions
    <2>2. epoch \in Epochs
      BY DEF RuntimeType, Epochs
    <2>3. automation' \in Automations
      BY <1>1, <1>6, <2>1, <2>2 DEF Automations, Threads
    <2> QED BY <1>2, <1>6, <2>3 DEF SlotType, Automations, Epochs
  <1>8. CallsInPlace'
    BY <1>2, <1>3, <1>4 DEF CallsInPlace, InstallPcs, OwnerPcs
  <1>9. automation'.handle = nextAutomation /\ automation'.session = arg["owner"]
    BY <1>1
  <1>10. ConnectedSoFar' /\ CallbackCounted'
    BY <1>2, <1>4, <1>6, <1>9 DEF ConnectedSoFar, CallbackCounted, InCallback, native
  <1>11. EndedIsGone'
    BY <1>2, <1>6, <1>9 DEF EndedIsGone
  <1>12. AutomationOwned'
    BY <1>3, <1>4, <1>9 DEF AutomationOwned
  <1> QED BY <1>3, <1>5, <1>7, <1>8, <1>10, <1>11, <1>12

\* What is captured is taken back, after a failure or a deactivation.
LEMMA UncaptureKeeps ==
  ASSUME IInv, Uncapture("owner") \/ Unthread("owner")
  PROVE  IInv'
  <1> USE DEF IInv, TypeOK
  <1>1. /\ pc["owner"] \in {"uncapture", "unthread"}
        /\ \/ pc["owner"] = "uncapture" /\ OwnerMoves(pc["owner"], "unthread")
           \/ call["owner"] = "install" /\ OwnerMoves(pc["owner"], "failed")
           \/ call["owner"] # "install" /\ OwnerMoves(pc["owner"], "clear")
        /\ UNCHANGED <<epoch, runtime, engine, frontendActive, sinks, slot, mutex, call, arg,
                       hookVars, ended>>
    BY DEF Uncapture, Unthread, Released, Goes, OwnerMoves, slot, CallType
  <1>2. PICK from \in {"uncapture", "unthread"}, to \in {"unthread", "failed", "clear"} :
          /\ from = pc["owner"] /\ OwnerMoves(from, to)
          /\ to = "failed" => call["owner"] = "install"
          /\ to = "clear" => call["owner"] # "install"
    BY <1>1
  <1>3. /\ RuntimeType' /\ CallType' /\ LeasesFollowSessions' /\ HandlesIssued' /\ LeaseIsDue'
        /\ CaptureIsFresh' /\ EndedIsGone' /\ AutomationOwned'
        /\ Open' = Open /\ nextSession' = nextSession /\ InCallback' = InCallback
        /\ pc'["owner"] = to /\ pc'["game"] = pc["game"]
    <2>1. to \in OwnerPcs \cup InstallPcs
      BY DEF OwnerPcs, InstallPcs
    <2> QED BY <1>2, <2>1, OwnerMovesTo
  <1>4. capture' \in [address : 0 .. MaxControllers, generation : Nat, thread : BOOLEAN]
        /\ capture'.address \in {0, capture.address}
    <2>1. /\ capture.generation + 1 \in Nat /\ 0 \in 0 .. MaxControllers
          /\ capture \in [address : 0 .. MaxControllers, generation : Nat, thread : BOOLEAN]
      BY CampaignAssumption DEF NativeType
    <2> QED BY <2>1 DEF Uncapture, Unthread
  <1>5. NativeType' /\ CapturedIsAlive'
    BY <1>1, <1>4 DEF NativeType, CapturedIsAlive, engine
  <1>6. SlotType'
    BY <1>1 DEF SlotType, slot, Automations, Epochs
  <1>7. CallsInPlace'
    <2>1. UNCHANGED <<automation, nextAutomation, call, arg>> /\ call["owner"] # "none"
      BY <1>1 DEF slot, CallsInPlace
    <2>2. to = "failed" <=> to \in InstallPcs
      BY DEF InstallPcs
    <2>3. call["owner"] \in {"install", "open", "close", "deactivate"}
      BY <2>1 DEF CallType, Threads
    <2> QED BY <1>2, <1>3, <2>1, <2>2, <2>3 DEF CallsInPlace, OwnerPcs, InstallPcs
  <1>8. ConnectedSoFar'
    <2>1. UNCHANGED <<frontendActive, sinks, flag, automation, call>>
      BY <1>1 DEF slot
    <2>2. CASE call["owner"] = "install"
      <3>1. Disconnected'
        BY <1>2, <2>1, <2>2 DEF ConnectedSoFar, Disconnected
      <3> QED BY <1>2, <1>3, <2>1, <2>2, <3>1 DEF ConnectedSoFar
    <2>3. CASE call["owner"] # "install"
      <3>1. sinks = {} /\ ~frontendActive /\ flag = "removing" /\ automation.handle # 0 /\ ~InCallback
        BY <1>2, <2>3 DEF ConnectedSoFar
      <3> QED BY <1>2, <1>3, <2>1, <2>3, <3>1 DEF ConnectedSoFar
    <2> QED BY <2>2, <2>3
  <1>9. CallbackCounted'
    BY <1>1, <1>3 DEF CallbackCounted, slot, hookVars
  <1> QED BY <1>3, <1>5, <1>6, <1>7, <1>8, <1>9

\* A session is refreshed as the owner's call begins.
LEMMA RefreshLeaves ==
  ASSUME IInv, NEW h, Refreshes(h, FALSE), pc'["game"] = pc["game"], arg'["game"] = arg["game"],
         UNCHANGED <<epoch, nextSession, nextLease, engine, native, flag, refs, nextAutomation, ended>>
  PROVE  /\ RuntimeType' /\ NativeType' /\ SlotType' /\ CapturedIsAlive' /\ CaptureIsFresh'
         /\ LeasesFollowSessions' /\ HandlesIssued' /\ LeaseIsDue' /\ EndedIsGone'
         /\ AutomationOwned' /\ HandlesStay
  <1> USE DEF IInv, TypeOK, engine, native
  <1>1. /\ HandlesStay /\ RuntimeType' /\ SlotType' /\ LeasesFollowSessions' /\ HandlesIssued'
        /\ EndedIsGone' /\ AutomationOwned' /\ DOMAIN sessions' = 1 .. SessionSlots
        /\ \A j \in 1 .. SessionSlots :
             /\ sessions[j].handle = h => sessions'[j].epoch = epoch
             /\ sessions[j].handle # h => sessions'[j].epoch = sessions[j].epoch
    BY RefreshDrops, RefreshKeeps
  <1>2. NativeType' /\ CapturedIsAlive' /\ CaptureIsFresh'
    BY DEF NativeType, CapturedIsAlive, CaptureIsFresh
  <1>3. LeaseIsDue'
    BY <1>1 DEF HandlesStay, LeaseIsDue, RuntimeType
  <1> QED BY <1>1, <1>2, <1>3

LEMMA BeginInstallKeeps ==
  ASSUME OneRegistrant, IInv, NEW h \in 1 .. nextSession - 1, BeginInstall("owner", h)
  PROVE  IInv'
  <1> USE DEF IInv, TypeOK
  <1>1. /\ pc["owner"] = "idle" /\ nextAutomation <= MaxAutomations /\ h \in Open
        /\ automation.handle = 0 /\ Refreshes(h, FALSE) /\ mutex' = mutex
        /\ UNCHANGED <<epoch, nextSession, nextLease, engine, native, flag, refs, nextAutomation,
                       hookVars, ended>>
    BY DEF BeginInstall, Admits, Open
  <1>2. /\ pc' = [pc EXCEPT !["owner"] = "check"] /\ pc'["game"] = pc["game"] /\ pc'["owner"] = "check"
        /\ call' = [call EXCEPT !["owner"] = "install"] /\ call'["game"] = call["game"]
        /\ call'["owner"] = "install" /\ arg'["owner"] = h
        /\ arg' = [arg EXCEPT !["owner"] = h] /\ arg'["game"] = arg["game"]
    BY DEF BeginInstall, Calls, CallType, Threads
  <1>3. /\ RuntimeType' /\ NativeType' /\ SlotType' /\ CapturedIsAlive' /\ CaptureIsFresh'
        /\ LeasesFollowSessions' /\ HandlesIssued' /\ LeaseIsDue' /\ EndedIsGone'
        /\ AutomationOwned' /\ HandlesStay
    BY <1>1, <1>2, RefreshLeaves
  <1>4. CallType'
    <2>1. h \in Nat
      BY DEF RuntimeType
    <2> QED BY <1>1, <1>2, <2>1 DEF CallType, hookVars, InstallPcs
  <1>5. CallsInPlace'
    BY <1>1, <1>2, <1>3 DEF CallsInPlace, HandlesStay, InstallPcs
  <1>6. Disconnected'
    BY <1>1, <1>3 DEF ConnectedSoFar, Connected, Disconnected, HandlesStay, native
  <1>7. ConnectedSoFar'
    BY <1>2, <1>6 DEF ConnectedSoFar
  <1>8. CallbackCounted'
    BY <1>1, <1>2, <1>3 DEF CallbackCounted, InCallback, HandlesStay, hookVars
  <1> QED BY <1>3, <1>4, <1>5, <1>7, <1>8

LEMMA OwnerInstallsKeeps ==
  ASSUME OneRegistrant, IInv, OwnerInstalls
  PROVE  IInv'
  <1>1. InstallChecks("owner") =>
          (InstallChecks("owner") /\ pc'["owner"] = "hooks") \/ (InstallChecks("owner") /\ Returns("owner"))
    BY DEF InstallChecks, Goes, IInv, TypeOK, CallType, Threads
  <1> QED BY <1>1, BeginInstallKeeps, InstallMovesKeep, OwnerReturnsKeeps, InstallFieldsKeeps,
             UncaptureKeeps DEF OwnerInstalls, InstallStep

\* The owner asks for the end of a registration.
LEMMA DeactivateKeeps ==
  ASSUME IInv, NEW h \in 1 .. nextAutomation - 1, Deactivate(h)
  PROVE  IInv'
  <1> USE DEF IInv, TypeOK, slot
  <1>1. /\ pc["owner"] = "idle"
        /\ UNCHANGED <<epoch, runtime, engine, native, slot, mutex, hookVars>>
        /\ \/ automation.handle = h /\ Calls("owner", "deactivate", h, "lock") /\ ended' = ended
           \/ automation.handle # h /\ ended' = ended \cup {h} /\ UNCHANGED callVars
    BY DEF Deactivate
  <1>2. /\ pc'["game"] = pc["game"] /\ call'["game"] = call["game"] /\ arg'["game"] = arg["game"]
        /\ \/ /\ automation.handle = h
              /\ pc'["owner"] = "lock" /\ call'["owner"] = "deactivate" /\ arg'["owner"] = h
           \/ pc'["owner"] = "idle" /\ call'["owner"] = call["owner"] /\ arg'["owner"] = arg["owner"]
    BY <1>1 DEF Calls, callVars, CallType, Threads
  <1>3. /\ RuntimeType' /\ LeasesFollowSessions' /\ HandlesIssued' /\ LeaseIsDue'
        /\ CaptureIsFresh' /\ Open' = Open /\ nextSession' = nextSession
    BY <1>1, <1>2, OwnerLeaves
  <1>4. h \in 1 .. MaxAutomations /\ h # 0 /\ h \in Nat
    BY CampaignAssumption DEF SlotType
  <1>5. NativeType' /\ CapturedIsAlive'
    BY <1>1 DEF NativeType, CapturedIsAlive, native, engine
  <1>6. CallType'
    BY <1>1, <1>4 DEF CallType, Calls, callVars, hookVars, OwnerPcs
  <1>7. ended' = ended \/ (automation.handle # h /\ ended' = ended \cup {h})
    BY <1>1
  <1>8. SlotType' /\ EndedIsGone' /\ AutomationOwned'
    BY <1>1, <1>3, <1>4, <1>7 DEF SlotType, EndedIsGone, AutomationOwned, Automations, Epochs
  <1>9. CallsInPlace'
    BY <1>1, <1>2, <1>3 DEF CallsInPlace, OwnerPcs, InstallPcs
  <1>10. ConnectedSoFar'
    BY <1>1, <1>2, <1>4 DEF ConnectedSoFar, Connected, Disconnected, native
  <1>11. CallbackCounted'
    BY <1>1, <1>2 DEF CallbackCounted, InCallback, hookVars
  <1> QED BY <1>3, <1>5, <1>6, <1>8, <1>9, <1>10, <1>11

LEMMA DeactivateLocksKeeps ==
  ASSUME IInv, DeactivateLocks
  PROVE  IInv'
  <1> USE DEF IInv, TypeOK
  <1>1. PICK h : h = automation.session
    OBVIOUS
  <1>2. /\ Refreshes(h, FALSE) /\ mutex' = "owner" /\ pc["owner"] = "lock"
        /\ UNCHANGED <<epoch, nextSession, nextLease, engine, native, flag, refs, nextAutomation,
                       call, arg, hookVars, ended>>
        /\ pc' = [pc EXCEPT !["owner"] = "disable"]
    BY <1>1 DEF DeactivateLocks, Goes
  <1>3. pc'["game"] = pc["game"] /\ pc'["owner"] = "disable"
    BY <1>2 DEF CallType, Threads
  <1>4. /\ RuntimeType' /\ NativeType' /\ SlotType' /\ CapturedIsAlive' /\ CaptureIsFresh'
        /\ LeasesFollowSessions' /\ HandlesIssued' /\ LeaseIsDue' /\ EndedIsGone'
        /\ AutomationOwned' /\ HandlesStay
    BY <1>2, <1>3, RefreshLeaves
  <1>5. CallType'
    BY <1>2 DEF CallType, hookVars, OwnerPcs, Threads
  <1>6. CallsInPlace'
    BY <1>2, <1>3, <1>4 DEF CallsInPlace, HandlesStay, OwnerPcs, InstallPcs
  <1>7. ConnectedSoFar'
    BY <1>2, <1>3, <1>4 DEF ConnectedSoFar, Connected, HandlesStay, native
  <1>8. CallbackCounted'
    BY <1>2, <1>3, <1>4 DEF CallbackCounted, InCallback, HandlesStay, hookVars
  <1> QED BY <1>4, <1>5, <1>6, <1>7, <1>8

\* Callbacks are turned away, waited for, and the sinks taken away.
LEMMA DrainKeeps ==
  ASSUME IInv, Disable \/ Drained \/ DisconnectSinks
  PROVE  IInv'
  <1> USE DEF IInv, TypeOK
  <1>1. /\ \/ /\ OwnerMoves("disable", "drain") /\ flag' = "removing"
              /\ UNCHANGED <<frontendActive, sinks>>
           \/ /\ OwnerMoves("drain", "sinks") /\ ~InCallback
              /\ UNCHANGED <<flag, frontendActive, sinks>>
           \/ /\ OwnerMoves("sinks", "uncapture") /\ frontendActive' = FALSE /\ sinks' = {}
              /\ UNCHANGED flag
        /\ UNCHANGED <<capture, refs>>
    <2>1. CASE Disable
      <3>1. flag = "active"
        BY <2>1 DEF Disable, Goes, ConnectedSoFar, Connected
      <3> QED BY <2>1, <3>1 DEF Disable, Goes, OwnerMoves, native, CallType
    <2>2. CASE Drained
      <3>1. ~InCallback
        BY <2>2 DEF Drained, CallbackCounted
      <3> QED BY <2>2, <3>1 DEF Drained, Goes, OwnerMoves, native, slot, CallType
    <2>3. CASE DisconnectSinks
      BY <2>3 DEF DisconnectSinks, Goes, OwnerMoves, slot, CallType
    <2> QED BY <2>1, <2>2, <2>3
  <1>2. PICK from \in {"disable", "drain", "sinks"}, to \in {"drain", "sinks", "uncapture"} :
          OwnerMoves(from, to)
    BY <1>1
  <1>3. /\ RuntimeType' /\ CallType' /\ LeasesFollowSessions' /\ HandlesIssued' /\ LeaseIsDue'
        /\ CaptureIsFresh' /\ EndedIsGone' /\ AutomationOwned'
        /\ Open' = Open /\ nextSession' = nextSession /\ InCallback' = InCallback
        /\ pc'["owner"] = to /\ pc["owner"] = from /\ pc'["game"] = pc["game"]
        /\ UNCHANGED <<automation, nextAutomation, call, arg, callback, engine>>
    <2>1. to \in OwnerPcs \cup InstallPcs
      BY DEF OwnerPcs
    <2> QED BY <1>2, <2>1, OwnerMovesTo DEF OwnerMoves, hookVars
  <1>4. NativeType' /\ CapturedIsAlive'
    BY <1>1, <1>3 DEF NativeType, CapturedIsAlive, engine
  <1>5. SlotType'
    BY <1>1, <1>2 DEF SlotType, OwnerMoves, Automations, Epochs
  <1>6. CallsInPlace'
    BY <1>3 DEF CallsInPlace, InstallPcs, OwnerPcs
  <1>7. call["owner"] # "install" /\ automation.handle # 0
    BY <1>3 DEF CallsInPlace, ConnectedSoFar, Connected
  <1>8. ConnectedSoFar'
    <2>1. CASE OwnerMoves("disable", "drain") /\ flag' = "removing" /\ UNCHANGED <<frontendActive, sinks>>
      <3>1. frontendActive /\ sinks = Hooks /\ pc'["owner"] = "drain"
        BY <1>3, <2>1 DEF OwnerMoves, ConnectedSoFar, Connected, CallType, Threads
      <3> QED BY <1>3, <1>7, <2>1, <3>1 DEF ConnectedSoFar
    <2>2. CASE /\ OwnerMoves("drain", "sinks") /\ ~InCallback
               /\ UNCHANGED <<flag, frontendActive, sinks>>
      <3>1. frontendActive /\ sinks = Hooks /\ flag = "removing" /\ pc'["owner"] = "sinks"
        BY <1>3, <2>2 DEF OwnerMoves, ConnectedSoFar, CallType, Threads
      <3> QED BY <1>3, <1>7, <2>2, <3>1 DEF ConnectedSoFar
    <2>3. CASE /\ OwnerMoves("sinks", "uncapture") /\ frontendActive' = FALSE /\ sinks' = {}
               /\ UNCHANGED flag
      <3>1. flag = "removing" /\ ~InCallback /\ pc'["owner"] = "uncapture"
        BY <1>3, <2>3 DEF OwnerMoves, ConnectedSoFar, CallType, Threads
      <3> QED BY <1>3, <1>7, <2>3, <3>1 DEF ConnectedSoFar
    <2> QED BY <1>1, <2>1, <2>2, <2>3
  <1>9. CallbackCounted'
    <2>1. flag' # "free"
      BY <1>1, <1>3 DEF OwnerMoves, ConnectedSoFar
    <2> QED BY <1>1, <1>3, <2>1 DEF CallbackCounted, InCallback
  <1> QED BY <1>3, <1>4, <1>5, <1>6, <1>8, <1>9

\* The slot is freed, with its word, when no callback is under way.
LEMMA ClearKeeps ==
  ASSUME IInv, Clear
  PROVE  IInv'
  <1> USE DEF IInv, TypeOK
  <1>1. /\ pc["owner"] = "clear" /\ pc' = [pc EXCEPT !["owner"] = "finish"]
        /\ automation' = NoAutomation /\ flag' = "free" /\ refs' = 0
        /\ UNCHANGED <<epoch, runtime, engine, native, nextAutomation, mutex, call, arg, hookVars,
                       ended>>
    BY DEF Clear, Goes
  <1>2. pc'["owner"] = "finish" /\ pc'["game"] = pc["game"]
    BY <1>1 DEF CallType, Threads
  <1>3. /\ RuntimeType' /\ LeasesFollowSessions' /\ HandlesIssued' /\ LeaseIsDue'
        /\ CaptureIsFresh' /\ Open' = Open /\ nextSession' = nextSession
    BY <1>1, <1>2, OwnerLeaves
  <1>4. sinks = {} /\ ~frontendActive /\ ~InCallback
    BY <1>1 DEF ConnectedSoFar
  <1>5. automation'.handle = 0 /\ automation'.session = 0 /\ automation' \in Automations
    BY <1>1, CampaignAssumption DEF NoAutomation, Automations, Epochs
  <1>6. NativeType' /\ CapturedIsAlive' /\ CallType'
    BY <1>1 DEF NativeType, CapturedIsAlive, CallType, native, engine, hookVars, OwnerPcs
  <1>7. SlotType'
    BY <1>1, <1>5, CampaignAssumption DEF SlotType, Automations, Epochs
  <1>8. CallsInPlace'
    BY <1>1, <1>2, <1>3 DEF CallsInPlace, OwnerPcs, InstallPcs
  <1>9. ConnectedSoFar' /\ CallbackCounted'
    BY <1>1, <1>2, <1>4, <1>5 DEF ConnectedSoFar, CallbackCounted, InCallback, Disconnected, native
  <1>10. EndedIsGone' /\ AutomationOwned'
    BY <1>1, <1>5 DEF EndedIsGone, AutomationOwned
  <1> QED BY <1>3, <1>6, <1>7, <1>8, <1>9, <1>10

LEMMA OwnerDisablesKeeps ==
  ASSUME IInv, OwnerDisables
  PROVE  IInv'
  BY DeactivateKeeps, DeactivateLocksKeeps, DrainKeeps, ClearKeeps, OwnerReturnsKeeps
     DEF OwnerDisables

-----------------------------------------------------------------------------
(* The theorems.                                                           *)

LEMMA InitIInv == Init => IInv
  <1> SUFFICES ASSUME Init PROVE IInv
    OBVIOUS
  <1> USE CampaignAssumption DEF Init
  <1>1. NoSession \in Sessions /\ NoLease \in Leases /\ NoAutomation \in Automations
        /\ NoSession.handle = 0 /\ NoLease.handle = 0
    BY DEF NoSession, NoLease, NoAutomation, Sessions, Leases, Automations, Epochs
  <1>2. RuntimeType
    BY <1>1 DEF RuntimeType
  <1>3. NativeType
    <2>1. 0 \in 0 .. MaxControllers /\ {} \subseteq 1 .. MaxControllers
      OBVIOUS
    <2>2. NoCapture \in [address : 0 .. MaxControllers, generation : Nat, thread : BOOLEAN]
      BY <2>1 DEF NoCapture
    <2> QED BY <2>1, <2>2 DEF NativeType
  <1>4. SlotType
    BY <1>1 DEF SlotType
  <1>5. CallType
    BY DEF CallType, NoCallback, Hooks
  <1>6. CapturedIsAlive /\ CaptureIsFresh /\ LeasesFollowSessions /\ HandlesIssued /\ LeaseIsDue
    BY <1>1 DEF CapturedIsAlive, CaptureIsFresh, LeasesFollowSessions, HandlesIssued, LeaseIsDue,
                NoCapture, Threads
  <1>7. CallsInPlace
    BY DEF CallsInPlace, Threads, OwnerPcs, InstallPcs, GamePcs
  <1>8. ConnectedSoFar /\ CallbackCounted
    BY DEF ConnectedSoFar, CallbackCounted, Disconnected, InCallback, Threads, NoAutomation
  <1>9. EndedIsGone /\ AutomationOwned
    BY DEF EndedIsGone, AutomationOwned, NoAutomation
  <1> QED BY <1>2, <1>3, <1>4, <1>5, <1>6, <1>7, <1>8, <1>9 DEF IInv, TypeOK

LEMMA NextIInv ==
  ASSUME OneRegistrant, IInv, [Next]_vars
  PROVE  IInv'
  <1>1. CASE Next
    <2>1. CallsInPlace
      BY DEF IInv
    <2> QED BY <1>1, <2>1, StepsOfOneRegistrant, EngineStepKeeps, CallbackStepKeeps, SessionStepKeeps,
               LesseeStepKeeps, OwnerInstallsKeeps, OwnerDisablesKeeps
  <1>2. CASE UNCHANGED vars
    <2> USE <1>2 DEF vars, runtime, engine, native, slot, callVars, hookVars, IInv, TypeOK
    <2>1. RuntimeType' /\ NativeType' /\ SlotType' /\ CallType'
      BY DEF RuntimeType, NativeType, SlotType, CallType, Sessions, Leases, Automations, Epochs
    <2>2. CapturedIsAlive' /\ CaptureIsFresh' /\ LeasesFollowSessions' /\ HandlesIssued' /\ LeaseIsDue'
      BY DEF CapturedIsAlive, CaptureIsFresh, LeasesFollowSessions, HandlesIssued, LeaseIsDue
    <2>3. CallsInPlace' /\ EndedIsGone' /\ AutomationOwned'
      BY DEF CallsInPlace, EndedIsGone, AutomationOwned, Open
    <2>4. ConnectedSoFar' /\ CallbackCounted'
      BY DEF ConnectedSoFar, CallbackCounted, Connected, Disconnected, InCallback
    <2> QED BY <2>1, <2>2, <2>3, <2>4
  <1> QED BY <1>1, <1>2

\* The inductive invariant, whatever the bounds, for one registrant.
THEOREM SpecIInv ==
  ASSUME OneRegistrant
  PROVE  Spec => []IInv
  <1>1. Init => IInv
    BY InitIInv
  <1>2. IInv /\ [Next]_vars => IInv'
    BY NextIInv
  <1> QED BY <1>1, <1>2, PTL DEF Spec

\* DeactivateCampaignAutomation and CloseCampaignSession return only when no
\* callback of that registration runs, and none of it is called any more
\* (campaign_automation.cpp, DisableCampaignAutomation).
THEOREM SpecNoCallAfterEnd ==
  ASSUME OneRegistrant
  PROVE  Spec => []NoCallAfterEnd
  <1>1. IInv => NoCallAfterEnd
    <2> SUFFICES ASSUME IInv, pc["game"] = "running"
                 PROVE  callback.automation \notin ended /\ callback.session \in Open
      BY DEF NoCallAfterEnd
    <2>1. /\ flag # "free"
          /\ callback.automation = automation.handle /\ callback.session = automation.session
          /\ InCallback
      BY DEF IInv, CallbackCounted, InCallback
    <2>2. automation.handle # 0
      <3>1. CASE pc["owner"] \in {"uncapture", "unthread"}
        BY <2>1, <3>1 DEF IInv, ConnectedSoFar, Disconnected
      <3>2. CASE pc["owner"] \notin {"uncapture", "unthread"}
        BY <2>1, <3>2 DEF IInv, ConnectedSoFar, Connected, Disconnected, CallsInPlace, OwnerPcs,
                          InstallPcs
      <3> QED BY <3>1, <3>2
    <2> QED BY <2>1, <2>2 DEF IInv, EndedIsGone, AutomationOwned
  <1> QED BY <1>1, SpecIInv, PTL

\* The connection is that of the automation, the automation that of an open
\* session, and the leases are those of the session's game.
THEOREM SpecOwnersAgree ==
  ASSUME OneRegistrant
  PROVE  Spec => []OwnersAgree
  <1>1. IInv => OwnersAgree
    <2> SUFFICES ASSUME IInv PROVE ConnectedIffInstalled
      BY DEF OwnersAgree, IInv
    <2> QED BY DEF IInv, ConnectedSoFar, Connected, Disconnected, ConnectedIffInstalled
  <1> QED BY <1>1, SpecIInv, PTL

-----------------------------------------------------------------------------
(* The captured controller, whoever installs.                              *)

\* What is captured is alive, and so is what is about to be.
CaptureInv ==
  /\ pc \in [Threads -> {"idle"} \cup OwnerPcs \cup InstallPcs \cup GamePcs]
  /\ capture \in [address : Nat, generation : Nat, thread : BOOLEAN]
  /\ constructed \in Nat
  /\ CapturedIsAlive /\ CaptureIsFresh

LEMMA CaptureStep ==
  ASSUME CaptureInv, [Next]_vars
  PROVE  CaptureInv'
  <1> DEFINE Pcs == {"idle"} \cup OwnerPcs \cup InstallPcs \cup GamePcs
             Quiet == /\ UNCHANGED <<controllers, constructed, capture>>
                      /\ pc' \in [Threads -> Pcs]
                      /\ pc'["game"] = "capture" => pc["game"] = "capture"
  <1> USE DEF CaptureInv
  <1>1. ASSUME Quiet PROVE CaptureInv'
    BY <1>1 DEF CapturedIsAlive, CaptureIsFresh
  <1>2. "owner" \in Threads /\ "game" \in Threads
    BY DEF Threads
  <1>3. ASSUME Construct PROVE CaptureInv'
    BY <1>2, <1>3 DEF Construct, Goes, native, CapturedIsAlive, CaptureIsFresh, GamePcs
  <1>4. ASSUME Capture PROVE CaptureInv'
    BY <1>2, <1>4 DEF Capture, Goes, engine, CapturedIsAlive, CaptureIsFresh, GamePcs
  <1>5. ASSUME NEW c \in controllers, Destroy(c) PROVE CaptureInv'
    BY <1>5 DEF Destroy, Uncaptured, callVars, CapturedIsAlive, CaptureIsFresh
  <1>6. ASSUME NEW t \in Threads, Uncapture(t) \/ Unthread(t) PROVE CaptureInv'
    <2>1. capture' \in [address : Nat, generation : Nat, thread : BOOLEAN]
          /\ capture'.address \in {0, capture.address}
      <3>1. capture.generation + 1 \in Nat /\ 0 \in Nat
            /\ capture \in [address : Nat, generation : Nat, thread : BOOLEAN]
        OBVIOUS
      <3> HIDE DEF CaptureInv
      <3> QED BY <1>6, <3>1 DEF Uncapture, Unthread
    <2>2. /\ UNCHANGED <<controllers, constructed>> /\ pc' \in [Threads -> Pcs]
          /\ pc'["game"] = "capture" => pc["game"] = "capture"
      BY <1>2, <1>6 DEF Uncapture, Unthread, Released, Goes, engine, OwnerPcs, InstallPcs
    <2> QED BY <2>1, <2>2 DEF CapturedIsAlive, CaptureIsFresh
  <1>7. ASSUME NEW i, ReleaseFrontend(i) PROVE CaptureInv'
    <2>1. /\ capture' = Uncaptured \/ capture' = capture
          /\ UNCHANGED <<controllers, constructed, pc>>
      BY <1>7 DEF ReleaseFrontend, engine, callVars
    <2>2. capture' \in [address : Nat, generation : Nat, thread : BOOLEAN]
          /\ capture'.address \in {0, capture.address}
      <3>1. capture.generation + 1 \in Nat /\ 0 \in Nat
            /\ capture \in [address : Nat, generation : Nat, thread : BOOLEAN]
        OBVIOUS
      <3> HIDE DEF CaptureInv
      <3>2. CASE capture' = capture
        BY <3>1, <3>2
      <3>3. CASE capture' = Uncaptured
        BY <3>1, <3>3 DEF Uncaptured
      <3> QED BY <2>1, <3>2, <3>3
    <2> QED BY <2>1, <2>2 DEF CapturedIsAlive, CaptureIsFresh
  <1>8. ASSUME NewGame \/ Annex \/ (\E t \in Threads, h \in 1 .. nextSession - 1 : UseSession(t, h))
               \/ (\E i \in 1 .. LeaseSlots : UseFrontend(i))
        PROVE  Quiet
    BY <1>2, <1>8 DEF NewGame, Annex, UseSession, UseFrontend, Goes, engine, native, callVars, GamePcs
  <1>9. ASSUME AcquireCallback \/ LoadCallback \/ InvokeCallback \/ CallbackReturns \/ ReleaseCallback
        PROVE  Quiet
    BY <1>2, <1>9 DEF AcquireCallback, LoadCallback, InvokeCallback, CallbackReturns, ReleaseCallback,
                      Goes, engine, native, GamePcs
  <1>10. ASSUME CheckLessee \/ TakeLease \/ \E h \in 1 .. nextSession - 1 : AcquireFrontend(h)
         PROVE  Quiet
    BY <1>2, <1>10 DEF CheckLessee, TakeLease, AcquireFrontend, Returns, Calls, engine, native, GamePcs
  <1>11. ASSUME DeactivateLocks \/ Disable \/ Drained \/ DisconnectSinks \/ Clear
         PROVE  Quiet
    BY <1>2, <1>11 DEF DeactivateLocks, Disable, Drained, DisconnectSinks, Clear, Goes, engine, native,
                       OwnerPcs
  <1>12. ASSUME FinishOpen \/ FinishClose \/ FinishDeactivate \/ OpenSession
                \/ (\E i \in 1 .. SessionSlots : CloseSession(i))
                \/ (\E h \in 1 .. nextAutomation - 1 : Deactivate(h))
         PROVE  Quiet
    BY <1>2, <1>12 DEF FinishOpen, FinishClose, FinishDeactivate, OpenSession, CloseSession, Deactivate,
                       Returns, Calls, callVars, engine, native, OwnerPcs
  <1>13. ASSUME NEW t \in Threads,
                \/ InstallChecks(t) \/ InstallHooks(t) \/ HooksFail(t) \/ InstallFailed(t)
                \/ InstallFields(t) \/ InstallPublish(t) \/ InstallConnect(t)
                \/ \E h \in 1 .. nextSession - 1 : BeginInstall(t, h)
         PROVE  Quiet
    BY <1>2, <1>13 DEF InstallChecks, InstallHooks, HooksFail, InstallFailed, InstallFields,
                       InstallPublish, InstallConnect, BeginInstall, Goes, Returns, Calls, engine,
                       native, OwnerPcs, InstallPcs
  <1>14. CASE UNCHANGED vars
    BY <1>1, <1>14 DEF vars, engine, native, callVars
  <1> HIDE DEF Quiet, CaptureInv
  <1> QED BY <1>1, <1>3, <1>4, <1>5, <1>6, <1>7, <1>8, <1>9, <1>10, <1>11, <1>12, <1>13, <1>14
          DEF Next, HookStep, LeaseStep, DisableStep, InstallStep

\* The controller that is captured has not been destroyed, whoever installs and
\* deactivates (runtime.cpp, OnFrontendControllerDestruction).
THEOREM SpecCapturedIsAlive == Spec => []CapturedIsAlive
  <1>1. Init => CaptureInv
    BY DEF Init, CaptureInv, CapturedIsAlive, CaptureIsFresh, NoCapture, Threads
  <1>2. CaptureInv /\ [Next]_vars => CaptureInv'
    BY CaptureStep
  <1>3. CaptureInv => CapturedIsAlive
    BY DEF CaptureInv
  <1> QED BY <1>1, <1>2, <1>3, PTL DEF Spec

=============================================================================
