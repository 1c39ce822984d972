-------------------------- MODULE HookServiceProofs --------------------------
(***************************************************************************)
(* Theorems about HookService: for any number of slots, sessions, games    *)
(* and faults and any hooks wanted, nothing is left over, a drain is       *)
(* honest, and reads are of the game being played.                         *)
(***************************************************************************)
EXTENDS HookService, FiniteSetTheorems, WellFoundedInduction, TLAPS

-----------------------------------------------------------------------------
(* Least elements, and the order of the hooks.                             *)

LEMMA LeastExists ==
  ASSUME NEW S, S \subseteq Nat, S # {}
  PROVE  \E k \in S : \A j \in S : k <= j
  <1> DEFINE Upto == {1 .. n : n \in S}
  <1>1. Upto \subseteq FiniteSubsetsOf(Nat) /\ Upto # {}
    <2>1. ASSUME NEW n \in S PROVE (1 .. n) \subseteq Nat /\ IsFiniteSet(1 .. n)
      BY FS_Interval
    <2> QED BY <2>1 DEF FiniteSubsetsOf
  <1>2. PICK I \in Upto : \A J \in Upto : ~ (<<J, I>> \in StrictSubsetOrdering(Nat))
    <2>1. IsWellFoundedOn(StrictSubsetOrdering(Nat), FiniteSubsetsOf(Nat))
      BY FS_StrictSubsetOrderingWellFounded
    <2> HIDE DEF Upto
    <2> QED BY <1>1, <2>1, WFMin
  <1>3. PICK m \in S : I = 1 .. m
    OBVIOUS
  <1>4. ASSUME NEW n \in S PROVE m <= n
    <2> SUFFICES ASSUME n < m PROVE FALSE
      OBVIOUS
    <2>1. m \in 1 .. m /\ m \notin 1 .. n
      OBVIOUS
    <2>2. <<1 .. n, 1 .. m>> \in StrictSubsetOrdering(Nat)
      BY <2>1 DEF StrictSubsetOrdering
    <2> QED BY <1>2, <1>3, <2>2
  <1> QED BY <1>4

LEMMA LeastIs ==
  ASSUME NEW S, S \subseteq Nat, S # {}
  PROVE  (CHOOSE k \in S : \A j \in S : k <= j) \in S
  BY LeastExists

HookNames == {"pop", "consumption", "sales", "artisan"}

LEMMA WantedIs == Wanted \subseteq HookNames
  <1>1. DOMAIN HookOrder = 1 .. 4
    BY DEF HookOrder
  <1>2. \A i \in 1 .. 4 : HookOrder[i] \in HookNames
    BY DEF HookOrder, HookNames
  <1> QED BY <1>1, <1>2, ServiceAssumption

LEMMA OrderIs == \A h \in HookNames : Order(h) \in Nat
  <1>1. DOMAIN HookOrder = 1 .. 4
    BY DEF HookOrder
  <1> SUFFICES ASSUME NEW h \in HookNames PROVE Order(h) \in Nat
    OBVIOUS
  <1>2. \E i \in 1 .. 4 : HookOrder[i] = h
    <2>1. HookOrder[1] = "pop" /\ HookOrder[2] = "consumption" /\ HookOrder[3] = "sales" /\ HookOrder[4] = "artisan"
      BY DEF HookOrder
    <2> QED BY <2>1 DEF HookNames
  <1>3. Order(h) \in 1 .. 4
    BY <1>1, <1>2 DEF Order
  <1> QED BY <1>3

\* The first of some hooks in the order of SubscribeHooks.
LEMMA FirstExists ==
  ASSUME NEW S, S \subseteq Wanted, S # {}
  PROVE  \E h \in S : \A g \in S : Order(h) <= Order(g)
  <1> DEFINE N == {Order(h) : h \in S}
  <1>1. N \subseteq Nat /\ N # {}
    BY WantedIs, OrderIs
  <1>2. \E k \in N : \A j \in N : k <= j
    <2> HIDE DEF N
    <2> QED BY <1>1, LeastExists
  <1> QED BY <1>2

-----------------------------------------------------------------------------
(* One hook.                                                               *)

PatchIsRight(h, k) ==
  /\ k \in HookStates
  /\ k.sites # {} => k.installed
  /\ k.active => k.sites = Sites(h)
  /\ k.installed => k.sites # {}

LEMMA PatchesAreRight ==
  ASSUME TypeOK
  PROVE  PatchesAreKnown <=> \A h \in Wanted : PatchIsRight(h, hook[h])
  BY DEF TypeOK, PatchesAreKnown, PatchIsRight

LEMMA SitesAre == \A h : Sites(h) \in SUBSET {"settlement", "first", "second", "call"} /\ Sites(h) # {}
  BY DEF Sites

LEMMA InstallIsRight ==
  ASSUME NEW h, NEW k, PatchIsRight(h, k), NEW f \in InstallFaults(h)
  PROVE  PatchIsRight(h, Install(h, k, f))
  <1>1. f.kind = "undo" => f.left # {} /\ f.left \subseteq Sites(h)
    BY DEF InstallFaults, NoFault
  <1> QED BY <1>1, SitesAre DEF PatchIsRight, Install, Installs, HookStates

LEMMA UninstallIsRight ==
  ASSUME NEW h, NEW k, PatchIsRight(h, k), NEW f \in UninstallFaults(h)
  PROVE  PatchIsRight(h, Uninstall(h, k, f))
  <1>1. f.kind = "undo" => f.left # {} /\ f.left \subseteq {"settlement", "first", "second", "call"}
    BY DEF UninstallFaults, NoFault
  <1> QED BY <1>1, SitesAre DEF PatchIsRight, Uninstall, Uninstalls, HookStates

LEMMA CaptureIsRight ==
  ASSUME NEW h, NEW k, PatchIsRight(h, k), NEW selected \in BOOLEAN, NEW decodes \in BOOLEAN
  PROVE  LET new == CapturePool(h, k, selected, decodes)
         IN  /\ PatchIsRight(h, new) /\ new.active = k.active
             /\ k.active => new.queued + new.lost
                              = k.queued + k.lost + IF MatchesSelectedCountry(h, selected) THEN 1 ELSE 0
  BY DEF PatchIsRight, CapturePool, HookStates

LEMMA DrainedIsRight ==
  ASSUME NEW h, NEW k, PatchIsRight(h, k)
  PROVE  /\ PatchIsRight(h, Drained(k)) /\ Drained(k).active = k.active
         /\ Drained(k).queued = 0 /\ Drained(k).lost = 0
  BY DEF PatchIsRight, Drained, HookStates

\* An operation that fails in one hook at most.
LEMMA InstallFaulty ==
  ASSUME NEW f \in Faulty(InstallFaults), NEW h \in Wanted
  PROVE  f[h] \in InstallFaults(h)
  BY DEF Faulty, NoFaults, InstallFaults

LEMMA UninstallFaulty ==
  ASSUME NEW f \in Faulty(UninstallFaults), NEW h \in Wanted
  PROVE  f[h] \in UninstallFaults(h)
  BY DEF Faulty, NoFaults, UninstallFaults

LEMMA NoFaultsAre ==
  ASSUME NEW h \in Wanted
  PROVE  NoFaults[h] \in InstallFaults(h) /\ NoFaults[h] \in UninstallFaults(h)
  BY DEF NoFaults, InstallFaults, UninstallFaults

-----------------------------------------------------------------------------
(* The epoch of a game.                                                    *)

LEMMA EpochIs ==
  ASSUME TypeOK
  PROVE  /\ Epoch \in Nat /\ Epoch >= seen.epoch
         /\ CurrentGameSession \in [address : Nat, epoch : Nat] /\ CurrentGameSession.epoch = Epoch
         /\ CurrentGameSession.address = game
  BY DEF TypeOK, Epoch, CurrentGameSession

LEMMA EpochStays ==
  ASSUME TypeOK, game' = game, seen' \in {seen, CurrentGameSession}
  PROVE  /\ Epoch' = Epoch /\ seen' \in [address : Nat, epoch : Nat]
         /\ seen'.epoch >= seen.epoch
         /\ seen' = CurrentGameSession => seen'.epoch = Epoch
  <1>1. /\ CurrentGameSession \in [address : Nat, epoch : Nat]
        /\ CurrentGameSession.epoch = Epoch /\ CurrentGameSession.address = game
        /\ Epoch \in Nat /\ Epoch >= seen.epoch /\ seen \in [address : Nat, epoch : Nat]
    BY EpochIs DEF TypeOK
  <1>2. Epoch' = IF seen'.address = game THEN seen'.epoch ELSE seen'.epoch + 1
    BY DEF Epoch, CurrentGameSession
  <1>3. CASE seen' = CurrentGameSession
    BY <1>1, <1>2, <1>3
  <1>4. CASE seen' = seen
    BY <1>1, <1>2, <1>4 DEF Epoch, CurrentGameSession
  <1> QED BY <1>3, <1>4

\* Who the property of leaks is about.
Alone == owner = "daily" /\ (goal = "unload" => unloader = "daily")

-----------------------------------------------------------------------------
(* Steps.                                                                  *)

\* A step that moves a call along and changes neither handle nor hook.
LEMMA CallMoves ==
  ASSUME IInv, UNCHANGED <<game, owner, sessions, observations, subscriptions, handles, hook, api, unloader, since>>,
         seen' \in {seen, CurrentGameSession}, pc' \in Pcs, goal' \in {"reopen", "abort", "unload"},
         CallInOrder', goal = "unload" => goal' = "unload", DrainIsHonest'
  PROVE  IInv'
  <1> USE DEF IInv
  <1>1. TypeOK'
    BY EpochStays DEF TypeOK
  <1>2. HandlesIssued'
    <2>1. seen'.epoch >= seen.epoch /\ seen'.epoch \in Nat /\ seen.epoch \in Nat
      BY EpochStays DEF TypeOK
    <2>2. \A i \in DOMAIN sessions : sessions[i].epoch \in Nat
      BY DEF TypeOK
    <2> QED BY <2>1, <2>2 DEF HandlesIssued
  <1>3. ParentsLive' /\ FlowsAreKept' /\ PatchesAreKnown'
    BY DEF ParentsLive, Slot, FlowsAreKept, NothingIsLeftOver, PatchesAreKnown
  <1>4. NoLeakedSlot'
    BY EpochStays DEF NoLeakedSlot, NothingIsLeftOver, Slot
  <1> QED BY <1>1, <1>2, <1>3, <1>4 DEF NothingIsLeftOver

LEMMA DayKeeps ==
  ASSUME IInv, NEW readable \in BOOLEAN, Day(readable)
  PROVE  IInv'
  <1>1. CallInOrder' /\ goal # "unload"
    BY DEF Day, IInv, CallInOrder
  <1>2. DrainIsHonest'
    BY DEF Day, IInv, DrainIsHonest
  <1> QED BY <1>1, <1>2, CallMoves DEF Day, Pcs

LEMMA SameDateKeeps ==
  ASSUME IInv, SameDate
  PROVE  IInv'
  <1>1. CallInOrder' /\ DrainIsHonest'
    BY DEF SameDate, IInv, CallInOrder, DrainIsHonest, service
  <1> QED BY <1>1, CallMoves DEF SameDate, Pcs, service, IInv, TypeOK

LEMMA ReadKeeps ==
  ASSUME IInv, Read
  PROVE  IInv'
  <1>1. CallInOrder' /\ DrainIsHonest'
    BY DEF Read, IInv, CallInOrder, DrainIsHonest, NoReport
  <1> QED BY <1>1, CallMoves DEF Read, Pcs, IInv, TypeOK

LEMMA UnloadKeeps ==
  ASSUME IInv, Unload
  PROVE  IInv'
  <1>1. CallInOrder' /\ DrainIsHonest'
    BY DEF Unload, IInv, CallInOrder, DrainIsHonest, service
  <1> QED BY <1>1, CallMoves DEF Unload, Pcs, service, IInv, TypeOK

\* The leaks to be excluded are those of sessions: what is under one ends with it.
LEMMA LeaksAre ==
  ASSUME ParentsLive
  PROVE  NoLeakedSlot <=>
            (Alone => \A i \in DOMAIN sessions :
                        sessions[i].handle \notin {0, api.session} => sessions[i].epoch # Epoch)
  BY DEF ParentsLive, NoLeakedSlot, Alone

\* A call that opens no session and closes none keeps what is said of them.
LEMMA SessionsKept ==
  ASSUME TypeOK, HandlesIssued, NoLeakedSlot, ParentsLive, ParentsLive',
         game' = game, seen' \in {seen, CurrentGameSession}, UNCHANGED <<sessions, handles, owner, unloader, goal>>,
         api'.session = api.session,
         \/ observations' = observations
         \/ \E i \in DOMAIN observations : observations' = [observations EXCEPT ![i] = NoObservation]
  PROVE  HandlesIssued' /\ NoLeakedSlot'
  <1>1. seen'.epoch >= seen.epoch /\ seen'.epoch \in Nat /\ seen.epoch \in Nat /\ Epoch' = Epoch
    BY EpochStays DEF TypeOK
  <1>2. \A i \in DOMAIN sessions : sessions[i].epoch \in Nat
    BY DEF TypeOK
  <1>3. DOMAIN observations' = DOMAIN observations
    OBVIOUS
  <1>4. ASSUME NEW i \in DOMAIN observations PROVE observations'[i].handle < handles.observation
    <2>1. observations[i].handle < handles.observation /\ 0 < handles.observation
      BY DEF HandlesIssued, TypeOK
    <2>2. observations'[i] = observations[i] \/ observations'[i] = NoObservation
      OBVIOUS
    <2> QED BY <2>1, <2>2 DEF NoObservation
  <1>5. HandlesIssued'
    BY <1>1, <1>2, <1>3, <1>4 DEF HandlesIssued
  <1>6. NoLeakedSlot'
    BY <1>1 DEF NoLeakedSlot, ParentsLive
  <1> QED BY <1>5, <1>6

LEMMA ParentsKept ==
  ASSUME ParentsLive, sessions' = sessions,
         DOMAIN observations' = DOMAIN observations, DOMAIN subscriptions' = DOMAIN subscriptions,
         \A i \in DOMAIN observations : observations'[i].handle # 0 => observations'[i] = observations[i],
         \A i \in DOMAIN subscriptions : subscriptions'[i].handle # 0 => subscriptions'[i] = subscriptions[i]
  PROVE  ParentsLive'
  <1>1. ASSUME NEW i \in DOMAIN observations, observations'[i].handle # 0
        PROVE  Slot(sessions', observations'[i].parent) # {}
    <2>1. observations'[i] = observations[i]
      BY <1>1
    <2> QED BY <1>1, <2>1 DEF ParentsLive
  <1>2. ASSUME NEW i \in DOMAIN subscriptions, subscriptions'[i].handle # 0
        PROVE  Slot(sessions', subscriptions'[i].session) # {}
    <2>1. subscriptions'[i] = subscriptions[i]
      BY <1>2
    <2> QED BY <1>2, <2>1 DEF ParentsLive
  <1> QED BY <1>1, <1>2 DEF ParentsLive

LEMMA UnsubscribeKeeps ==
  ASSUME IInv, Unsubscribe
  PROVE  IInv'
  <1> USE DEF IInv
  <1>1. /\ seen' \in {seen, CurrentGameSession}
        /\ UNCHANGED <<game, owner, sessions, observations, handles, goal, unloader, since, report, reported>>
        /\ api' = [api EXCEPT !.hooks = 0] /\ pc' = "close observation"
    BY DEF Unsubscribe, UnsubscribeHooks, service
  <1>2. \/ subscriptions' = subscriptions
        \/ \E i \in DOMAIN subscriptions : subscriptions' = [subscriptions EXCEPT ![i] = NoSubscription]
    <2>1. ASSUME SubscriptionStatus(api.hooks, T, Dispatching) = "success"
          PROVE  (CHOOSE i \in Slot(subscriptions, api.hooks) : TRUE) \in DOMAIN subscriptions
      BY <2>1 DEF SubscriptionStatus, Slot
    <2> QED BY <2>1 DEF Unsubscribe, UnsubscribeHooks, service
  <1>3. hook' \in [Wanted -> HookStates] /\ PatchesAreKnown'
    <2>1. CASE hook' = hook
      BY <2>1 DEF TypeOK, NothingIsLeftOver, PatchesAreKnown
    <2>2. CASE \E f \in Faulty(UninstallFaults) : UnsubscribeHooks(api.hooks, T, Dispatching, f)
      <3>1. PICK f \in Faulty(UninstallFaults) : UnsubscribeHooks(api.hooks, T, Dispatching, f)
        BY <2>2
      <3>2. DOMAIN hook = Wanted
        BY DEF TypeOK
      <3>3. hook' = [h \in Wanted |-> hook'[h]]
        BY <3>1, <3>2 DEF UnsubscribeHooks
      <3>4. ASSUME NEW h \in Wanted PROVE PatchIsRight(h, hook'[h])
        <4>1. PatchIsRight(h, hook[h])
          BY PatchesAreRight DEF NothingIsLeftOver
        <4>2. PatchIsRight(h, Uninstall(h, hook[h], f[h]))
          BY <4>1, UninstallFaulty, UninstallIsRight
        <4>3. hook'[h] = hook[h] \/ hook'[h] = Uninstall(h, hook[h], f[h])
          BY <3>1, <3>2 DEF UnsubscribeHooks
        <4> QED BY <4>1, <4>2, <4>3
      <3> QED BY <3>3, <3>4 DEF PatchIsRight, PatchesAreKnown
    <2> QED BY <2>1, <2>2 DEF Unsubscribe, service
  <1>4. TypeOK'
    <2>1. subscriptions' \in [1 .. SubscriptionSlots ->
            [handle : Nat, session : Nat, epoch : Nat, thread : Threads \cup {"none"}]]
      BY <1>2 DEF TypeOK, NoSubscription
    <2> QED BY <1>1, <1>3, <2>1, EpochStays DEF TypeOK, Pcs
  <1>5. ParentsLive'
    <2>1. ASSUME NEW i \in DOMAIN subscriptions
          PROVE  subscriptions'[i].handle # 0 => subscriptions'[i] = subscriptions[i]
      BY <1>2 DEF NoSubscription
    <2>2. DOMAIN subscriptions' = DOMAIN subscriptions
      BY <1>2
    <2> QED BY <1>1, <2>1, <2>2, ParentsKept
  <1>6. HandlesIssued' /\ NoLeakedSlot'
    BY <1>1, <1>5, SessionsKept DEF NothingIsLeftOver, TypeOK, Unsubscribe
  <1>7. CallInOrder' /\ FlowsAreKept' /\ DrainIsHonest'
    BY <1>1 DEF CallInOrder, FlowsAreKept, DrainIsHonest, TypeOK, Unsubscribe
  <1> QED BY <1>3, <1>4, <1>5, <1>6, <1>7 DEF NothingIsLeftOver

LEMMA CloseObservationKeeps ==
  ASSUME IInv, CloseObservation
  PROVE  IInv'
  <1> USE DEF IInv
  <1>1. /\ UNCHANGED <<game, seen, owner, sessions, subscriptions, handles, hook, goal, unloader, since, report, reported>>
        /\ api' = [api EXCEPT !.observation = 0] /\ pc' = "close session" /\ pc = "close observation"
    BY DEF CloseObservation, CloseObservationSession, service
  <1>2. \/ observations' = observations
        \/ \E i \in DOMAIN observations : observations' = [observations EXCEPT ![i] = NoObservation]
    <2>1. CASE CloseObservationSession(api.observation, T)
      <3>1. (CHOOSE i \in Slot(observations, api.observation) : TRUE) \in DOMAIN observations
        BY <2>1 DEF CloseObservationSession, Slot
      <3> QED BY <2>1, <3>1 DEF CloseObservationSession
    <2> QED BY <2>1 DEF CloseObservation, service
  <1>3. ASSUME NEW i \in DOMAIN observations
        PROVE  observations'[i].handle # 0 => observations'[i] = observations[i]
    BY <1>2 DEF NoObservation
  <1>4. DOMAIN observations' = DOMAIN observations
    BY <1>2
  <1>5. TypeOK'
    <2>1. observations' \in [1 .. ObservationSlots ->
            [handle : Nat, parent : Nat, epoch : Nat, thread : Threads \cup {"none"}]]
      BY <1>2 DEF TypeOK, NoObservation
    <2> QED BY <1>1, <2>1 DEF TypeOK, Pcs
  <1>6. ParentsLive'
    BY <1>1, <1>3, <1>4, ParentsKept
  <1>7. HandlesIssued' /\ NoLeakedSlot'
    BY <1>1, <1>2, <1>6, SessionsKept DEF NothingIsLeftOver, TypeOK
  <1>8. CallInOrder' /\ FlowsAreKept' /\ DrainIsHonest' /\ PatchesAreKnown'
    BY <1>1 DEF CallInOrder, FlowsAreKept, DrainIsHonest, TypeOK, NothingIsLeftOver, PatchesAreKnown
  <1> QED BY <1>5, <1>6, <1>7, <1>8 DEF NothingIsLeftOver

LEMMA CloseSessionKeeps ==
  ASSUME IInv, CloseSession
  PROVE  IInv'
  <1> USE DEF IInv
  <1>1. /\ seen' \in {seen, CurrentGameSession}
        /\ UNCHANGED <<game, owner, handles, goal, unloader, since, report, reported>>
        /\ api' = [api EXCEPT !.session = 0] /\ pc = "close session"
        /\ pc' = CASE goal = "reopen" -> "open session" [] goal = "abort" -> "idle" [] goal = "unload" -> "gone"
    BY DEF CloseSession, CloseTelemetrySession, service
  <1>2. CASE T = owner => Slot(sessions, api.session) = {}
    <2>1. UNCHANGED service
      BY <1>2 DEF CloseSession, CloseTelemetrySession
    <2>2. TypeOK' /\ CallInOrder' /\ FlowsAreKept' /\ DrainIsHonest' /\ PatchesAreKnown' /\ HandlesIssued'
      BY <1>1, <2>1 DEF TypeOK, Pcs, CallInOrder, FlowsAreKept, DrainIsHonest, PatchesAreKnown, NothingIsLeftOver,
           service, HandlesIssued
    <2>3. ParentsLive'
      BY <2>1, ParentsKept DEF service
    <2>4. NoLeakedSlot'
      <3>1. Epoch' = Epoch
        BY <1>1, <2>1, EpochStays DEF TypeOK, service
      <3>2. SUFFICES ASSUME Alone', NEW i \in DOMAIN sessions, sessions[i].handle # 0, sessions[i].epoch = Epoch
                     PROVE  FALSE
        BY <2>1, <2>3, <3>1, LeaksAre DEF Alone, service, NoLeakedSlot, ParentsLive
      <3>3. Alone /\ T = owner
        BY <1>1, <3>2 DEF Alone, T
      <3>4. sessions[i].handle = api.session
        BY <3>2, <3>3, LeaksAre DEF NothingIsLeftOver
      <3> QED BY <1>2, <3>2, <3>3, <3>4 DEF Slot
    <2> QED BY <2>2, <2>3, <2>4 DEF NothingIsLeftOver
  <1>3. CASE \E f \in Faulty(UninstallFaults) : CloseTelemetrySession(api.session, T, f)
    <2>1. PICK f \in Faulty(UninstallFaults) : CloseTelemetrySession(api.session, T, f)
      BY <1>3
    <2> DEFINE i == CHOOSE k \in Slot(sessions, api.session) : TRUE
    <2>2. i \in DOMAIN sessions /\ sessions[i].handle = api.session /\ api.session # 0
      BY <2>1 DEF CloseTelemetrySession, Slot
    <2>3. /\ sessions' = [sessions EXCEPT ![i] = NoSession]
          /\ observations' = RetireTelemetryObservations(api.session)
          /\ RetireTelemetrySubscriptions(api.session, sessions[i].epoch, sessions[i].epoch = Epoch, T, f)
      BY <2>1 DEF CloseTelemetrySession
    <2> HIDE DEF i
    <2>4. hook' \in [Wanted -> HookStates] /\ PatchesAreKnown'
      <3>1. CASE hook' = hook
        BY <3>1 DEF TypeOK, NothingIsLeftOver, PatchesAreKnown
      <3>2. CASE hook' = [h \in DOMAIN hook |-> Uninstall(h, hook[h], f[h])]
        <4>1. DOMAIN hook = Wanted
          BY DEF TypeOK
        <4>2. hook' = [h \in Wanted |-> hook'[h]]
          BY <3>2, <4>1
        <4>3. ASSUME NEW h \in Wanted PROVE PatchIsRight(h, hook'[h])
          <5>1. PatchIsRight(h, hook[h])
            BY PatchesAreRight DEF NothingIsLeftOver
          <5>2. PatchIsRight(h, Uninstall(h, hook[h], f[h]))
            BY <5>1, UninstallFaulty, UninstallIsRight
          <5> QED BY <3>2, <4>1, <5>2
        <4> QED BY <4>2, <4>3 DEF PatchIsRight, PatchesAreKnown
      <3> QED BY <2>3, <3>1, <3>2 DEF RetireTelemetrySubscriptions
    <2>5. /\ DOMAIN sessions' = DOMAIN sessions /\ DOMAIN observations' = DOMAIN observations
          /\ DOMAIN subscriptions' = DOMAIN subscriptions
          /\ \A j \in DOMAIN sessions : sessions'[j] = IF j = i THEN NoSession ELSE sessions[j]
          /\ \A j \in DOMAIN observations : observations'[j] =
                IF observations[j].parent = api.session THEN NoObservation ELSE observations[j]
          /\ \A j \in DOMAIN subscriptions : subscriptions'[j] =
                IF subscriptions[j].session = api.session THEN NoSubscription ELSE subscriptions[j]
      BY <2>2, <2>3 DEF RetireTelemetryObservations, RetireTelemetrySubscriptions
    <2>6. TypeOK'
      <3>1. sessions' \in [1 .. SessionSlots -> [handle : Nat, epoch : Nat, thread : Threads \cup {"none"}]]
        BY <2>2, <2>3 DEF TypeOK, NoSession
      <3>2. observations' \in [1 .. ObservationSlots ->
              [handle : Nat, parent : Nat, epoch : Nat, thread : Threads \cup {"none"}]]
        BY <2>3 DEF TypeOK, NoObservation, RetireTelemetryObservations
      <3>3. subscriptions' \in [1 .. SubscriptionSlots ->
              [handle : Nat, session : Nat, epoch : Nat, thread : Threads \cup {"none"}]]
        BY <2>3 DEF TypeOK, NoSubscription, RetireTelemetrySubscriptions
      <3>4. seen' \in [address : Nat, epoch : Nat]
        BY <1>1, EpochStays DEF TypeOK
      <3> QED BY <1>1, <2>4, <3>1, <3>2, <3>3, <3>4 DEF TypeOK, Pcs
    <2>7. HandlesIssued'
      <3>1. seen'.epoch >= seen.epoch /\ seen'.epoch \in Nat /\ seen.epoch \in Nat
        BY <1>1, EpochStays DEF TypeOK
      <3>2. ASSUME NEW j \in DOMAIN sessions
            PROVE  /\ sessions'[j].handle < handles.session
                   /\ sessions'[j].handle # 0 => sessions'[j] = sessions[j] /\ sessions'[j].epoch <= seen'.epoch
        <4>1. 0 < handles.session /\ sessions[j].epoch \in Nat
          BY DEF TypeOK
        <4> QED BY <2>5, <3>1, <4>1 DEF HandlesIssued, NoSession
      <3>3. ASSUME NEW j \in DOMAIN sessions, sessions'[j].handle # 0, NEW k \in DOMAIN sessions,
                   sessions'[k].handle = sessions'[j].handle
            PROVE  k = j
        BY <3>2, <3>3 DEF HandlesIssued
      <3>4. ASSUME NEW j \in DOMAIN observations PROVE observations'[j].handle < handles.observation
        <4>1. 0 < handles.observation
          BY DEF TypeOK
        <4> QED BY <2>5, <4>1 DEF HandlesIssued, NoObservation
      <3> QED BY <1>1, <2>5, <3>2, <3>3, <3>4 DEF HandlesIssued
    <2>8. ParentsLive'
      <3>1. ASSUME NEW s, s # api.session, Slot(sessions, s) # {}
            PROVE  Slot(sessions', s) # {}
        BY <2>2, <2>5, <3>1 DEF Slot
      <3>2. ASSUME NEW j \in DOMAIN observations, observations'[j].handle # 0
            PROVE  Slot(sessions', observations'[j].parent) # {}
        <4>1. observations'[j] = observations[j] /\ observations[j].parent # api.session
          BY <2>5, <3>2 DEF NoObservation
        <4> QED BY <3>1, <3>2, <4>1 DEF ParentsLive
      <3>3. ASSUME NEW j \in DOMAIN subscriptions, subscriptions'[j].handle # 0
            PROVE  Slot(sessions', subscriptions'[j].session) # {}
        <4>1. subscriptions'[j] = subscriptions[j] /\ subscriptions[j].session # api.session
          BY <2>5, <3>3 DEF NoSubscription
        <4> QED BY <3>1, <3>3, <4>1 DEF ParentsLive
      <3> QED BY <2>5, <3>2, <3>3 DEF ParentsLive
    <2>9. CallInOrder' /\ FlowsAreKept' /\ DrainIsHonest'
      BY <1>1 DEF CallInOrder, FlowsAreKept, DrainIsHonest, TypeOK
    <2>10. NoLeakedSlot'
      <3>1. Epoch' = Epoch
        BY <1>1, EpochStays DEF TypeOK
      <3>2. SUFFICES ASSUME Alone', NEW j \in DOMAIN sessions, sessions'[j].handle # 0, sessions'[j].epoch = Epoch
                     PROVE  FALSE
        BY <2>5, <2>8, <3>1 DEF Alone, NoLeakedSlot, ParentsLive
      <3>3. Alone
        BY <1>1, <3>2 DEF Alone
      <3>4. j # i /\ sessions'[j] = sessions[j]
        BY <2>5, <3>2 DEF NoSession
      <3>5. sessions[j].handle = api.session
        BY <3>2, <3>3, <3>4, LeaksAre DEF NothingIsLeftOver
      <3> QED BY <2>2, <3>4, <3>5 DEF HandlesIssued
    <2> QED BY <2>4, <2>6, <2>7, <2>8, <2>9, <2>10 DEF NothingIsLeftOver
  <1> QED BY <1>2, <1>3 DEF CloseSession

LEMMA OpenSessionKeeps ==
  ASSUME IInv, OpenSession
  PROVE  IInv'
  <1> USE DEF IInv
  <1>1. /\ seen' = CurrentGameSession
        /\ UNCHANGED <<game, owner, goal, unloader, since, report, reported>>
        /\ pc = "open session"
    BY DEF OpenSession, OpenTelemetrySession
  <1>2. CASE OpenTelemetrySession("daily", NoFaults) /\ pc' = "open observation"
             /\ api' = [api EXCEPT !.session = handles.session]
    <2> DEFINE i == CHOOSE k \in Takeable : \A j \in Takeable : k <= j
               old == sessions[i].handle
               new == [handle |-> handles.session, epoch |-> Epoch, thread |-> "daily"]
    <2>1. i \in DOMAIN sessions /\ i \in Takeable
      <3>1. Takeable \subseteq Nat /\ Takeable # {}
        <4>1. DOMAIN sessions \subseteq Nat
          BY ServiceAssumption DEF TypeOK
        <4>2. Takeable \subseteq DOMAIN sessions
          BY DEF Takeable
        <4> QED BY <1>2, <4>1, <4>2 DEF OpenTelemetrySession
      <3>2. i \in Takeable
        BY <3>1, LeastIs
      <3> QED BY <3>2 DEF Takeable
    <2>2. /\ sessions' = [sessions EXCEPT ![i] = new]
          /\ handles' = [handles EXCEPT !.session = @ + 1]
          /\ \/ old = 0 /\ UNCHANGED <<observations, subscriptions, hook>>
             \/ /\ old # 0 /\ observations' = RetireTelemetryObservations(old)
                /\ RetireTelemetrySubscriptions(old, sessions[i].epoch, FALSE, "daily", NoFaults)
      BY <1>2 DEF OpenTelemetrySession
    <2> HIDE DEF i
    <2>3. hook' = hook
      BY <2>2 DEF RetireTelemetrySubscriptions, Retires
    <2>4. /\ DOMAIN sessions' = DOMAIN sessions /\ DOMAIN observations' = DOMAIN observations
          /\ DOMAIN subscriptions' = DOMAIN subscriptions
          /\ \A j \in DOMAIN sessions : sessions'[j] = IF j = i THEN new ELSE sessions[j]
          /\ \A j \in DOMAIN observations : observations'[j] =
                IF old # 0 /\ observations[j].parent = old THEN NoObservation ELSE observations[j]
          /\ \A j \in DOMAIN subscriptions : subscriptions'[j] =
                IF old # 0 /\ subscriptions[j].session = old THEN NoSubscription ELSE subscriptions[j]
      BY <2>1, <2>2 DEF RetireTelemetryObservations, RetireTelemetrySubscriptions
    <2>e. /\ Epoch \in Nat /\ Epoch' = Epoch /\ seen' \in [address : Nat, epoch : Nat] /\ seen'.epoch = Epoch
          /\ Epoch >= seen.epoch /\ seen.epoch \in Nat
      BY <1>1, EpochStays, EpochIs DEF TypeOK
    <2>5. TypeOK'
      <3>1. sessions' \in [1 .. SessionSlots -> [handle : Nat, epoch : Nat, thread : Threads \cup {"none"}]]
        <4>1. new \in [handle : Nat, epoch : Nat, thread : Threads \cup {"none"}]
          BY <2>e DEF TypeOK, Threads
        <4> QED BY <2>1, <2>2, <4>1 DEF TypeOK
      <3>2. observations' \in [1 .. ObservationSlots ->
              [handle : Nat, parent : Nat, epoch : Nat, thread : Threads \cup {"none"}]]
        <4>1. CASE observations' = observations
          BY <4>1 DEF TypeOK
        <4>2. CASE observations' = RetireTelemetryObservations(old)
          BY <4>2 DEF TypeOK, NoObservation, RetireTelemetryObservations
        <4> QED BY <2>2, <4>1, <4>2
      <3>3. subscriptions' \in [1 .. SubscriptionSlots ->
              [handle : Nat, session : Nat, epoch : Nat, thread : Threads \cup {"none"}]]
        <4>1. CASE subscriptions' = subscriptions
          BY <4>1 DEF TypeOK
        <4>2. CASE RetireTelemetrySubscriptions(old, sessions[i].epoch, FALSE, "daily", NoFaults)
          BY <4>2 DEF TypeOK, NoSubscription, RetireTelemetrySubscriptions
        <4> QED BY <2>2, <4>1, <4>2
      <3>4. handles' \in [session : Nat \ {0}, observation : Nat \ {0}, subscription : Nat \ {0}]
            /\ api' \in [session : Nat, observation : Nat, hooks : Nat]
        <4>1. /\ handles \in [session : Nat \ {0}, observation : Nat \ {0}, subscription : Nat \ {0}]
              /\ api \in [session : Nat, observation : Nat, hooks : Nat]
          BY DEF TypeOK
        <4>2. handles.session \in Nat /\ handles.session + 1 \in Nat \ {0}
          BY <4>1
        <4>3. handles' = [handles EXCEPT !.session = handles.session + 1]
          BY <2>2
        <4> QED BY <1>2, <4>1, <4>2, <4>3
      <3> QED BY <1>1, <1>2, <2>3, <2>e, <3>1, <3>2, <3>3, <3>4 DEF TypeOK, Pcs
    <2>6. HandlesIssued'
      <3> DEFINE last == handles.session
      <3>1. last \in Nat /\ last > 0 /\ handles'.session = last + 1 /\ handles'.observation = handles.observation
            /\ handles.observation \in Nat /\ handles.observation > 0
        BY <2>2 DEF TypeOK
      <3>2. ASSUME NEW j \in DOMAIN sessions
            PROVE  /\ sessions[j].handle \in Nat /\ sessions[j].handle < last /\ sessions[j].epoch \in Nat
                   /\ sessions[j].handle # 0 =>
                        /\ sessions[j].epoch <= seen.epoch
                        /\ \A k \in DOMAIN sessions : sessions[k].handle = sessions[j].handle => k = j
        BY DEF HandlesIssued, TypeOK
      <3>3. ASSUME NEW j \in DOMAIN sessions
            PROVE  sessions'[j].handle < last + 1 /\ (sessions'[j].handle # 0 => sessions'[j].epoch <= seen'.epoch)
        <4>1. CASE j = i
          BY <2>4, <2>e, <3>1, <4>1
        <4>2. CASE j # i
          BY <2>4, <2>e, <3>1, <3>2, <4>2
        <4> QED BY <4>1, <4>2
      <3>4. ASSUME NEW j \in DOMAIN sessions, sessions'[j].handle # 0, NEW k \in DOMAIN sessions,
                   sessions'[k].handle = sessions'[j].handle
            PROVE  k = j
        <4>1. CASE j = i \/ k = i
          BY <2>4, <3>1, <3>2, <3>4, <4>1
        <4>2. CASE j # i /\ k # i
          BY <2>4, <3>2, <3>4, <4>2
        <4> QED BY <4>1, <4>2
      <3>5. ASSUME NEW j \in DOMAIN observations PROVE observations'[j].handle < handles.observation
        BY <2>4, <3>1 DEF HandlesIssued, NoObservation
      <3> HIDE DEF last
      <3> QED BY <2>4, <3>1, <3>3, <3>4, <3>5 DEF HandlesIssued
    <2>7. ParentsLive'
      <3>1. ASSUME NEW s, old = 0 \/ s # old, Slot(sessions, s) # {}
            PROVE  Slot(sessions', s) # {}
        BY <2>1, <2>4, <3>1 DEF Slot
      <3>2. ASSUME NEW j \in DOMAIN observations, observations'[j].handle # 0
            PROVE  Slot(sessions', observations'[j].parent) # {}
        <4>1. observations'[j] = observations[j] /\ (old = 0 \/ observations[j].parent # old)
          BY <2>4, <3>2 DEF NoObservation
        <4> HIDE DEF old
        <4> QED BY <3>1, <3>2, <4>1 DEF ParentsLive
      <3>3. ASSUME NEW j \in DOMAIN subscriptions, subscriptions'[j].handle # 0
            PROVE  Slot(sessions', subscriptions'[j].session) # {}
        <4>1. subscriptions'[j] = subscriptions[j] /\ (old = 0 \/ subscriptions[j].session # old)
          BY <2>4, <3>3 DEF NoSubscription
        <4> HIDE DEF old
        <4> QED BY <3>1, <3>3, <4>1 DEF ParentsLive
      <3> QED BY <2>4, <3>2, <3>3 DEF ParentsLive
    <2>8. CallInOrder' /\ FlowsAreKept' /\ DrainIsHonest' /\ PatchesAreKnown'
      <3>1. api'.observation = 0 /\ api'.hooks = 0 /\ goal' # "unload"
        BY <1>1, <1>2 DEF CallInOrder, TypeOK
      <3> QED BY <1>1, <1>2, <2>3, <3>1
            DEF CallInOrder, FlowsAreKept, DrainIsHonest, NothingIsLeftOver, PatchesAreKnown
    <2>9. NoLeakedSlot'
      <3>1. SUFFICES ASSUME Alone', NEW j \in DOMAIN sessions, sessions'[j].handle # 0,
                            sessions'[j].handle # api'.session, sessions'[j].epoch = Epoch
                     PROVE  FALSE
        BY <2>4, <2>7, <2>e DEF Alone, NoLeakedSlot, ParentsLive
      <3>2. Alone /\ api.session = 0
        BY <1>1, <3>1 DEF Alone, CallInOrder
      <3>3. j # i /\ sessions'[j] = sessions[j]
        <4>1. api'.session = handles.session
          BY <1>2 DEF TypeOK
        <4> QED BY <2>4, <3>1, <4>1
      <3> QED BY <3>1, <3>2, <3>3, LeaksAre DEF NothingIsLeftOver
    <2> QED BY <2>5, <2>6, <2>7, <2>8, <2>9 DEF NothingIsLeftOver
  <1>3. CASE UNCHANGED <<game, owner, sessions, observations, subscriptions, handles, hook, api>> /\ pc' = "idle"
    <2>1. CallInOrder' /\ DrainIsHonest'
      BY <1>1, <1>3 DEF CallInOrder, DrainIsHonest
    <2> QED BY <1>1, <1>3, <2>1, CallMoves DEF Pcs, TypeOK
  <1> QED BY <1>2, <1>3 DEF OpenSession

LEMMA OpenObservationKeeps ==
  ASSUME IInv, OpenObservation
  PROVE  IInv'
  <1> USE DEF IInv
  <1>1. UNCHANGED <<game, owner, sessions, subscriptions, hook, unloader, since, report, reported>>
        /\ pc = "open observation" /\ seen' \in {seen, CurrentGameSession}
    BY DEF OpenObservation, OpenObservationSession, service
  <1>2. CASE OpenObservationSession(api.session, "daily") /\ pc' = "subscribe" /\ goal' = goal
             /\ api' = [api EXCEPT !.observation = handles.observation]
    <2> DEFINE i == CHOOSE k \in FreeObservation : \A j \in FreeObservation : k <= j
               new == [handle |-> handles.observation, parent |-> api.session, epoch |-> Epoch, thread |-> "daily"]
    <2>1. i \in DOMAIN observations
      <3>1. FreeObservation \subseteq Nat /\ FreeObservation # {}
        <4>1. DOMAIN observations \subseteq Nat
          BY ServiceAssumption DEF TypeOK
        <4>2. FreeObservation \subseteq DOMAIN observations
          BY DEF FreeObservation
        <4> QED BY <1>2, <4>1, <4>2 DEF OpenObservationSession
      <3>2. i \in FreeObservation
        BY <3>1, LeastIs
      <3> QED BY <3>2 DEF FreeObservation
    <2>2. /\ observations' = [observations EXCEPT ![i] = new]
          /\ handles' = [handles EXCEPT !.observation = @ + 1]
          /\ Slot(sessions, api.session) # {}
      BY <1>2 DEF OpenObservationSession, TelemetrySessionStatus
    <2> HIDE DEF i
    <2>3. /\ DOMAIN observations' = DOMAIN observations
          /\ \A j \in DOMAIN observations : observations'[j] = IF j = i THEN new ELSE observations[j]
      BY <2>1, <2>2
    <2>4. /\ Epoch \in Nat /\ Epoch' = Epoch /\ seen' \in [address : Nat, epoch : Nat]
          /\ seen'.epoch >= seen.epoch /\ seen.epoch \in Nat
      BY <1>1, EpochStays, EpochIs DEF TypeOK
    <2>5. TypeOK'
      <3>1. observations' \in [1 .. ObservationSlots ->
              [handle : Nat, parent : Nat, epoch : Nat, thread : Threads \cup {"none"}]]
        <4>1. new \in [handle : Nat, parent : Nat, epoch : Nat, thread : Threads \cup {"none"}]
          BY <2>4 DEF TypeOK, Threads
        <4> QED BY <2>1, <2>2, <4>1 DEF TypeOK
      <3>2. handles' \in [session : Nat \ {0}, observation : Nat \ {0}, subscription : Nat \ {0}]
            /\ api' \in [session : Nat, observation : Nat, hooks : Nat]
        BY <1>2, <2>2 DEF TypeOK
      <3> QED BY <1>1, <1>2, <2>4, <3>1, <3>2 DEF TypeOK, Pcs
    <2>6. HandlesIssued'
      <3>1. /\ handles'.session = handles.session /\ handles'.observation = handles.observation + 1
            /\ handles.observation \in Nat
        BY <2>2 DEF TypeOK
      <3>2. ASSUME NEW j \in DOMAIN observations PROVE observations'[j].handle < handles.observation + 1
        <4>1. observations[j].handle \in Nat /\ observations[j].handle < handles.observation
          BY DEF TypeOK, HandlesIssued
        <4> QED BY <2>3, <3>1, <4>1
      <3>3. ASSUME NEW j \in DOMAIN sessions, sessions[j].handle # 0 PROVE sessions[j].epoch <= seen'.epoch
        <4>1. sessions[j].epoch \in Nat /\ sessions[j].epoch <= seen.epoch
          BY <3>3 DEF TypeOK, HandlesIssued
        <4> QED BY <2>4, <4>1
      <3> QED BY <1>1, <2>3, <3>1, <3>2, <3>3 DEF HandlesIssued
    <2>7. ParentsLive'
      <3>1. ASSUME NEW j \in DOMAIN observations, observations'[j].handle # 0
            PROVE  Slot(sessions, observations'[j].parent) # {}
        BY <2>2, <2>3, <3>1 DEF ParentsLive
      <3> QED BY <1>1, <2>3, <3>1 DEF ParentsLive
    <2>8. CallInOrder'
      <3>1. api'.hooks = 0 /\ goal' # "unload" /\ api'.session = api.session
            /\ api'.observation = handles.observation
        BY <1>1, <1>2 DEF CallInOrder, TypeOK
      <3>2. ASSUME NEW j \in DOMAIN observations, observations'[j].handle = handles.observation
            PROVE  observations'[j].parent = api.session
        <4>1. observations[j].handle # handles.observation
          BY DEF HandlesIssued, TypeOK
        <4> QED BY <2>3, <3>2, <4>1
      <3> QED BY <1>2, <2>3, <3>1, <3>2 DEF CallInOrder
    <2>9. FlowsAreKept' /\ DrainIsHonest' /\ PatchesAreKnown'
      BY <1>1, <1>2 DEF FlowsAreKept, DrainIsHonest, NothingIsLeftOver, PatchesAreKnown, TypeOK, CallInOrder
    <2>10. NoLeakedSlot'
      <3>1. api'.session = api.session
        BY <1>2 DEF TypeOK
      <3> QED BY <1>1, <1>2, <2>4, <2>7, <3>1, LeaksAre DEF Alone, NoLeakedSlot, ParentsLive, NothingIsLeftOver
    <2> QED BY <2>5, <2>6, <2>7, <2>8, <2>9, <2>10 DEF NothingIsLeftOver
  <1>3. CASE UNCHANGED <<service, api>> /\ pc' = "unsubscribe" /\ goal' = "abort"
    <2>1. CallInOrder' /\ DrainIsHonest' /\ goal # "unload"
      BY <1>1, <1>3 DEF CallInOrder, DrainIsHonest, service
    <2> QED BY <1>1, <1>3, <2>1, CallMoves DEF Pcs, service
  <1> QED BY <1>2, <1>3 DEF OpenObservation

\* A subscription is entered only with every hook installed, and installing is
\* what starts each one empty; otherwise what was installed is taken back.
LEMMA SubscribeKeeps ==
  ASSUME IInv, Subscribe
  PROVE  IInv'
  <1> USE DEF IInv
  <1>1. /\ UNCHANGED <<game, owner, sessions, observations, goal, unloader, report, reported>>
        /\ pc = "subscribe" /\ seen' \in {seen, CurrentGameSession}
        /\ pc' = (IF api'.hooks = 0 THEN "idle" ELSE "drain")
        /\ since' = (IF api'.hooks = 0 THEN since ELSE Nothing)
    BY DEF Subscribe, SubscribeHooks, service
  <1>e. /\ Epoch \in Nat /\ Epoch' = Epoch /\ seen' \in [address : Nat, epoch : Nat]
        /\ seen'.epoch >= seen.epoch /\ seen.epoch \in Nat
    BY <1>1, EpochStays, EpochIs DEF TypeOK
  <1>n. Nothing \in [Wanted -> Nat] /\ \A h \in Wanted : Nothing[h] = 0
    BY DEF Nothing
  <1>2. CASE UNCHANGED <<service, api>>
    <2>1. api.hooks = 0 /\ goal # "unload"
      BY <1>1 DEF CallInOrder
    <2>2. UNCHANGED since /\ pc' = "idle"
      BY <1>1, <1>2, <2>1
    <2>3. CallInOrder' /\ DrainIsHonest'
      BY <1>1, <1>2, <2>1, <2>2 DEF CallInOrder, DrainIsHonest, service
    <2> QED BY <1>1, <1>2, <2>2, <2>3, CallMoves DEF Pcs, service, TypeOK
  <1>3. ASSUME NEW f \in Faulty(InstallFaults), NEW g, g = NoFaults \/ g \in Faulty(UninstallFaults),
               SubscribeHooks(api.session, "daily", f, g), FreeSubscription # {},
               api' = [api EXCEPT !.hooks = IF handles'.subscription = handles.subscription THEN 0
                                            ELSE handles.subscription]
        PROVE  IInv'
    <2>w. DOMAIN hook = Wanted
      BY DEF TypeOK
    <2>p. \A h \in Wanted : PatchIsRight(h, hook[h])
      BY PatchesAreRight DEF NothingIsLeftOver
    <2>s. api'.session = api.session /\ api'.observation = api.observation
          /\ handles.subscription \in Nat \ {0} /\ api.session \in Nat /\ api.observation \in Nat
      BY <1>3 DEF TypeOK
    <2>c. CallInOrder'
      BY <1>1, <2>s DEF CallInOrder
    <2>d. DrainIsHonest'
      BY <1>1 DEF DrainIsHonest
    <2>1. CASE FirstFailing(f) = {}
      <3> DEFINE i == CHOOSE k \in FreeSubscription : \A j \in FreeSubscription : k <= j
                 new == [handle |-> handles.subscription, session |-> api.session, epoch |-> Epoch, thread |-> "daily"]
      <3>1. i \in DOMAIN subscriptions
        <4>1. DOMAIN subscriptions \subseteq Nat
          BY ServiceAssumption DEF TypeOK
        <4>2. FreeSubscription \subseteq DOMAIN subscriptions
          BY DEF FreeSubscription
        <4>3. FreeSubscription # {}
          BY <1>3
        <4>4. i \in FreeSubscription
          BY <4>1, <4>2, <4>3, LeastIs
        <4> QED BY <4>2, <4>4
      <3>2. /\ subscriptions' = [subscriptions EXCEPT ![i] = new]
            /\ handles' = [handles EXCEPT !.subscription = @ + 1]
            /\ hook' = [h \in DOMAIN hook |-> IF h \in Wanted THEN Install(h, hook[h], f[h]) ELSE hook[h]]
            /\ Slot(sessions, api.session) # {}
        BY <1>3, <2>1 DEF SubscribeHooks, TelemetrySessionStatus
      <3> HIDE DEF i
      <3>3. handles' \in [session : Nat \ {0}, observation : Nat \ {0}, subscription : Nat \ {0}]
            /\ handles'.subscription # handles.subscription
            /\ handles'.session = handles.session /\ handles'.observation = handles.observation
        <4>1. handles \in [session : Nat \ {0}, observation : Nat \ {0}, subscription : Nat \ {0}]
          BY DEF TypeOK
        <4>2. handles' = [handles EXCEPT !.subscription = handles.subscription + 1]
          BY <3>2
        <4>3. handles.subscription + 1 \in Nat \ {0} /\ handles.subscription + 1 # handles.subscription
          BY <2>s
        <4> QED BY <4>1, <4>2, <4>3
      <3>4. api' \in [session : Nat, observation : Nat, hooks : Nat] /\ api'.hooks # 0
        BY <1>3, <2>s, <3>3 DEF TypeOK
      <3>5. since' = Nothing /\ pc' = "drain"
        BY <1>1, <3>4
      <3>6. \A h \in Wanted : Installs(hook[h], f[h])
        <4> DEFINE failing == {h \in Wanted : ~Installs(hook[h], f[h])}
        <4>1. FirstFailing(f) = {h \in failing : \A k \in failing : Order(h) <= Order(k)}
          BY DEF FirstFailing
        <4>2. failing \subseteq Wanted
          OBVIOUS
        <4>3. failing = {}
          <5> HIDE DEF failing
          <5> QED BY <2>1, <4>1, <4>2, FirstExists
        <4> QED BY <4>3
      <3>7. ASSUME NEW h \in Wanted
            PROVE  PatchIsRight(h, hook'[h]) /\ hook'[h].active /\ hook'[h].queued = 0 /\ hook'[h].lost = 0
        <4>1. hook'[h] = Install(h, hook[h], f[h])
          BY <2>w, <3>2
        <4>2. PatchIsRight(h, Install(h, hook[h], f[h]))
          BY <2>p, InstallFaulty, InstallIsRight
        <4> QED BY <3>6, <4>1, <4>2 DEF Install
      <3>8. hook' \in [Wanted -> HookStates] /\ PatchesAreKnown'
        <4>1. hook' = [h \in Wanted |-> hook'[h]]
          BY <2>w, <3>2
        <4> QED BY <3>7, <4>1 DEF PatchIsRight, PatchesAreKnown
      <3>9. FlowsAreKept'
        BY <1>n, <3>5, <3>7 DEF FlowsAreKept
      <3>10. TypeOK'
        <4>1. subscriptions' \in [1 .. SubscriptionSlots ->
                [handle : Nat, session : Nat, epoch : Nat, thread : Threads \cup {"none"}]]
          <5>1. new \in [handle : Nat, session : Nat, epoch : Nat, thread : Threads \cup {"none"}]
            BY <1>e, <2>s DEF Threads
          <5> HIDE DEF new
          <5> QED BY <3>1, <3>2, <5>1 DEF TypeOK
        <4> QED BY <1>1, <1>e, <1>n, <3>3, <3>4, <3>5, <3>8, <4>1 DEF TypeOK, Pcs
      <3>11. HandlesIssued'
        <4>1. ASSUME NEW j \in DOMAIN sessions, sessions[j].handle # 0 PROVE sessions[j].epoch <= seen'.epoch
          <5>1. sessions[j].epoch \in Nat /\ sessions[j].epoch <= seen.epoch
            BY <4>1 DEF TypeOK, HandlesIssued
          <5> QED BY <1>e, <5>1
        <4> QED BY <1>1, <3>3, <4>1 DEF HandlesIssued
      <3>12. ParentsLive'
        <4>1. ASSUME NEW j \in DOMAIN subscriptions, subscriptions'[j].handle # 0
              PROVE  Slot(sessions, subscriptions'[j].session) # {}
          <5>1. subscriptions'[j] = IF j = i THEN new ELSE subscriptions[j]
            BY <3>1, <3>2
          <5> QED BY <3>2, <4>1, <5>1 DEF ParentsLive
        <4> QED BY <1>1, <3>2, <4>1 DEF ParentsLive
      <3>13. NoLeakedSlot'
        BY <1>1, <1>e, <2>s, <3>12, LeaksAre DEF Alone, NoLeakedSlot, ParentsLive, NothingIsLeftOver
      <3> QED BY <2>c, <2>d, <3>8, <3>9, <3>10, <3>11, <3>12, <3>13 DEF NothingIsLeftOver
    <2>2. CASE FirstFailing(f) # {}
      <3>1. PICK k \in FirstFailing(f) :
              hook' = [h \in DOMAIN hook |->
                    IF h \notin Wanted \/ Order(h) > Order(k) THEN hook[h]
                    ELSE IF h = k THEN Install(h, hook[h], f[h])
                    ELSE Uninstall(h, Install(h, hook[h], f[h]), g[h])]
        BY <1>3, <2>2 DEF SubscribeHooks
      <3>2. UNCHANGED <<subscriptions, handles>>
        BY <1>3, <2>2 DEF SubscribeHooks
      <3>3. api' = [api EXCEPT !.hooks = 0] /\ api'.hooks = 0 /\ since' = since /\ pc' = "idle"
        BY <1>1, <1>3, <3>2 DEF TypeOK
      <3>4. ASSUME NEW h \in Wanted PROVE PatchIsRight(h, hook'[h])
        <4>1. PatchIsRight(h, Install(h, hook[h], f[h]))
          BY <2>p, InstallFaulty, InstallIsRight
        <4>2. g[h] \in UninstallFaults(h)
          BY <1>3, UninstallFaulty, NoFaultsAre
        <4>3. PatchIsRight(h, Uninstall(h, Install(h, hook[h], f[h]), g[h]))
          BY <4>1, <4>2, UninstallIsRight
        <4>4. hook'[h] \in {hook[h], Install(h, hook[h], f[h]), Uninstall(h, Install(h, hook[h], f[h]), g[h])}
          BY <2>w, <3>1
        <4> QED BY <2>p, <4>1, <4>3, <4>4
      <3>5. hook' \in [Wanted -> HookStates] /\ PatchesAreKnown'
        <4>1. hook' = [h \in Wanted |-> hook'[h]]
          BY <2>w, <3>1
        <4> QED BY <3>4, <4>1 DEF PatchIsRight, PatchesAreKnown
      <3>6. TypeOK'
        <4>1. api' \in [session : Nat, observation : Nat, hooks : Nat]
          BY <3>3 DEF TypeOK
        <4> QED BY <1>1, <1>e, <3>2, <3>3, <3>5, <4>1 DEF TypeOK, Pcs
      <3>7. ParentsLive'
        BY <1>1, <3>2, ParentsKept
      <3>8. HandlesIssued' /\ NoLeakedSlot'
        BY <1>1, <2>s, <3>2, <3>7, SessionsKept DEF NothingIsLeftOver, SubscribeHooks
      <3>9. FlowsAreKept'
        BY <3>3 DEF FlowsAreKept
      <3> QED BY <2>c, <2>d, <3>5, <3>6, <3>7, <3>8, <3>9 DEF NothingIsLeftOver
    <2> QED BY <2>1, <2>2
  <1>4. CASE FreeSubscription # {} /\ ~UNCHANGED <<service, api>>
    <2>1. PICK f \in Faulty(InstallFaults) : \E g \in IF f = NoFaults THEN {NoFaults} ELSE Faulty(UninstallFaults) :
                SubscribeHooks(api.session, "daily", f, g)
      BY <1>4 DEF Subscribe
    <2>2. PICK g \in IF f = NoFaults THEN {NoFaults} ELSE Faulty(UninstallFaults) :
                SubscribeHooks(api.session, "daily", f, g)
      BY <2>1
    <2>3. g = NoFaults \/ g \in Faulty(UninstallFaults)
      BY <2>2
    <2>4. api' = [api EXCEPT !.hooks = IF handles'.subscription = handles.subscription THEN 0
                                            ELSE handles.subscription]
      BY <1>4 DEF Subscribe
    <2> QED BY <1>3, <1>4, <2>2, <2>3, <2>4
  <1> QED BY <1>2, <1>4 DEF Subscribe

\* A step of the game or a drain, which changes the hooks and the flows counted.
LEMMA HooksMove ==
  ASSUME IInv, UNCHANGED <<game, owner, sessions, observations, subscriptions, handles, api, goal, unloader>>,
         seen' \in {seen, CurrentGameSession}, pc' \in Pcs, since' \in [Wanted -> Nat],
         hook' = [h \in Wanted |-> hook'[h]], \A h \in Wanted : PatchIsRight(h, hook'[h]),
         CallInOrder', FlowsAreKept', DrainIsHonest'
  PROVE  IInv'
  <1> USE DEF IInv
  <1>1. hook' \in [Wanted -> HookStates] /\ PatchesAreKnown'
    BY DEF PatchIsRight, PatchesAreKnown
  <1>2. TypeOK'
    BY <1>1, EpochStays DEF TypeOK
  <1>3. ParentsLive'
    BY ParentsKept
  <1>4. HandlesIssued' /\ NoLeakedSlot'
    BY <1>3, SessionsKept DEF NothingIsLeftOver
  <1> QED BY <1>1, <1>2, <1>3, <1>4 DEF NothingIsLeftOver

\* What a drain reports as dropped is of each hook.
LEMMA DroppedAre ==
  ASSUME TypeOK, NEW room \in BOOLEAN, HookDropped(room) = 0, NEW h \in Wanted
  PROVE  hook[h].lost = 0 /\ (room \/ hook[h].queued = 0)
  <1>1. \A k : HookDrops(k, room) \in Nat
    BY DEF TypeOK, HookStates, HookDrops
  <1>2. HookDrops(h, room) = 0
    <2>1. h \in {"pop", "consumption", "sales", "artisan"}
      BY WantedIs DEF HookNames
    <2>2. /\ HookDrops("pop", room) \in Nat /\ HookDrops("consumption", room) \in Nat
          /\ HookDrops("sales", room) \in Nat /\ HookDrops("artisan", room) \in Nat
      BY <1>1
    <2>3. HookDrops("pop", room) = 0 /\ HookDrops("consumption", room) = 0
          /\ HookDrops("sales", room) = 0 /\ HookDrops("artisan", room) = 0
      BY <2>2 DEF HookDropped
    <2> QED BY <2>1, <2>3
  <1>3. hook[h].lost \in Nat /\ hook[h].queued \in Nat
    BY DEF TypeOK, HookStates
  <1> QED BY <1>2, <1>3 DEF HookDrops

LEMMA DrainDayKeeps ==
  ASSUME IInv, DrainDay
  PROVE  IInv'
  <1> USE DEF IInv
  <1>1. /\ UNCHANGED <<game, owner, sessions, observations, subscriptions, handles, api, goal, unloader>>
        /\ seen' = CurrentGameSession /\ pc = "drain" /\ pc' = "read" /\ reported' = since
    BY DEF DrainDay
  <1>2. CallInOrder'
    BY <1>1 DEF CallInOrder
  <1>w. DOMAIN hook = Wanted
    BY DEF TypeOK
  <1>p. \A h \in Wanted : PatchIsRight(h, hook[h])
    BY PatchesAreRight DEF NothingIsLeftOver
  <1>3. CASE DrainHooksSucceeds(api.hooks, "daily")
    <2>1. /\ hook' = [h \in DOMAIN hook |-> IF h \in Wanted THEN Drained(hook[h]) ELSE hook[h]]
          /\ since' = Nothing
      BY <1>3 DEF DrainDay, DrainHooks
    <2>2. PICK room \in BOOLEAN : report' = [h \in Wanted |->
                    [count |-> HookRecords(room)[h], dropped |-> HookDropped(room), held |-> TRUE]]
      BY <1>3 DEF DrainDay
    <2>3. api.hooks # 0
      BY <1>3 DEF DrainHooksSucceeds, SubscriptionStatus, Slot
    <2>4. ASSUME NEW h \in Wanted
          PROVE  /\ PatchIsRight(h, hook'[h]) /\ hook'[h].active = hook[h].active
                 /\ hook'[h].queued = 0 /\ hook'[h].lost = 0
      <3>1. hook'[h] = Drained(hook[h])
        BY <1>w, <2>1
      <3> QED BY <1>p, <3>1, DrainedIsRight
    <2>5. FlowsAreKept'
      <3>1. ASSUME NEW h \in Wanted
            PROVE  hook'[h].active /\ since'[h] = hook'[h].queued + hook'[h].lost
        <4>1. hook'[h].active
          BY <2>3, <2>4 DEF FlowsAreKept
        <4>2. since'[h] = 0
          BY <2>1 DEF Nothing
        <4> QED BY <2>4, <4>1, <4>2
      <3> QED BY <3>1 DEF FlowsAreKept
    <2>6. DrainIsHonest'
      <3> SUFFICES ASSUME NEW h \in Wanted, report'[h].dropped = 0 PROVE report'[h].count = since[h]
        BY <1>1 DEF DrainIsHonest
      <3>1. HookDropped(room) = 0 /\ report'[h].count = IF room THEN hook[h].queued ELSE 0
        BY <2>2 DEF HookRecords
      <3>2. hook[h].lost = 0 /\ (room \/ hook[h].queued = 0)
        BY <3>1, DroppedAre
      <3>3. since[h] = hook[h].queued + hook[h].lost /\ hook[h].queued \in Nat
        BY <2>3 DEF FlowsAreKept, TypeOK, HookStates
      <3> QED BY <3>1, <3>2, <3>3
    <2>7. since' \in [Wanted -> Nat] /\ hook' = [h \in Wanted |-> hook'[h]]
      BY <1>w, <2>1 DEF Nothing
    <2> QED BY <1>1, <1>2, <2>4, <2>5, <2>6, <2>7, HooksMove DEF Pcs
  <1>4. CASE ~DrainHooksSucceeds(api.hooks, "daily")
    <2>1. UNCHANGED <<hook, since>> /\ \A h \in Wanted : ~report'[h].held
      BY <1>4 DEF DrainDay
    <2>2. DrainIsHonest'
      BY <2>1 DEF DrainIsHonest
    <2> QED BY <1>1, <1>2, <2>1, <2>2, CallMoves DEF Pcs, TypeOK
  <1> QED BY <1>3, <1>4

LEMMA FlowKeeps ==
  ASSUME IInv, NEW h \in Wanted, Flow(h)
  PROVE  IInv'
  <1> USE DEF IInv
  <1>1. UNCHANGED <<game, seen, owner, sessions, observations, subscriptions, handles, api, pc, goal, unloader,
                    report, reported>>
    BY DEF Flow
  <1>2. PICK selected \in BOOLEAN, decodes \in BOOLEAN :
          /\ since' = [since EXCEPT ![h] = @ + IF MatchesSelectedCountry(h, selected) THEN 1 ELSE 0]
          /\ hook' = [hook EXCEPT ![h] = CapturePool(h, @, selected, decodes)]
    BY DEF Flow
  <1>3. CallInOrder' /\ DrainIsHonest'
    BY <1>1 DEF CallInOrder, DrainIsHonest
  <1>p. \A k \in Wanted : PatchIsRight(k, hook[k])
    BY PatchesAreRight DEF NothingIsLeftOver
  <1>t. hook \in [Wanted -> HookStates] /\ since \in [Wanted -> Nat]
    BY DEF TypeOK
  <1> DEFINE new == CapturePool(h, hook[h], selected, decodes)
             more == IF MatchesSelectedCountry(h, selected) THEN 1 ELSE 0
  <1>4. /\ PatchIsRight(h, new) /\ new.active = hook[h].active
        /\ hook[h].active => new.queued + new.lost = hook[h].queued + hook[h].lost + more
    BY <1>p, CaptureIsRight
  <1>5. /\ hook' = [hook EXCEPT ![h] = new] /\ since' = [since EXCEPT ![h] = since[h] + more]
        /\ more \in {0, 1}
    BY <1>2
  <1> HIDE DEF new, more
  <1>6. ASSUME NEW k \in Wanted
        PROVE  /\ hook'[k] = IF k = h THEN new ELSE hook[k]
               /\ since'[k] = IF k = h THEN since[h] + more ELSE since[k]
    BY <1>5, <1>t
  <1>7. since' \in [Wanted -> Nat] /\ hook' = [k \in Wanted |-> hook'[k]]
    <2>1. since[h] + more \in Nat
      BY <1>5, <1>t
    <2> QED BY <1>5, <1>t, <2>1
  <1>8. \A k \in Wanted : PatchIsRight(k, hook'[k])
    BY <1>4, <1>6, <1>p
  <1>9. FlowsAreKept'
    <2> SUFFICES ASSUME api.hooks # 0, NEW k \in Wanted
                 PROVE  hook'[k].active /\ since'[k] = hook'[k].queued + hook'[k].lost
      BY <1>1 DEF FlowsAreKept
    <2>1. /\ hook[k].active /\ since[k] = hook[k].queued + hook[k].lost
          /\ hook[h].active /\ since[h] = hook[h].queued + hook[h].lost
      BY DEF FlowsAreKept
    <2> QED BY <1>4, <1>6, <2>1
  <1> QED BY <1>1, <1>3, <1>7, <1>8, <1>9, HooksMove DEF TypeOK

\* Another game is observed at an epoch no session has.
LEMMA LoadGameKeeps ==
  ASSUME IInv, NEW a \in Games \cup {0}, LoadGame(a)
  PROVE  IInv'
  <1> USE DEF IInv
  <1>1. /\ game' = a /\ a # seen.address
        /\ UNCHANGED <<seen, owner, sessions, observations, subscriptions, handles, hook, api, pc, goal, unloader,
                       since, report, reported>>
    BY DEF LoadGame, plugin
  <1>2. TypeOK'
    BY <1>1, ServiceAssumption DEF TypeOK
  <1>3. HandlesIssued' /\ CallInOrder' /\ FlowsAreKept' /\ DrainIsHonest' /\ PatchesAreKnown'
    BY <1>1 DEF HandlesIssued, CallInOrder, FlowsAreKept, DrainIsHonest, NothingIsLeftOver, PatchesAreKnown
  <1>4. ParentsLive'
    BY <1>1, ParentsKept
  <1>5. NoLeakedSlot'
    <2>1. Epoch' = seen.epoch + 1
      BY <1>1 DEF Epoch, CurrentGameSession
    <2>2. ASSUME NEW i \in DOMAIN sessions, sessions[i].handle # 0 PROVE sessions[i].epoch # seen.epoch + 1
      <3>1. sessions[i].epoch \in Nat /\ sessions[i].epoch <= seen.epoch /\ seen.epoch \in Nat
        BY <2>2 DEF HandlesIssued, TypeOK
      <3> QED BY <3>1
    <2> QED BY <1>1, <1>4, <2>1, <2>2 DEF NoLeakedSlot, ParentsLive
  <1> QED BY <1>2, <1>3, <1>4, <1>5 DEF NothingIsLeftOver

LEMMA InitIsRight ==
  ASSUME Init
  PROVE  IInv
  <1> USE DEF Init, ServiceInit
  <1>1. TypeOK
    <2>1. game \in Nat
      BY ServiceAssumption
    <2>2. hook \in [Wanted -> HookStates]
      BY DEF Unpatched, HookStates
    <2> QED BY <2>1, <2>2 DEF TypeOK, Pcs, NoSession, NoObservation, NoSubscription, NoApi, Nothing
  <1>2. HandlesIssued /\ ParentsLive /\ CallInOrder /\ FlowsAreKept
    BY DEF HandlesIssued, ParentsLive, CallInOrder, FlowsAreKept, NoSession, NoObservation, NoSubscription, NoApi
  <1>3. PatchesAreKnown /\ NoLeakedSlot /\ DrainIsHonest
    BY DEF PatchesAreKnown, Unpatched, NoLeakedSlot, NoSession, NoObservation, NoSubscription, DrainIsHonest, NoReport
  <1> QED BY <1>1, <1>2, <1>3 DEF IInv, NothingIsLeftOver

LEMMA StutterKeeps ==
  ASSUME IInv, UNCHANGED vars
  PROVE  IInv'
  <1>1. CallInOrder' /\ DrainIsHonest'
    BY DEF IInv, CallInOrder, DrainIsHonest, vars, service, plugin
  <1> QED BY <1>1, CallMoves DEF vars, service, plugin, IInv, TypeOK

-----------------------------------------------------------------------------
(* The theorems.                                                           *)

\* Types, handles, parents, the plugin's call and the flows counted: the
\* inductive invariant.
THEOREM SpecIInv == Spec => []IInv
  <1>1. Init => IInv
    BY InitIsRight
  <1>2. IInv /\ [Next]_vars => IInv'
    <2> SUFFICES ASSUME IInv, [Next]_vars PROVE IInv'
      OBVIOUS
    <2>1. CASE \E readable \in BOOLEAN : Day(readable)
      BY <2>1, DayKeeps
    <2>2. CASE Unsubscribe
      BY <2>2, UnsubscribeKeeps
    <2>3. CASE CloseObservation
      BY <2>3, CloseObservationKeeps
    <2>4. CASE CloseSession
      BY <2>4, CloseSessionKeeps
    <2>5. CASE OpenSession
      BY <2>5, OpenSessionKeeps
    <2>6. CASE OpenObservation
      BY <2>6, OpenObservationKeeps
    <2>7. CASE Subscribe
      BY <2>7, SubscribeKeeps
    <2>8. CASE DrainDay
      BY <2>8, DrainDayKeeps
    <2>9. CASE SameDate
      BY <2>9, SameDateKeeps
    <2>10. CASE Read
      BY <2>10, ReadKeeps
    <2>11. CASE Unload
      BY <2>11, UnloadKeeps
    <2>12. CASE \E h \in Wanted : Flow(h)
      BY <2>12, FlowKeeps
    <2>13. CASE \E a \in Games \cup {0} : LoadGame(a)
      BY <2>13, LoadGameKeeps
    <2>14. CASE UNCHANGED vars
      BY <2>14, StutterKeeps
    <2> QED BY <2>1, <2>2, <2>3, <2>4, <2>5, <2>6, <2>7, <2>8, <2>9, <2>10, <2>11, <2>12, <2>13, <2>14 DEF Next
  <1> QED BY <1>1, <1>2, PTL DEF Spec

\* Whatever failed and whichever save was loaded, a patch in the game belongs
\* to a hook that knows of it, and the services hold no slot of this game that
\* the plugin has forgotten (Unsubscribe, Close, OpenTelemetrySession).
THEOREM SpecNothingIsLeftOver == Spec => []NothingIsLeftOver
  <1>1. IInv => NothingIsLeftOver
    BY DEF IInv
  <1> QED BY <1>1, SpecIInv, PTL

\* A report made through a subscription counts every flow since the one before,
\* or says that some were dropped (SubscribeHooks, DrainHooks, CapturePool).
THEOREM SpecDrainIsHonest == Spec => []DrainIsHonest
  <1>1. IInv => DrainIsHonest
    BY DEF IInv
  <1> QED BY <1>1, SpecIInv, PTL

\* A read accepted as a value comes through a session of the game being played.
LEMMA SuccessIsOfThisGame ==
  ASSUME IInv, NEW read, Status(read) = "success"
  PROVE  \E i \in DOMAIN sessions : sessions[i].handle = api.session /\ sessions[i].epoch = Epoch
  <1>1. ASSUME NEW handle, TelemetrySessionStatus(handle, "daily", TRUE) = "success"
        PROVE  \E i \in DOMAIN sessions : sessions[i].handle = handle /\ sessions[i].epoch = Epoch
    BY <1>1 DEF TelemetrySessionStatus, Slot
  <1>2. CASE read \in GameReads
    BY <1>1, <1>2 DEF Status
  <1>3. CASE read \notin GameReads
    <2>1. ObservationSessionStatus(api.observation, "daily", TRUE) = "success"
      BY <1>3 DEF Status
    <2> DEFINE k == CHOOSE i \in Slot(observations, api.observation) : TRUE
    <2>2. /\ k \in DOMAIN observations /\ observations[k].handle = api.observation /\ api.observation # 0
          /\ TelemetrySessionStatus(observations[k].parent, "daily", TRUE) = "success"
      <3>1. Slot(observations, api.observation) # {}
        BY <2>1 DEF ObservationSessionStatus
      <3>2. k \in Slot(observations, api.observation)
        BY <3>1
      <3>3. TelemetrySessionStatus(observations[k].parent, "daily", TRUE) = "success"
        BY <2>1 DEF ObservationSessionStatus
      <3> HIDE DEF k
      <3> QED BY <3>2, <3>3 DEF Slot
    <2> HIDE DEF k
    <2>3. observations[k].parent = api.session
      BY <2>2 DEF IInv, CallInOrder
    <2> QED BY <1>1, <2>2, <2>3
  <1> QED BY <1>2, <1>3

\* What a read that is taken for a value was given.
LEMMA AcceptedIsWhole ==
  ASSUME NEW read \in Reads, NEW shape \in Shapes, NEW room, NEW known,
         Accepts(read, shape, Reading(read, shape, room, known))
  PROVE  read \in Prefixes \/ shape = "whole"
  <1>1. \A s \in Shapes : \A a, m, n : Answer(s, a, m, n) \in {"success", a, m, n}
           /\ (Answer(s, a, m, n) = "success" /\ a # "success" /\ m # "success" /\ n # "success" => s = "whole")
    BY DEF Answer, Shapes
  <1> USE DEF Accepts, Prefixes
  <1>2. CASE read = "World"
    BY <1>1, <1>2 DEF Reading, ReadObservationWorld
  <1>3. CASE read = "Market"
    BY <1>1, <1>3 DEF Reading, ReadObservationMarket
  <1>4. CASE read = "DailyCountry"
    BY <1>1, <1>4 DEF Reading, ResolveObservationDailyCountry
  <1>5. CASE read = "Country"
    BY <1>1, <1>5 DEF Reading, ReadObservationCountry
  <1>6. CASE read = "Province"
    BY <1>1, <1>6 DEF Reading, ReadObservationProvince
  <1>7. CASE read = "Rgo"
    BY <1>1, <1>7 DEF Reading, ReadObservationRgo
  <1>8. CASE read = "CountryEconomy"
    BY <1>1, <1>8 DEF Reading, ReadObservationCountryEconomy
  <1>9. CASE read = "Pops"
    BY <1>1, <1>9 DEF Reading, ReadObservationPops
  <1>10. CASE read = "Factories"
    BY <1>1, <1>10 DEF Reading, ReadObservationFactories
  <1>11. CASE read = "PopIdentity"
    BY <1>1, <1>11 DEF Reading, ReadObservationPopIdentity, ObservationPop
  <1>12. CASE read = "PopNeeds"
    BY <1>1, <1>12 DEF Reading, ReadObservationPopNeeds, ObservationPop
  <1>13. CASE read = "Artisan"
    BY <1>13 DEF Reading, ReadObservationArtisan, ObservationPop, Answer, Shapes
  <1>14. CASE read = "ReadWorld"
    BY <1>1, <1>14 DEF Reading, ReadWorld
  <1>15. CASE read = "ReadMarket"
    BY <1>1, <1>15 DEF Reading, ReadMarket
  <1>16. CASE read = "ReadCountry"
    BY <1>1, <1>16 DEF Reading, ReadCountry
  <1>17. CASE read = "ReadProvince"
    BY <1>1, <1>17 DEF Reading, ReadProvince
  <1> QED BY <1>2, <1>3, <1>4, <1>5, <1>6, <1>7, <1>8, <1>9, <1>10, <1>11, <1>12, <1>13, <1>14, <1>15, <1>16, <1>17
          DEF Reads, GameReads

\* What the collectors take for a value is of the game being played and was
\* read whole, or is the prefix the first version of the API gives
\* (TelemetrySessionStatus, ObservationSessionStatus, Api::Read...).
THEOREM SpecReadsAreOfThisGame == Spec => ReadsAreOfThisGame
  <1>1. IInv /\ [Next]_vars =>
          [taken' # taken /\ taken'.value =>
             /\ \E i \in DOMAIN sessions : sessions[i].handle = api.session /\ sessions[i].epoch = taken'.epoch
             /\ taken'.shape \in {"whole", "prefix"}]_vars
    <2> SUFFICES ASSUME IInv, [Next]_vars, taken' # taken, taken'.value
                 PROVE  /\ \E i \in DOMAIN sessions :
                              sessions[i].handle = api.session /\ sessions[i].epoch = taken'.epoch
                        /\ taken'.shape \in {"whole", "prefix"}
      OBVIOUS
    <2>1. \/ Read \/ UNCHANGED taken \/ taken' = NoneTaken
      BY DEF Next, vars, plugin, Day, Unsubscribe, CloseObservation, CloseSession, OpenSession, OpenObservation,
             Subscribe, DrainDay, SameDate, Unload, Flow, LoadGame
    <2>2. Read
      BY <2>1 DEF NoneTaken
    <2>3. PICK read \in Reads, shape \in Shapes, room \in BOOLEAN, known \in BOOLEAN :
            taken' = IF /\ Status(read) = "success"
                        /\ Accepts(read, shape, Reading(read, shape, room, known))
                     THEN [value |-> TRUE, shape |-> IF read \in Prefixes THEN "prefix" ELSE shape, epoch |-> Epoch]
                     ELSE NoneTaken
      BY <2>2 DEF Read
    <2>4. Status(read) = "success" /\ Accepts(read, shape, Reading(read, shape, room, known))
      BY <2>3 DEF NoneTaken
    <2>5. taken' = [value |-> TRUE, shape |-> IF read \in Prefixes THEN "prefix" ELSE shape, epoch |-> Epoch]
      BY <2>3, <2>4
    <2> QED BY <2>4, <2>5, SuccessIsOfThisGame, AcceptedIsWhole
  <1> QED BY <1>1, SpecIInv, PTL DEF ReadsAreOfThisGame, Spec
=============================================================================
