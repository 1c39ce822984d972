-------------------------- MODULE TelemetryService --------------------------
(***************************************************************************)
(* services/telemetry.cpp of the kernel: the sessions a plugin reads the   *)
(* game through, the observation sessions under them and the subscription  *)
(* of the economy hooks, all behind metadata_mutex, so that a call is one  *)
(* step.  Handles are numbers, 0 is none.                                  *)
(***************************************************************************)
EXTENDS EconomyHooks

CONSTANTS
    SessionSlots,        \* telemetry_sessions, 8 in the code
    ObservationSlots,    \* telemetry_observation_sessions, 8
    SubscriptionSlots,   \* hook_subscriptions, 2
    Games,               \* addresses a game's state may have, numbers
    Wanted               \* the hooks the plugin's configuration asks for

ASSUME ServiceAssumption ==
    /\ {SessionSlots, ObservationSlots, SubscriptionSlots} \subseteq Nat \ {0}
    /\ Games \subseteq Nat \ {0}
    /\ Wanted \subseteq {HookOrder[i] : i \in DOMAIN HookOrder}

VARIABLES
    game,             \* the address of the game's state, 0 without a game
    seen,             \* observed_game_state and game_session_epoch
    owner,            \* service_owner_thread
    sessions, observations, subscriptions,
    handles,          \* next_telemetry_session, ..._observation_session, next_hook_subscription
    hook              \* the record of each hook

service == <<game, seen, owner, sessions, observations, subscriptions, handles, hook>>

Threads == {"daily", "other"}

NoSession == [handle |-> 0, epoch |-> 0, thread |-> "none"]
NoObservation == [handle |-> 0, parent |-> 0, epoch |-> 0, thread |-> "none"]
NoSubscription == [handle |-> 0, session |-> 0, epoch |-> 0, thread |-> "none"]

(***************************************************************************)
(* CurrentGameSession: the epoch changes when another address is observed. *)
(***************************************************************************)
CurrentGameSession == IF seen.address = game THEN seen ELSE [address |-> game, epoch |-> seen.epoch + 1]
Epoch == CurrentGameSession.epoch

(***************************************************************************)
(* A call is admitted on the thread of a daily dispatch, or on the owner's. *)
(***************************************************************************)
Admitted(t, dispatching) == dispatching \/ t = owner

Slot(slots, handle) == {i \in DOMAIN slots : handle # 0 /\ slots[i].handle = handle}

TelemetrySessionStatus(handle, t, dispatching) ==
    IF ~Admitted(t, dispatching) THEN "wrong thread"
    ELSE IF Slot(sessions, handle) = {} THEN "stale"
    ELSE LET slot == sessions[CHOOSE i \in Slot(sessions, handle) : TRUE]
         IN  IF slot.thread # t THEN "wrong thread" ELSE IF slot.epoch = Epoch THEN "success" ELSE "stale"

ObservationSessionStatus_AnyParent(handle, t, dispatching) ==
    IF ~Admitted(t, dispatching) THEN "wrong thread"
    ELSE IF Slot(observations, handle) = {} THEN "stale"
    ELSE LET slot == observations[CHOOSE i \in Slot(observations, handle) : TRUE]
         IN  IF slot.thread # t THEN "wrong thread" ELSE "success"
ObservationSessionStatus(handle, t, dispatching) ==
    IF ~Admitted(t, dispatching) THEN "wrong thread"
    ELSE IF Slot(observations, handle) = {} THEN "stale"
    ELSE LET slot == observations[CHOOSE i \in Slot(observations, handle) : TRUE]
             parent == TelemetrySessionStatus(slot.parent, t, dispatching)
         IN  IF slot.thread # t \/ parent = "wrong thread" THEN "wrong thread"
             ELSE IF parent = "success" /\ slot.epoch = Epoch THEN "success" ELSE "stale"

SubscriptionStatus(handle, t, dispatching) ==
    IF Slot(subscriptions, handle) = {} THEN "stale"
    ELSE LET slot == subscriptions[CHOOSE i \in Slot(subscriptions, handle) : TRUE]
             session == TelemetrySessionStatus(slot.session, t, dispatching)
         IN  IF slot.thread # t THEN "wrong thread"
             ELSE IF session # "success" THEN session
             ELSE IF slot.epoch = Epoch THEN "success" ELSE "stale"

(***************************************************************************)
(* What ends with a session: the observation sessions under it, and its    *)
(* subscriptions.  The hooks are removed only when the session is closed   *)
(* in its own game by the subscriber's thread.                             *)
(***************************************************************************)
RetireTelemetryObservations(session) ==
    [i \in DOMAIN observations |-> IF observations[i].parent = session THEN NoObservation ELSE observations[i]]

Retires(i, session, epoch, current, t) ==
    subscriptions[i].session = session /\ current /\ subscriptions[i].epoch = epoch /\ subscriptions[i].thread = t
RetireTelemetrySubscriptions_OnlyHooks(session, epoch, current, t, faults) ==
    /\ hook' = IF \E i \in DOMAIN subscriptions : Retires(i, session, epoch, current, t)
               THEN [h \in DOMAIN hook |-> Uninstall(h, hook[h], faults[h])] ELSE hook
    /\ UNCHANGED subscriptions
RetireTelemetrySubscriptions(session, epoch, current, t, faults) ==
    /\ subscriptions' = [i \in DOMAIN subscriptions |->
            IF subscriptions[i].session = session THEN NoSubscription ELSE subscriptions[i]]
    /\ hook' = IF \E i \in DOMAIN subscriptions : Retires(i, session, epoch, current, t)
               THEN [h \in DOMAIN hook |-> Uninstall(h, hook[h], faults[h])] ELSE hook

(***************************************************************************)
(* OpenTelemetrySession takes the first slot that is free or belongs to    *)
(* another game; what belonged to that game's session is retired.          *)
(***************************************************************************)
Takeable == {i \in DOMAIN sessions : sessions[i].handle = 0 \/ sessions[i].epoch # Epoch}
OpenTelemetrySession(t, faults) ==
    /\ game # 0
    /\ Takeable # {}
    /\ LET i == CHOOSE k \in Takeable : \A j \in Takeable : k <= j
       IN  IF sessions[i].handle = 0 THEN UNCHANGED <<observations, subscriptions, hook>>
           ELSE /\ RetireTelemetrySubscriptions(sessions[i].handle, sessions[i].epoch, FALSE, t, faults)
                /\ observations' = RetireTelemetryObservations(sessions[i].handle)
    /\ sessions' = [sessions EXCEPT ![CHOOSE k \in Takeable : \A j \in Takeable : k <= j] =
            [handle |-> handles.session, epoch |-> Epoch, thread |-> t]]
    /\ handles' = [handles EXCEPT !.session = @ + 1]
    /\ seen' = CurrentGameSession
    /\ UNCHANGED <<game, owner>>

CloseTelemetrySession(session, t, faults) ==
    /\ t = owner
    /\ Slot(sessions, session) # {}
    /\ LET i == CHOOSE k \in Slot(sessions, session) : TRUE
       IN  /\ RetireTelemetrySubscriptions(session, sessions[i].epoch, sessions[i].epoch = Epoch, t, faults)
           /\ observations' = RetireTelemetryObservations(session)
           /\ sessions' = [sessions EXCEPT ![i] = NoSession]
    /\ seen' = CurrentGameSession
    /\ UNCHANGED <<game, owner, handles>>

FreeObservation == {i \in DOMAIN observations : observations[i].handle = 0}
OpenObservationSession(parent, t) ==
    /\ TelemetrySessionStatus(parent, t, TRUE) = "success"
    /\ FreeObservation # {}
    /\ observations' = [observations EXCEPT ![CHOOSE k \in FreeObservation : \A j \in FreeObservation : k <= j] =
            [handle |-> handles.observation, parent |-> parent, epoch |-> Epoch, thread |-> t]]
    /\ handles' = [handles EXCEPT !.observation = @ + 1]
    /\ seen' = CurrentGameSession
    /\ UNCHANGED <<game, owner, sessions, subscriptions, hook>>

CloseObservationSession(session, t) ==
    /\ t = owner
    /\ Slot(observations, session) # {}
    /\ observations' = [observations EXCEPT ![CHOOSE k \in Slot(observations, session) : TRUE] = NoObservation]
    /\ UNCHANGED <<game, seen, owner, sessions, subscriptions, handles, hook>>

(***************************************************************************)
(* SubscribeHooks installs the wanted hooks in order.  When one fails, the *)
(* ones installed before it are removed, and the call is "unavailable".    *)
(***************************************************************************)
Order(h) == CHOOSE i \in DOMAIN HookOrder : HookOrder[i] = h
FirstFailing(f) ==
    LET failing == {h \in Wanted : ~Installs(hook[h], f[h])}
    IN  {h \in failing : \A g \in failing : Order(h) <= Order(g)}
FreeSubscription == {i \in DOMAIN subscriptions : subscriptions[i].handle = 0}
SubscribeHooks(session, t, f, g) ==
    /\ TelemetrySessionStatus(session, t, TRUE) = "success"
    /\ FreeSubscription # {}
    /\ IF FirstFailing(f) = {}
       THEN /\ hook' = [h \in DOMAIN hook |-> IF h \in Wanted THEN Install(h, hook[h], f[h]) ELSE hook[h]]
            /\ subscriptions' = [subscriptions EXCEPT
                    ![CHOOSE k \in FreeSubscription : \A j \in FreeSubscription : k <= j] =
                        [handle |-> handles.subscription, session |-> session, epoch |-> Epoch, thread |-> t]]
            /\ handles' = [handles EXCEPT !.subscription = @ + 1]
       ELSE /\ \E k \in FirstFailing(f) :
                hook' = [h \in DOMAIN hook |->
                    IF h \notin Wanted \/ Order(h) > Order(k) THEN hook[h]
                    ELSE IF h = k THEN Install(h, hook[h], f[h])
                    ELSE Uninstall(h, Install(h, hook[h], f[h]), g[h])]
            /\ UNCHANGED <<subscriptions, handles>>
    /\ seen' = CurrentGameSession
    /\ UNCHANGED <<game, owner, sessions, observations>>

(***************************************************************************)
(* UnsubscribeHooks removes the hooks in order and stops at the first that *)
(* cannot be removed; the slot is then kept.                               *)
(***************************************************************************)
FirstStuck(f) ==
    LET stuck == {h \in Wanted : ~Uninstalls(h, hook[h], f[h])}
    IN  {h \in stuck : \A g \in stuck : Order(h) <= Order(g)}
UnsubscribeHooks(subscription, t, dispatching, f) ==
    /\ SubscriptionStatus(subscription, t, dispatching) = "success"
    /\ hook' = [h \in DOMAIN hook |->
            IF h \in Wanted /\ (\A k \in FirstStuck(f) : Order(h) <= Order(k)) THEN Uninstall(h, hook[h], f[h])
            ELSE hook[h]]
    /\ subscriptions' = IF FirstStuck(f) # {} THEN subscriptions
            ELSE [subscriptions EXCEPT ![CHOOSE i \in Slot(subscriptions, subscription) : TRUE] = NoSubscription]
    /\ seen' = CurrentGameSession
    /\ UNCHANGED <<game, owner, sessions, observations, handles>>

(***************************************************************************)
(* DrainHooks empties the wanted hooks.  Without room in the table of      *)
(* identities a record is counted as dropped.                              *)
(***************************************************************************)
DrainHooksSucceeds(subscription, t) ==
    /\ SubscriptionStatus(subscription, t, TRUE) = "success"
    /\ \A h \in Wanted : ~DrainFails(h, hook[h])
HookRecords(room) == [h \in Wanted |-> IF room THEN hook[h].queued ELSE 0]
HookDrops(h, room) == IF h \in Wanted THEN hook[h].lost + (IF room THEN 0 ELSE hook[h].queued) ELSE 0
HookDropped(room) ==
    HookDrops("pop", room) + HookDrops("consumption", room) + HookDrops("sales", room) + HookDrops("artisan", room)
DrainHooks == hook' = [h \in DOMAIN hook |-> IF h \in Wanted THEN Drained(hook[h]) ELSE hook[h]]

ServiceInit ==
    /\ game \in Games \cup {0}
    /\ seen = [address |-> 0, epoch |-> 0]
    /\ owner \in Threads
    /\ sessions = [i \in 1 .. SessionSlots |-> NoSession]
    /\ observations = [i \in 1 .. ObservationSlots |-> NoObservation]
    /\ subscriptions = [i \in 1 .. SubscriptionSlots |-> NoSubscription]
    /\ handles = [session |-> 1, observation |-> 1, subscription |-> 1]
    /\ hook = [h \in Wanted |-> Unpatched]
=============================================================================
