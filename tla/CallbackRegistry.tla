-------------------------- MODULE CallbackRegistry --------------------------
(***************************************************************************)
(* What a plugin relies on when it registers a callback, with no slots,    *)
(* counters or exchanges: docs/plugins.md, "Daily event capability v1".    *)
(* Registration implements it.                                             *)
(***************************************************************************)
EXTENDS Integers, FiniteSets

CONSTANTS
  Capacity,      \* how many callbacks can be enabled at once
  Dispatchers    \* threads that run callbacks

VARIABLES
  next,          \* the next handle: handles are never given out twice
  enabled,       \* registrations a new event is delivered to
  running,       \* the registration each dispatcher is inside, 0 for none
  retired        \* registrations whose owner was told they are gone

vars == <<next, enabled, running, retired>>

Issued == 1 .. next - 1

Init ==
  /\ next = 1
  /\ enabled = {}
  /\ running = [d \in Dispatchers |-> 0]
  /\ retired = {}

\* A registration is enabled once, under a new handle, while there is room.
Enable ==
  /\ Cardinality(enabled) < Capacity
  /\ enabled' = enabled \cup {next}
  /\ next' = next + 1
  /\ UNCHANGED <<running, retired>>

\* It is disabled by its callback's result or taken out by its owner.
Withdraw(h) ==
  /\ h \in enabled
  /\ enabled' = enabled \ {h}
  /\ UNCHANGED <<next, running, retired>>

\* Only an enabled registration is entered.
Enter(d, h) ==
  /\ running[d] = 0
  /\ h \in enabled
  /\ running' = [running EXCEPT ![d] = h]
  /\ UNCHANGED <<next, enabled, retired>>

Leave(d) ==
  /\ running[d] # 0
  /\ running' = [running EXCEPT ![d] = 0]
  /\ UNCHANGED <<next, enabled, retired>>

\* The owner is told so only when nobody is inside and nobody can enter.
Retire(h) ==
  /\ h \notin enabled
  /\ \A d \in Dispatchers : running[d] # h
  /\ retired' = retired \cup {h}
  /\ UNCHANGED <<next, enabled, running>>

Next ==
  \/ Enable
  \/ \E h \in Issued : Withdraw(h) \/ Retire(h)
  \/ \E d \in Dispatchers : Leave(d) \/ \E h \in Issued : Enter(d, h)

Spec == Init /\ [][Next]_vars

=============================================================================
