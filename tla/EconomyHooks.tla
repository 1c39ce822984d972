---------------------------- MODULE EconomyHooks ----------------------------
(***************************************************************************)
(* The four hooks of the kernel on the game's economy, as the services see *)
(* them: what an installation, a removal, a captured flow and a drain do   *)
(* to a hook's record.  CodePatch models how one patch is written under    *)
(* suspended threads; here a patch is in place or not, and one `fault' of  *)
(* an operation says where it fails.                                       *)
(*                                                                         *)
(*   factory_consumption_hook.cpp, artisan_consumption_hook.cpp: 3 sites   *)
(*   factory_sales_hook.cpp, pop_cash_flow_hook.cpp:             1 site    *)
(***************************************************************************)
EXTENDS Integers, Sequences

CONSTANT QueueCapacity      \* flows a hook keeps between two drains

ASSUME QueueCapacityAssumption == QueueCapacity \in Nat \ {0}

HookOrder == <<"pop", "consumption", "sales", "artisan">>

(***************************************************************************)
(* The places of the game a hook replaces.                                 *)
(***************************************************************************)
Sites(h) == IF h \in {"consumption", "artisan"} THEN {"settlement", "first", "second"} ELSE {"call"}

(***************************************************************************)
(* sites: what is patched.  installed, poisoned: what the hook believes.   *)
(* active: whether calls are captured.  queued, lost: the flows kept and   *)
(* the flows counted as dropped since the last drain.                      *)
(***************************************************************************)
Unpatched == [sites |-> {}, installed |-> FALSE, poisoned |-> FALSE, active |-> FALSE, queued |-> 0, lost |-> 0]

(***************************************************************************)
(* Where an operation on a hook fails: nowhere, before anything is written *)
(* or with everything written back ("quiet"), or with a write back that    *)
(* failed, which leaves some sites patched ("undo"; hooks of several       *)
(* sites).  A thread that cannot be resumed ends the process.              *)
(***************************************************************************)
NoFault == [kind |-> "none", left |-> {}]
InstallFaults(h) ==
    {NoFault, [kind |-> "quiet", left |-> {}]} \cup
        {[kind |-> "undo", left |-> s] : s \in {t \in SUBSET (Sites(h) \ {"second"}) : t # {} /\ Sites(h) # {"call"}}}
UninstallFaults(h) ==
    {NoFault, [kind |-> "quiet", left |-> {}]} \cup
        {[kind |-> "undo", left |-> s \cup {"settlement"}] :
            s \in {t \in SUBSET {"first", "second"} : t # {"first", "second"} /\ Sites(h) # {"call"}}}

(***************************************************************************)
(* Install...Hook: refused while installed or poisoned, and when the       *)
(* bytes in the game are not the original ones.                            *)
(***************************************************************************)
Installs(hook, fault) == ~hook.installed /\ ~hook.poisoned /\ hook.sites = {} /\ fault.kind = "none"
Install_KeepsQueue(h, hook, fault) ==
    IF Installs(hook, fault)
    THEN [hook EXCEPT !.sites = Sites(h), !.installed = TRUE, !.active = TRUE]
    ELSE hook
Install(h, hook, fault) ==
    IF Installs(hook, fault)
    THEN [sites |-> Sites(h), installed |-> TRUE, poisoned |-> FALSE, active |-> TRUE, queued |-> 0, lost |-> 0]
    ELSE IF ~hook.installed /\ ~hook.poisoned /\ hook.sites = {} /\ fault.kind = "undo"
         THEN [hook EXCEPT !.sites = fault.left, !.installed = TRUE, !.poisoned = TRUE]
         ELSE hook

(***************************************************************************)
(* Uninstall...Hook: nothing to do when not installed; otherwise calls are *)
(* no longer captured, whatever happens next, and every site must hold the *)
(* hook's own bytes.                                                       *)
(***************************************************************************)
Uninstalls(h, hook, fault) == hook.installed => (hook.sites = Sites(h) /\ fault.kind = "none")
Uninstall(h, hook, fault) ==
    IF ~hook.installed THEN hook
    ELSE IF Uninstalls(h, hook, fault)
    THEN [hook EXCEPT !.sites = {}, !.installed = FALSE, !.active = FALSE]
    ELSE [hook EXCEPT !.active = FALSE,
            !.sites = IF hook.sites = Sites(h) /\ fault.kind = "undo" THEN fault.left ELSE @,
            !.poisoned = @ \/ (h = "pop" /\ fault.kind = "quiet")]

(***************************************************************************)
(* A call of the game through a patched site: SettlementHook, the pool     *)
(* hooks and GiveMoneyHook.  An artisan counts when a selected country     *)
(* owns its province; goods that cannot be decoded and flows beyond the    *)
(* queue are counted as lost.                                              *)
(***************************************************************************)
MatchesSelectedCountry(h, selected) == h = "artisan" => selected
CapturePool(h, hook, selected, decodes) ==
    IF ~hook.active \/ ~MatchesSelectedCountry(h, selected) THEN hook
    ELSE IF decodes /\ hook.queued < QueueCapacity THEN [hook EXCEPT !.queued = @ + 1]
    ELSE [hook EXCEPT !.lost = @ + 1]

(***************************************************************************)
(* Drain...Hook empties the queue and the counter of what was lost.  The   *)
(* one of the POPs fails when its hook is not installed.                   *)
(***************************************************************************)
DrainFails(h, hook) == h = "pop" /\ ~hook.installed
Drained(hook) == [hook EXCEPT !.queued = 0, !.lost = 0]
=============================================================================
