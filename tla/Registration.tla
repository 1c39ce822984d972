---------------------------- MODULE Registration ----------------------------
(***************************************************************************)
(* The lock-free callback registry of the kernel's daily event capability  *)
(* (kernel/src/event_abi_runtime.cpp).  RegistrationSlot, Register,        *)
(* UnregisterFrom, Acquire and DisableIfRequested of                       *)
(* event_services_runtime.cpp are the same protocol over other slots.      *)
(*                                                                         *)
(* Every action is one atomic operation of the code (or several that no    *)
(* other thread can tell apart): a load, a compare-exchange, a fetch_add.  *)
(* A compare_exchange_weak loop that re-tests the reloaded word is the     *)
(* single action that succeeds on the word it tested; a failed or spurious *)
(* exchange changes nothing.                                               *)
(***************************************************************************)
EXTENDS Integers, FiniteSets

CONSTANTS
  SlotCount,          \* SMEDLEY_EVENT_MAX_DAILY_REGISTRATIONS
  MaxRefs,            \* kReferenceMask: the most references a slot can count
  MaxHandle,          \* bound of the checks on handles ever handed out
  Dispatchers,        \* threads that dispatch events and run callbacks
  Clients,            \* threads that register and unregister
  NoReuseInRace       \* TRUE: nothing registers while two calls unregister one handle

ASSUME SizesAssumption ==
  /\ SlotCount \in Nat \ {0}
  /\ MaxRefs \in Nat \ {0}
  /\ MaxHandle \in Nat

ASSUME ThreadsAssumption ==
  /\ IsFiniteSet(Dispatchers)
  /\ IsFiniteSet(Clients)
  /\ Dispatchers \cap Clients = {}
  /\ NoReuseInRace \in BOOLEAN

Slots   == 1 .. SlotCount
Threads == Dispatchers \cup Clients
Handles == Nat \ {0}
NoHandle == 0

VARIABLES
  \* DailyRegistration: control is the pair (flag, refs), always read and
  \* written together; handle stands for handle, callback and context.
  flag, refs, handle,
  nextHandle,         \* next_registration
  active,             \* active_registrations; |active| < 2^32, so no wrap
  \* DispatchDailyEventApi: program counter, slot, current_registration.
  dispPc, dispSlot, dispHandle,
  \* RegisterDaily / Unregister: program counter, slot, registration.
  callPc, callSlot, callHandle,
  \* History: handles RegisterDaily returned, handles a successful Unregister
  \* returned for, and the callbacks each dispatch still has to run.
  known, gone, due

word     == <<flag, refs, handle>>
registry == <<word, nextHandle, active>>
dispVars == <<dispPc, dispSlot, dispHandle, due>>
callVars == <<callPc, callSlot, callHandle>>
vars     == <<registry, dispVars, callVars, known, gone>>

Flags   == {"free", "writing", "active", "disabled", "removing"}
DispPcs == {"idle", "scan", "held", "running", "verdict", "uncount", "release"}
CallPcs == {"idle", "reg_scan", "reg_publish", "reg_count", "unr_scan",
            "unr_claim", "unr_uncount", "unr_drain", "unr_clear"}

RegistryType ==
  /\ flag \in [Slots -> Flags]
  /\ refs \in [Slots -> 0 .. MaxRefs]
  /\ handle \in [Slots -> Handles \cup {NoHandle}]
  /\ nextHandle \in Handles
  /\ active \in Int

DispatchType ==
  /\ dispPc \in [Dispatchers -> DispPcs]
  /\ dispSlot \in [Dispatchers -> Slots]
  /\ dispHandle \in [Dispatchers -> Handles \cup {NoHandle}]

CallType ==
  /\ callPc \in [Threads -> CallPcs]
  /\ callSlot \in [Threads -> Slots]
  /\ callHandle \in [Threads -> Handles \cup {NoHandle}]

HistoryType ==
  /\ known \subseteq Handles
  /\ gone \subseteq Handles
  /\ due \in [Dispatchers -> SUBSET Handles]

TypeOK == RegistryType /\ DispatchType /\ CallType /\ HistoryType

Init ==
  /\ flag = [s \in Slots |-> "free"]
  /\ refs = [s \in Slots |-> 0]
  /\ handle = [s \in Slots |-> NoHandle]
  /\ nextHandle = 1
  /\ active = 0
  /\ dispPc = [d \in Dispatchers |-> "idle"]
  /\ dispSlot = [d \in Dispatchers |-> 1]
  /\ dispHandle = [d \in Dispatchers |-> NoHandle]
  /\ callPc = [t \in Threads |-> "idle"]
  /\ callSlot = [t \in Threads |-> 1]
  /\ callHandle = [t \in Threads |-> NoHandle]
  /\ known = {}
  /\ gone = {}
  /\ due = [d \in Dispatchers |-> {}]

-----------------------------------------------------------------------------
(* Steps of a call: the thread's new program counter, slot and handle.     *)

CallGoes(t, pc) ==
  /\ callPc' = [callPc EXCEPT ![t] = pc]
  /\ UNCHANGED <<callSlot, callHandle>>

CallReturns(t) == 
  /\ callPc' = [callPc EXCEPT ![t] = "idle"]
  /\ callSlot' = [callSlot EXCEPT ![t] = 1]
  /\ callHandle' = [callHandle EXCEPT ![t] = NoHandle]

CallNextSlot(t) ==
  /\ callSlot[t] < SlotCount
  /\ callSlot' = [callSlot EXCEPT ![t] = @ + 1]
  /\ UNCHANGED <<callPc, callHandle>>

-----------------------------------------------------------------------------
(* RegisterDaily                                                           *)

\* Two calls unregister one handle, or the slower of them still has the slot
\* it found.  The exchange to kRemoving does not compare the handle again:
\* were the slot registered anew meanwhile, the call would take that
\* registration.  NoReuseInRace keeps the plugins out of this case.
Racing ==
  \/ \E t, u \in Threads : t # u /\ callHandle[t] = callHandle[u] /\ callHandle[t] \in known
  \/ \E t \in Threads : callPc[t] = "unr_claim" /\ callHandle[t] \in gone

BeginRegister(c) ==
  /\ callPc[c] = "idle"
  /\ NoReuseInRace => ~Racing
  /\ nextHandle + Cardinality({t \in Clients : callPc[t] \in {"reg_scan", "reg_publish"}})
       <= MaxHandle
  /\ CallGoes(c, "reg_scan")
  /\ UNCHANGED <<registry, dispVars, known, gone>>

\* The compare-exchange from 0 to kWriting succeeds.
RegisterClaim(c) ==
  /\ callPc[c] = "reg_scan"
  /\ flag[callSlot[c]] = "free"
  /\ flag' = [flag EXCEPT ![callSlot[c]] = "writing"]
  /\ CallGoes(c, "reg_publish")
  /\ UNCHANGED <<refs, handle, nextHandle, active, dispVars, known, gone>>

\* The slot is taken: try the next one, or return CAPACITY after the last.
RegisterPass(c) ==
  /\ callPc[c] = "reg_scan"
  /\ flag[callSlot[c]] # "free"
  /\ \/ CallNextSlot(c)
     \/ callSlot[c] = SlotCount /\ CallReturns(c)
  /\ UNCHANGED <<registry, dispVars, known, gone>>

\* NextRegistration, the fields, then control.store(kActive).  The fields
\* written under kWriting are read by no other thread.
RegisterPublish(c) ==
  /\ callPc[c] = "reg_publish"
  /\ handle' = [handle EXCEPT ![callSlot[c]] = nextHandle]
  /\ nextHandle' = nextHandle + 1
  /\ flag' = [flag EXCEPT ![callSlot[c]] = "active"]
  /\ callPc' = [callPc EXCEPT ![c] = "reg_count"]
  /\ callHandle' = [callHandle EXCEPT ![c] = nextHandle]
  /\ UNCHANGED <<refs, active, callSlot, dispVars, known, gone>>

\* active_registrations.fetch_add, then SUCCESS with the handle.
RegisterCount(c) ==
  /\ callPc[c] = "reg_count"
  /\ active' = active + 1
  /\ known' = known \cup {callHandle[c]}
  /\ CallReturns(c)
  /\ UNCHANGED <<word, nextHandle, dispVars, gone>>

-----------------------------------------------------------------------------
(* Unregister                                                              *)

\* NoReuseInRace: a second call on a handle only while nothing registers.
MayUnregister(h) ==
  NoReuseInRace /\ (\E u \in Threads : callHandle[u] = h) =>
    \A c \in Clients : callPc[c] \notin {"reg_scan", "reg_publish"}

\* A client passes a handle RegisterDaily gave out; a running callback may
\* pass another registration's.
BeginUnregister(t) ==
  \E h \in known :
    /\ callPc[t] = "idle"
    /\ t \in Dispatchers => dispPc[t] = "running" /\ dispHandle[t] # h
    /\ MayUnregister(h)
    /\ callPc' = [callPc EXCEPT ![t] = "unr_scan"]
    /\ callHandle' = [callHandle EXCEPT ![t] = h]
    /\ UNCHANGED <<callSlot, registry, dispVars, known, gone>>

\* Fault: the BUSY check is missing, the scan for its own handle starts.
SelfUnregister_Scans(d) ==
  /\ dispPc[d] = "running" /\ callPc[d] = "idle"
  /\ dispHandle[d] \in known
  /\ MayUnregister(dispHandle[d])
  /\ callPc' = [callPc EXCEPT ![d] = "unr_scan"]
  /\ callHandle' = [callHandle EXCEPT ![d] = dispHandle[d]]
  /\ UNCHANGED <<callSlot, registry, dispVars, known, gone>>

\* A running callback passes its own registration's handle: BUSY at once.
SelfUnregister(d) ==
  /\ dispPc[d] = "running" /\ callPc[d] = "idle"
  /\ dispHandle[d] \in known
  /\ UNCHANGED vars

\* The slot holds this registration, active or disabled.  The code loads the
\* control word and then the handle; the pair is read in one step because a
\* handle the caller knows was published before the call.
UnregisterFind(t) ==
  /\ callPc[t] = "unr_scan"
  /\ flag[callSlot[t]] \in {"active", "disabled"}
  /\ handle[callSlot[t]] = callHandle[t]
  /\ CallGoes(t, "unr_claim")
  /\ UNCHANGED <<registry, dispVars, known, gone>>

\* It does not: try the next slot, or return NOT_FOUND after the last.
UnregisterPass(t) ==
  /\ callPc[t] = "unr_scan"
  /\ \/ flag[callSlot[t]] \notin {"active", "disabled"}
     \/ handle[callSlot[t]] # callHandle[t]
  /\ \/ CallNextSlot(t)
     \/ callSlot[t] = SlotCount /\ CallReturns(t)
  /\ UNCHANGED <<registry, dispVars, known, gone>>

\* Fault: the count is decremented for a disabled slot too.
UnregisterClaim_AlwaysUncounts(t) ==
  /\ callPc[t] = "unr_claim"
  /\ flag[callSlot[t]] \in {"active", "disabled"}
  /\ flag' = [flag EXCEPT ![callSlot[t]] = "removing"]
  /\ CallGoes(t, "unr_uncount")
  /\ UNCHANGED <<refs, handle, nextHandle, active, dispVars, known, gone>>

\* The exchange to kRemoving keeps the references.  The handle is not
\* compared again.
UnregisterClaim(t) ==
  /\ callPc[t] = "unr_claim"
  /\ flag[callSlot[t]] \in {"active", "disabled"}
  /\ flag' = [flag EXCEPT ![callSlot[t]] = "removing"]
  /\ CallGoes(t, IF flag[callSlot[t]] = "active" THEN "unr_uncount" ELSE "unr_drain")
  /\ UNCHANGED <<refs, handle, nextHandle, active, dispVars, known, gone>>

\* Neither kActive nor kDisabled any more: another call removes it, BUSY.
UnregisterLost(t) ==
  /\ callPc[t] = "unr_claim"
  /\ flag[callSlot[t]] \notin {"active", "disabled"}
  /\ CallReturns(t)
  /\ UNCHANGED <<registry, dispVars, known, gone>>

UnregisterUncount(t) ==
  /\ callPc[t] = "unr_uncount"
  /\ active' = active - 1
  /\ CallGoes(t, "unr_drain")
  /\ UNCHANGED <<word, nextHandle, dispVars, known, gone>>

\* The spin loop sees no reference.
UnregisterDrained(t) ==
  /\ callPc[t] = "unr_drain"
  /\ refs[callSlot[t]] = 0
  /\ CallGoes(t, "unr_clear")
  /\ UNCHANGED <<registry, dispVars, known, gone>>

\* Clears the slot (control.store(0), references included) and returns SUCCESS.
UnregisterClear(t) ==
  /\ callPc[t] = "unr_clear"
  /\ handle' = [handle EXCEPT ![callSlot[t]] = NoHandle]
  /\ flag' = [flag EXCEPT ![callSlot[t]] = "free"]
  /\ refs' = [refs EXCEPT ![callSlot[t]] = 0]
  /\ gone' = gone \cup {callHandle[t]}
  /\ CallReturns(t)
  /\ UNCHANGED <<nextHandle, active, dispVars, known>>

-----------------------------------------------------------------------------
(* DispatchDailyEventApi                                                   *)

\* Registrations whose RegisterDaily has returned and that are not disabled
\* or being removed: the ones an event is for.
Live == {h \in known : \E s \in Slots : flag[s] = "active" /\ handle[s] = h}

\* The early return when active_registrations is zero ...
DispatchNothing(d) ==
  /\ dispPc[d] = "idle"
  /\ active = 0
  /\ UNCHANGED vars

\* ... or the scan of the slots.
BeginDispatch(d) ==
  /\ dispPc[d] = "idle"
  /\ active # 0
  /\ dispPc' = [dispPc EXCEPT ![d] = "scan"]
  /\ due' = [due EXCEPT ![d] = Live]
  /\ UNCHANGED <<registry, dispSlot, dispHandle, callVars, known, gone>>

\* Leaves the current slot: on to the next, or done after the last.  The
\* callbacks in excused need not run.
LeaveSlot(d, excused) ==
  /\ due' = [due EXCEPT ![d] = @ \ excused]
  /\ IF dispSlot[d] < SlotCount
     THEN /\ dispPc' = [dispPc EXCEPT ![d] = "scan"]
          /\ dispSlot' = [dispSlot EXCEPT ![d] = @ + 1]
     ELSE /\ dispPc' = [dispPc EXCEPT ![d] = "idle"]
          /\ dispSlot' = [dispSlot EXCEPT ![d] = 1]

\* The callback a dispatcher may leave out: its slot's count is saturated.
Saturated(d) == IF refs[dispSlot[d]] = MaxRefs THEN {handle[dispSlot[d]]} ELSE {}

\* Fault: a slot that cannot be entered ends the dispatch (break for continue).
DispatchPass_Stops(d) ==
  /\ dispPc[d] = "scan"
  /\ flag[dispSlot[d]] # "active" \/ refs[dispSlot[d]] = MaxRefs
  /\ dispPc' = [dispPc EXCEPT ![d] = "idle"]
  /\ dispSlot' = [dispSlot EXCEPT ![d] = 1]
  /\ due' = [due EXCEPT ![d] = @ \ Saturated(d)]
  /\ UNCHANGED <<registry, dispHandle, callVars, known, gone>>

\* A slot that is not active, or whose count is saturated, is left out.
DispatchPass(d) ==
  /\ dispPc[d] = "scan"
  /\ flag[dispSlot[d]] # "active" \/ refs[dispSlot[d]] = MaxRefs
  /\ LeaveSlot(d, Saturated(d))
  /\ UNCHANGED <<registry, dispHandle, callVars, known, gone>>

\* Fault: a slot that is being removed is entered.
DispatchAcquire_Removing(d) ==
  /\ dispPc[d] = "scan"
  /\ flag[dispSlot[d]] \in {"active", "removing"} /\ refs[dispSlot[d]] < MaxRefs
  /\ refs' = [refs EXCEPT ![dispSlot[d]] = @ + 1]
  /\ dispPc' = [dispPc EXCEPT ![d] = "held"]
  /\ UNCHANGED <<flag, handle, nextHandle, active, dispSlot, dispHandle, due,
                 callVars, known, gone>>

\* The exchange to control + 1.
DispatchAcquire(d) ==
  /\ dispPc[d] = "scan"
  /\ flag[dispSlot[d]] = "active" /\ refs[dispSlot[d]] < MaxRefs
  /\ refs' = [refs EXCEPT ![dispSlot[d]] = @ + 1]
  /\ dispPc' = [dispPc EXCEPT ![d] = "held"]
  /\ UNCHANGED <<flag, handle, nextHandle, active, dispSlot, dispHandle, due,
                 callVars, known, gone>>

\* current_registration, then slot.callback(slot.context, &event).
DispatchInvoke(d) ==
  /\ dispPc[d] = "held"
  /\ dispPc' = [dispPc EXCEPT ![d] = "running"]
  /\ dispHandle' = [dispHandle EXCEPT ![d] = handle[dispSlot[d]]]
  /\ due' = [due EXCEPT ![d] = @ \ {handle[dispSlot[d]]}]
  /\ UNCHANGED <<registry, dispSlot, callVars, known, gone>>

\* The callback returns CONTINUE, or anything else (or throws).
CallbackReturns(d) ==
  /\ dispPc[d] = "running" /\ callPc[d] = "idle"
  /\ \E pc \in {"release", "verdict"} : dispPc' = [dispPc EXCEPT ![d] = pc]
  /\ dispHandle' = [dispHandle EXCEPT ![d] = NoHandle]
  /\ UNCHANGED <<registry, dispSlot, due, callVars, known, gone>>

\* Fault: the exchange to kDisabled drops the references.
DispatchDisable_DropsRefs(d) ==
  /\ dispPc[d] = "verdict"
  /\ flag' = [flag EXCEPT ![dispSlot[d]] = IF @ = "active" THEN "disabled" ELSE @]
  /\ refs' = [refs EXCEPT ![dispSlot[d]] = IF flag[dispSlot[d]] = "active" THEN 0 ELSE @]
  /\ dispPc' = [dispPc EXCEPT ![d] = IF flag[dispSlot[d]] = "active" THEN "uncount" ELSE "release"]
  /\ UNCHANGED <<handle, nextHandle, active, dispSlot, dispHandle, due,
                 callVars, known, gone>>

\* The exchange from kActive to kDisabled, or none when it is not active now.
DispatchDisable(d) ==
  /\ dispPc[d] = "verdict"
  /\ IF flag[dispSlot[d]] = "active"
     THEN /\ flag' = [flag EXCEPT ![dispSlot[d]] = "disabled"]
          /\ dispPc' = [dispPc EXCEPT ![d] = "uncount"]
     ELSE /\ dispPc' = [dispPc EXCEPT ![d] = "release"]
          /\ UNCHANGED flag
  /\ UNCHANGED <<refs, handle, nextHandle, active, dispSlot, dispHandle, due,
                 callVars, known, gone>>

DispatchUncount(d) ==
  /\ dispPc[d] = "uncount"
  /\ active' = active - 1
  /\ dispPc' = [dispPc EXCEPT ![d] = "release"]
  /\ UNCHANGED <<word, nextHandle, dispSlot, dispHandle, due, callVars, known, gone>>

\* control.fetch_sub(1).
DispatchRelease(d) ==
  /\ dispPc[d] = "release"
  /\ refs' = [refs EXCEPT ![dispSlot[d]] = @ - 1]
  /\ LeaveSlot(d, {})
  /\ UNCHANGED <<flag, handle, nextHandle, active, dispHandle, callVars, known, gone>>

-----------------------------------------------------------------------------
RegisterStep(c) ==
  RegisterClaim(c) \/ RegisterPass(c) \/ RegisterPublish(c) \/ RegisterCount(c)

UnregisterStep(t) ==
  \/ UnregisterFind(t) \/ UnregisterPass(t) \/ UnregisterClaim(t) \/ UnregisterLost(t)
  \/ UnregisterUncount(t) \/ UnregisterDrained(t) \/ UnregisterClear(t)

DispatchStep(d) ==
  \/ DispatchPass(d) \/ DispatchAcquire(d) \/ DispatchInvoke(d) \/ CallbackReturns(d)
  \/ DispatchDisable(d) \/ DispatchUncount(d) \/ DispatchRelease(d)

Next ==
  \/ \E c \in Clients : BeginRegister(c) \/ RegisterStep(c)
  \/ \E t \in Threads : BeginUnregister(t) \/ UnregisterStep(t)
  \/ \E d \in Dispatchers :
       SelfUnregister(d) \/ DispatchNothing(d) \/ BeginDispatch(d) \/ DispatchStep(d)

Spec == Init /\ [][Next]_vars

-----------------------------------------------------------------------------
(* What the registry promises.                                             *)

\* Dispatcher d has a reference to slot s.
Holds(d, s) ==
  /\ dispSlot[d] = s
  /\ dispPc[d] \in {"held", "running", "verdict", "uncount", "release"}

Holders(s) == {d \in Dispatchers : Holds(d, s)}

\* Call t has moved its slot to kRemoving and not yet cleared it.
Removing(t) == callPc[t] \in {"unr_uncount", "unr_drain", "unr_clear"}

\* A slot's reference count is the number of dispatchers inside it: no early
\* clear, no double release, no acquire lost to a concurrent exchange
\* (event_abi_runtime.cpp:78,125,138,145 all rewrite the same word).
RefsCountHolders ==
  \A s \in Slots : refs[s] = Cardinality(Holders(s))

\* "A successful unregister prevents later calls and waits for a call already
\* in flight": no callback runs, or is about to run, for a registration whose
\* Unregister has returned SUCCESS, and none runs out of a cleared slot.
NoCallAfterUnregister ==
  \A d \in Dispatchers :
    /\ dispPc[d] = "held" => handle[dispSlot[d]] \notin gone \cup {NoHandle}
    /\ dispPc[d] = "running" => dispHandle[d] \notin gone \cup {NoHandle}

\* The counter is the number of active slots, up to the increments
\* and decrements threads are about to make: it is exact whenever no thread is
\* between the exchange and the count (lines 59-60, 79-80 and 138-140), and the
\* early return of a dispatch hides a live registration only while one is.
ActiveCountExact ==
  active = Cardinality({s \in Slots : flag[s] = "active"})
         - Cardinality({c \in Clients : callPc[c] = "reg_count"})
         + Cardinality({t \in Threads : callPc[t] = "unr_uncount"})
         + Cardinality({d \in Dispatchers : dispPc[d] = "uncount"})

\* Unregister removes the registration it was called for.
RemovesOnlyNamed ==
  \A t \in Threads : Removing(t) => handle[callSlot[t]] = callHandle[t]

\* Unregister takes away the registration it was called for and no other, it
\* returns NOT_FOUND only for one that is gone or that another call is taking
\* away, and it never waits for its own thread ("returns BUSY instead of
\* deadlocking"): a walk over slots that others reuse neither mistakes a handle
\* nor misses one.
UnregisterIsExact ==
  [][/\ RemovesOnlyNamed'
     /\ \A d \in Dispatchers : (Removing(d) => ~Holds(d, callSlot[d]))'
     /\ \A t \in Threads :
          callPc[t] = "unr_scan" /\ callPc'[t] = "idle" =>
            \/ callHandle[t] \in gone
            \/ \E u \in Threads : Removing(u) /\ handle[callSlot[u]] = callHandle[t]]_vars

\* With no call in progress the occupied slots hold exactly the registrations
\* handed out and not yet unregistered.
NoLeakedSlot ==
  (\A t \in Threads : callPc[t] = "idle") =>
    /\ {handle[s] : s \in {x \in Slots : flag[x] # "free"}} = known \ gone
    /\ \A s \in Slots : flag[s] = "free" <=> handle[s] = NoHandle

\* No slot leaks and active_registrations agrees with the slots, whoever
\* registers, disables and unregisters at once: a slot whose word and handle
\* disagree is lost for good, a count that is off by one hides every callback
\* or runs a scan for none.
SlotsAreExact == TypeOK /\ ActiveCountExact /\ NoLeakedSlot

\* A dispatch that scans the slots runs every callback that is live when it
\* starts and still live when it ends, but for one whose count was saturated.
EveryLiveCallbackRuns ==
  [][\A d \in Dispatchers :
       dispPc[d] # "idle" /\ dispPc'[d] = "idle" => due'[d] \cap Live' = {}]_vars

-----------------------------------------------------------------------------
(* The inductive invariant behind NoCallAfterUnregister.                   *)

Occupied(s) == flag[s] \in {"active", "disabled", "removing"}

\* Call t alone may write its slot: it claimed the slot for a registration,
\* or is the one call that moved it to kRemoving.
Owns(t) == callPc[t] = "reg_publish" \/ Removing(t)

\* Exchanges hand a slot to one call at a time, and the clear finds no reference.
SlotOwned ==
  /\ \A t \in Threads :
       /\ callPc[t] = "reg_publish" => flag[callSlot[t]] = "writing"
       /\ Removing(t) => flag[callSlot[t]] = "removing"
       /\ callPc[t] = "unr_clear" => refs[callSlot[t]] = 0
  /\ \A t, u \in Threads : Owns(t) /\ Owns(u) /\ callSlot[t] = callSlot[u] => t = u

\* An occupied slot holds an issued handle no other slot holds and no owner
\* was told is gone; an unoccupied one holds none.
SlotHandles ==
  /\ gone \subseteq 1 .. nextHandle - 1
  /\ \A s \in Slots : 
       IF Occupied(s)
       THEN handle[s] \in 1 .. nextHandle - 1 /\ handle[s] \notin gone
       ELSE handle[s] = NoHandle
  /\ \A r, s \in Slots : Occupied(r) /\ handle[r] = handle[s] => r = s

\* A dispatcher holds an occupied slot and runs the callback that is in it.
HeldOccupied ==
  \A d \in Dispatchers :
    /\ dispPc[d] # "idle" /\ dispPc[d] # "scan" => Occupied(dispSlot[d])
    /\ dispPc[d] = "running" => dispHandle[d] = handle[dispSlot[d]]

\* A call past its search, or about to return a handle, knows an issued one.
\* No slot but the one an Unregister found holds it: handles are not reused, so
\* this stays true when the registration goes away under the call.
CallNames ==
  \A t \in Threads :
    /\ callPc[t] \in {"reg_count", "unr_claim"} \/ Removing(t) =>
         callHandle[t] \in 1 .. nextHandle - 1
    /\ callPc[t] = "unr_claim" \/ Removing(t) =>
         \A s \in Slots : s # callSlot[t] => handle[s] # callHandle[t]

IInv ==
  TypeOK /\ RefsCountHolders /\ SlotOwned /\ SlotHandles /\ HeldOccupied /\ CallNames

-----------------------------------------------------------------------------
(* What else the exactness of slots, counter and calls rests on.           *)

\* A call that has begun to unregister and not returned.
Unregisters(t) ==
  callPc[t] \in {"unr_scan", "unr_claim", "unr_uncount", "unr_drain", "unr_clear"}

\* What a call's frame holds: it starts at the first slot, names a handle once
\* it has one, and a callback never unregisters the registration it runs for.
CallFrames ==
  /\ \A t \in Threads :
       /\ callPc[t] = "idle" => callSlot[t] = 1
       /\ callPc[t] \in {"idle", "reg_scan", "reg_publish"} => callHandle[t] = NoHandle
       /\ Unregisters(t) => callHandle[t] \in known
  /\ \A d \in Dispatchers :
       callPc[d] # "idle" =>
         Unregisters(d) /\ dispPc[d] = "running" /\ dispHandle[d] # callHandle[d]

\* A handle that has not been returned yet is nobody else's.
HandlesFresh ==
  /\ known \subseteq 1 .. nextHandle - 1
  /\ \A b, c \in Clients :
       callPc[b] = "reg_count" =>
         /\ callHandle[b] \notin known
         /\ callPc[c] = "reg_count" /\ callHandle[c] = callHandle[b] => b = c

\* A slot that is being written or removed has a call that does it, and an
\* occupied one holds a handle that was returned or is about to be.
SlotsInUse ==
  \A s \in Slots :
    /\ flag[s] = "writing" => \E c \in Clients : callPc[c] = "reg_publish" /\ callSlot[c] = s
    /\ flag[s] = "removing" => \E t \in Threads : Removing(t) /\ callSlot[t] = s
    /\ Occupied(s) =>
         \/ handle[s] \in known
         \/ \E c \in Clients : callPc[c] = "reg_count" /\ callHandle[c] = handle[s]

\* A dispatch starts at the first slot, and the callbacks it has still to run are
\* ahead of it.
DueIsAhead ==
  \A d \in Dispatchers :
    /\ dispPc[d] = "idle" => dispSlot[d] = 1
    /\ due[d] \subseteq known
    /\ dispPc[d] # "idle" => \A h \in due[d], s \in Slots :
         flag[s] = "active" /\ handle[s] = h =>
           \/ s > dispSlot[d]
           \/ s = dispSlot[d] /\ dispPc[d] \in {"scan", "held"}

FrameInv == CallFrames /\ HandlesFresh /\ SlotsInUse /\ DueIsAhead

\* The rest needs that nothing registers while calls race.

RaceIsCalm == Racing => \A c \in Clients : callPc[c] \notin {"reg_scan", "reg_publish"}

\* A slot found and not yet claimed is still the named one or is free.
FoundIsNamed ==
  \A t \in Threads : callPc[t] = "unr_claim" =>
    \/ Occupied(callSlot[t]) /\ handle[callSlot[t]] = callHandle[t]
    \/ flag[callSlot[t]] = "free" /\ callHandle[t] \in gone

\* No handle that was given out is lost: it is in a slot or was unregistered.
NoneIsLost ==
  \A h \in known \cup {callHandle[c] : c \in {b \in Clients : callPc[b] = "reg_count"}} :
    h \in gone \/ \E s \in Slots : Occupied(s) /\ handle[s] = h

\* A search has not passed what it looks for, unless that is gone or going.
SearchIsAhead ==
  \A t \in Threads : callPc[t] = "unr_scan" =>
    \/ callHandle[t] \in gone
    \/ \E u \in Threads : Removing(u) /\ handle[callSlot[u]] = callHandle[t]
    \/ \E s \in Slots :
         s >= callSlot[t] /\ flag[s] \in {"active", "disabled"} /\ handle[s] = callHandle[t]

CalmInv == RaceIsCalm /\ FoundIsNamed /\ RemovesOnlyNamed /\ NoneIsLost /\ SearchIsAhead

-----------------------------------------------------------------------------
(* The abstract registry: a slot is enabled while its word says kActive,   *)
(* and a dispatcher is inside a registration while it holds its slot.      *)

EnabledHandles == {handle[s] : s \in {x \in Slots : flag[x] = "active"}}

Inside ==
  [d \in Dispatchers |-> IF Holds(d, dispSlot[d]) THEN handle[dispSlot[d]] ELSE NoHandle]

Abstract ==
  INSTANCE CallbackRegistry WITH
    Capacity <- SlotCount,
    next     <- nextHandle,
    enabled  <- EnabledHandles,
    running  <- Inside,
    retired  <- gone

\* Every step of the slots and counters is a step of the abstract registry or
\* changes nothing a plugin can see.
ImplementsCallbackRegistry == Abstract!Spec

=============================================================================
