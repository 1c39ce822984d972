----------------------------- MODULE KernelProofs -----------------------------
(***************************************************************************)
(* Theorems about what the kernel does for its plugins.                    *)
(*                                                                         *)
(* Registration, for any number of slots, threads and handles, whether or  *)
(* not callers race to unregister one handle.  Its counter is exact and a  *)
(* dispatch misses no live callback; and while nothing registers during a  *)
(* race of calls for one handle (NoReuseInRace) the slots in use are those *)
(* handed out, and Unregister takes away what it was called for.           *)
(*                                                                         *)
(* InterestFix, for any games, plugins, memory that changes and writes     *)
(* that fail.  Nothing is left of a plugin when the loader gives up, and   *)
(* the interest plugin pays every pool once, out of the pass's own money,  *)
(* reports what it did, and divides every pool exactly and fairly.         *)
(***************************************************************************)
EXTENDS Registration, InterestFix, FiniteSetTheorems, SequenceTheorems,
        WellFoundedInduction, TLAPS

-----------------------------------------------------------------------------
(* Type correctness.                                                       *)

LEMMA SlotsNonempty == 1 \in Slots /\ SlotCount \in Slots
  BY SizesAssumption DEF Slots

\* A call that moves within its frame or returns keeps the frame well typed.
LEMMA CallFrameType ==
  ASSUME CallType, NEW t \in Threads,
         \/ \E pc \in CallPcs : CallGoes(t, pc)
         \/ CallReturns(t)
         \/ CallNextSlot(t)
  PROVE  CallType'
  <1>1. CASE \E pc \in CallPcs : CallGoes(t, pc)
    BY <1>1 DEF CallType, CallGoes
  <1>2. CASE CallReturns(t)
    BY <1>2, SlotsNonempty DEF CallType, CallReturns, CallPcs
  <1>3. CASE CallNextSlot(t)
    <2>1. callSlot[t] \in Slots
      BY DEF CallType
    <2>2. callSlot[t] + 1 \in Slots
      BY <1>3, <2>1, SizesAssumption DEF CallNextSlot, Slots
    <2> QED BY <1>3, <2>2 DEF CallType, CallNextSlot
  <1> QED BY <1>1, <1>2, <1>3

\* due changes by one dispatcher's set of handles, or not at all.
LEMMA DueType ==
  ASSUME due \in [Dispatchers -> SUBSET Handles],
         NEW d \in Dispatchers, NEW S \in SUBSET Handles,
         due' = due \/ due' = [due EXCEPT ![d] = S]
  PROVE  due' \in [Dispatchers -> SUBSET Handles]
  OBVIOUS

\* So does a dispatcher that leaves a slot.
LEMMA LeaveSlotType ==
  ASSUME DispatchType, HistoryType, NEW d \in Dispatchers, NEW excused, LeaveSlot(d, excused)
  PROVE  /\ dispPc' \in [Dispatchers -> DispPcs]
         /\ dispSlot' \in [Dispatchers -> Slots]
         /\ due' \in [Dispatchers -> SUBSET Handles]
  <1>1. dispPc' \in [Dispatchers -> DispPcs]
    BY DEF LeaveSlot, DispatchType, DispPcs
  <1>2. dispSlot' \in [Dispatchers -> Slots]
    <2>1. dispSlot[d] \in Slots
      BY DEF DispatchType
    <2>2. dispSlot[d] < SlotCount => dispSlot[d] + 1 \in Slots
      BY <2>1, SizesAssumption DEF Slots
    <2> QED BY <2>2, SlotsNonempty DEF LeaveSlot, DispatchType
  <1>3. due' = [due EXCEPT ![d] = due[d] \ excused]
    BY DEF LeaveSlot, HistoryType
  <1>4. due' \in [Dispatchers -> SUBSET Handles]
    <2>1. due \in [Dispatchers -> SUBSET Handles] /\ due[d] \ excused \in SUBSET Handles
      BY DEF HistoryType
    <2> QED BY <1>3, <2>1, DueType
  <1> QED BY <1>1, <1>2, <1>4

\* Steps of a call leave the dispatchers alone.
LEMMA CallStepType ==
  ASSUME TypeOK, CallNames, NEW t \in Threads,
         \/ t \in Clients /\ (BeginRegister(t) \/ RegisterStep(t))
         \/ BeginUnregister(t) \/ UnregisterStep(t)
  PROVE  TypeOK'
  <1> USE DEF TypeOK
  <1>1. DispatchType'
    BY DEF DispatchType, BeginRegister, BeginUnregister, RegisterStep, RegisterClaim, RegisterPass,
           RegisterPublish, RegisterCount, UnregisterStep, UnregisterFind, UnregisterPass,
           UnregisterClaim, UnregisterLost, UnregisterUncount, UnregisterDrained, UnregisterClear,
           dispVars
  <1>2. CallType'
    <2>1. CASE BeginRegister(t) \/ RegisterClaim(t) \/ RegisterPass(t) \/ RegisterCount(t)
      BY <2>1, CallFrameType DEF BeginRegister, RegisterClaim, RegisterPass, RegisterCount, CallPcs
    <2>2. CASE BeginUnregister(t)
      <3> PICK h \in known :
            /\ callPc' = [callPc EXCEPT ![t] = "unr_scan"]
            /\ callHandle' = [callHandle EXCEPT ![t] = h]
            /\ callSlot' = callSlot
        BY <2>2 DEF BeginUnregister
      <3>1. h \in Handles
        BY DEF HistoryType
      <3> QED BY <3>1 DEF CallType, CallPcs
    <2>3. CASE RegisterPublish(t)
      BY <2>3 DEF RegisterPublish, CallType, CallPcs, RegistryType
    <2>4. CASE UnregisterStep(t)
      <3>1. CASE UnregisterFind(t) \/ UnregisterUncount(t) \/ UnregisterDrained(t)
        BY <3>1, CallFrameType DEF UnregisterFind, UnregisterUncount, UnregisterDrained, CallPcs
      <3>2. CASE UnregisterPass(t) \/ UnregisterLost(t) \/ UnregisterClear(t)
        BY <3>2, CallFrameType DEF UnregisterPass, UnregisterLost, UnregisterClear
      <3>3. CASE UnregisterClaim(t)
        BY <3>3, CallFrameType DEF UnregisterClaim, CallPcs
      <3> QED BY <2>4, <3>1, <3>2, <3>3 DEF UnregisterStep
    <2> QED BY <2>1, <2>2, <2>3, <2>4 DEF RegisterStep
  <1>3. RegistryType'
    <2>1. CASE \/ BeginRegister(t) \/ BeginUnregister(t) \/ RegisterPass(t) \/ UnregisterFind(t)
               \/ UnregisterPass(t) \/ UnregisterLost(t) \/ UnregisterDrained(t)
      BY <2>1 DEF BeginRegister, BeginUnregister, RegisterPass, UnregisterFind, UnregisterPass,
                  UnregisterLost, UnregisterDrained, RegistryType, registry, word
    <2>2. CASE RegisterClaim(t) \/ UnregisterClaim(t)
      BY <2>2 DEF RegisterClaim, UnregisterClaim, RegistryType, Flags
    <2>3. CASE RegisterPublish(t)
      <3>1. nextHandle \in Handles /\ nextHandle + 1 \in Handles
        BY DEF RegistryType, Handles
      <3> QED BY <2>3, <3>1 DEF RegisterPublish, RegistryType, Flags
    <2>4. CASE RegisterCount(t) \/ UnregisterUncount(t)
      BY <2>4 DEF RegisterCount, UnregisterUncount, RegistryType, word
    <2>5. CASE UnregisterClear(t)
      <3>1. 0 \in 0 .. MaxRefs
        BY SizesAssumption
      <3> QED BY <2>5, <3>1 DEF UnregisterClear, RegistryType, Flags
    <2> QED BY <2>1, <2>2, <2>3, <2>4, <2>5 DEF RegisterStep, UnregisterStep
  <1>4. HistoryType'
    <2>1. due' = due
      BY DEF BeginRegister, BeginUnregister, RegisterStep, RegisterClaim, RegisterPass,
             RegisterPublish, RegisterCount, UnregisterStep, UnregisterFind, UnregisterPass,
             UnregisterClaim, UnregisterLost, UnregisterUncount, UnregisterDrained,
             UnregisterClear, dispVars
    <2>2. callPc[t] \in {"reg_count", "unr_clear"} => callHandle[t] \in Handles
      BY DEF CallNames, Removing, RegistryType, Handles
    <2>3. \/ known' = known /\ gone' = gone
          \/ /\ callPc[t] \in {"reg_count", "unr_clear"}
             /\ known' \subseteq known \cup {callHandle[t]}
             /\ gone' \subseteq gone \cup {callHandle[t]}
      BY DEF BeginRegister, BeginUnregister, RegisterStep, RegisterClaim, RegisterPass,
             RegisterPublish, RegisterCount, UnregisterStep, UnregisterFind, UnregisterPass,
             UnregisterClaim, UnregisterLost, UnregisterUncount, UnregisterDrained, UnregisterClear
    <2> QED BY <2>1, <2>2, <2>3 DEF HistoryType
  <1> QED BY <1>1, <1>2, <1>3, <1>4

-----------------------------------------------------------------------------
(* Counting the dispatchers inside a slot.                                 *)

LEMMA HoldersFinite ==
  ASSUME NEW s \in Slots
  PROVE  IsFiniteSet(Holders(s)) /\ Cardinality(Holders(s)) \in Nat
  <1>1. Holders(s) \subseteq Dispatchers
    BY DEF Holders
  <1>2. IsFiniteSet(Holders(s))
    BY <1>1, ThreadsAssumption, FS_Subset
  <1> QED BY <1>2, FS_CardinalityType

LEMMA HolderCounted ==
  ASSUME RefsCountHolders, NEW s \in Slots, NEW d \in Dispatchers, Holds(d, s)
  PROVE  refs[s] \in Nat /\ refs[s] >= 1
  <1>1. Holders(s) # {}
    BY DEF Holders
  <1>2. Cardinality(Holders(s)) # 0
    BY <1>1, HoldersFinite, FS_EmptySet
  <1> QED BY <1>2, HoldersFinite DEF RefsCountHolders

\* Steps of a dispatch leave the calls alone.
LEMMA DispatchStepType ==
  ASSUME TypeOK, RefsCountHolders, NEW d \in Dispatchers, BeginDispatch(d) \/ DispatchStep(d)
  PROVE  TypeOK'
  <1> USE DEF TypeOK
  <1>1. CallType'
    BY DEF CallType, BeginDispatch, DispatchStep, DispatchPass, DispatchAcquire, DispatchInvoke,
           CallbackReturns, DispatchDisable, DispatchUncount, DispatchRelease, callVars
  <1>2. dispSlot[d] \in Slots
    BY DEF DispatchType
  <1>3. DispatchType'
    <2>1. CASE DispatchPass(d) \/ DispatchRelease(d)
      BY <2>1, LeaveSlotType DEF DispatchPass, DispatchRelease, DispatchType
    <2>2. CASE BeginDispatch(d) \/ DispatchAcquire(d) \/ DispatchUncount(d) \/ DispatchDisable(d)
      BY <2>2 DEF BeginDispatch, DispatchAcquire, DispatchUncount, DispatchDisable, DispatchType, DispPcs
    <2>3. CASE DispatchInvoke(d)
      <3>1. handle[dispSlot[d]] \in Handles \cup {NoHandle}
        BY <1>2 DEF RegistryType
      <3> QED BY <2>3, <3>1 DEF DispatchInvoke, DispatchType, DispPcs
    <2>4. CASE CallbackReturns(d)
      BY <2>4 DEF CallbackReturns, DispatchType, DispPcs
    <2> QED BY <2>1, <2>2, <2>3, <2>4 DEF DispatchStep
  <1>4. RegistryType'
    <2>1. CASE \/ BeginDispatch(d) \/ DispatchPass(d) \/ DispatchInvoke(d) \/ CallbackReturns(d)
      BY <2>1 DEF BeginDispatch, DispatchPass, DispatchInvoke, CallbackReturns, RegistryType,
                  registry, word
    <2>2. CASE DispatchAcquire(d)
      <3>1. refs[dispSlot[d]] + 1 \in 0 .. MaxRefs
        BY <1>2, <2>2, SizesAssumption DEF DispatchAcquire, RegistryType
      <3> QED BY <2>2, <3>1 DEF DispatchAcquire, RegistryType
    <2>3. CASE DispatchDisable(d)
      BY <2>3 DEF DispatchDisable, RegistryType, Flags
    <2>4. CASE DispatchUncount(d)
      BY <2>4 DEF DispatchUncount, RegistryType, word
    <2>5. CASE DispatchRelease(d)
      <3>1. refs[dispSlot[d]] >= 1
        BY <1>2, <2>5, HolderCounted DEF DispatchRelease, Holds
      <3>2. refs[dispSlot[d]] - 1 \in 0 .. MaxRefs
        BY <1>2, <3>1, SizesAssumption DEF RegistryType
      <3> QED BY <2>5, <3>2 DEF DispatchRelease, RegistryType
    <2> QED BY <2>1, <2>2, <2>3, <2>4, <2>5 DEF DispatchStep
  <1>5. HistoryType'
    <2>1. known' = known /\ gone' = gone
      BY DEF BeginDispatch, DispatchStep, DispatchPass, DispatchAcquire, DispatchInvoke,
             CallbackReturns, DispatchDisable, DispatchUncount, DispatchRelease
    <2>2. due' \in [Dispatchers -> SUBSET Handles]
      <3>1. due \in [Dispatchers -> SUBSET Handles] /\ due[d] \in SUBSET Handles
        BY DEF HistoryType
      <3>2. Live \in SUBSET Handles
        BY DEF Live, HistoryType
      <3>3. CASE DispatchPass(d) \/ DispatchRelease(d)
        BY <3>3, LeaveSlotType DEF DispatchPass, DispatchRelease
      <3>4. CASE BeginDispatch(d)
        BY <3>1, <3>2, <3>4, DueType DEF BeginDispatch
      <3>5. CASE DispatchInvoke(d)
        <4>1. due[d] \ {handle[dispSlot[d]]} \in SUBSET Handles
          BY <3>1
        <4> QED BY <3>1, <3>5, <4>1, DueType DEF DispatchInvoke
      <3>6. CASE \/ DispatchAcquire(d) \/ CallbackReturns(d) \/ DispatchDisable(d) \/ DispatchUncount(d)
        BY <3>1, <3>6 DEF DispatchAcquire, CallbackReturns, DispatchDisable, DispatchUncount
      <3> QED BY <3>3, <3>4, <3>5, <3>6 DEF DispatchStep
    <2> QED BY <2>1, <2>2 DEF HistoryType
  <1> QED BY <1>1, <1>3, <1>4, <1>5

\* A call changes no reference count: the clear finds it zero already.
LEMMA CallStepRefs ==
  ASSUME TypeOK, RefsCountHolders, SlotOwned, NEW t \in Threads,
         \/ t \in Clients /\ (BeginRegister(t) \/ RegisterStep(t))
         \/ BeginUnregister(t) \/ UnregisterStep(t)
  PROVE  RefsCountHolders' /\ refs' = refs /\ UNCHANGED dispVars
  <1>1. UNCHANGED dispVars
    BY DEF BeginRegister, BeginUnregister, RegisterStep, RegisterClaim, RegisterPass,
           RegisterPublish, RegisterCount, UnregisterStep, UnregisterFind, UnregisterPass,
           UnregisterClaim, UnregisterLost, UnregisterUncount, UnregisterDrained, UnregisterClear,
           dispVars
  <1>2. refs' = refs
    <2>1. CASE UnregisterClear(t)
      <3>1. callSlot[t] \in Slots /\ refs[callSlot[t]] = 0
        BY <2>1 DEF UnregisterClear, SlotOwned, TypeOK, CallType
      <3> QED BY <2>1, <3>1 DEF UnregisterClear, TypeOK, RegistryType
    <2>2. CASE ~UnregisterClear(t)
      BY <2>2 DEF BeginRegister, BeginUnregister, RegisterStep, RegisterClaim, RegisterPass,
           RegisterPublish, RegisterCount, UnregisterStep, UnregisterFind, UnregisterPass,
           UnregisterClaim, UnregisterLost, UnregisterUncount, UnregisterDrained, registry, word
    <2> QED BY <2>1, <2>2
  <1>3. \A s \in Slots : Holders(s)' = Holders(s)
    BY <1>1 DEF dispVars, Holders, Holds
  <1> QED BY <1>1, <1>2, <1>3 DEF RefsCountHolders

\* Acquire adds the dispatcher to one slot's holders, release takes it out,
\* and no other step of a dispatch enters or leaves a slot.
LEMMA DispatchStepRefs ==
  ASSUME TypeOK, RefsCountHolders, NEW d \in Dispatchers, BeginDispatch(d) \/ DispatchStep(d)
  PROVE  RefsCountHolders'
  <1>1. dispSlot[d] \in Slots /\ dispPc[d] \in DispPcs
    BY DEF TypeOK, DispatchType
  <1>2. refs \in [Slots -> 0 .. MaxRefs]
    BY DEF TypeOK, RegistryType
  <1>3. \A e \in Dispatchers \ {d} : dispSlot'[e] = dispSlot[e] /\ dispPc'[e] = dispPc[e]
    BY DEF TypeOK, DispatchType, BeginDispatch, DispatchStep, DispatchPass, DispatchAcquire,
           DispatchInvoke, CallbackReturns, DispatchDisable, DispatchUncount, DispatchRelease, LeaveSlot
  <1>4. CASE DispatchAcquire(d)
    <2>1. \A s \in Slots : Holders(s)' = IF s = dispSlot[d] THEN Holders(s) \cup {d} ELSE Holders(s)
      BY <1>1, <1>3, <1>4 DEF DispatchAcquire, Holders, Holds, TypeOK, DispatchType
    <2>2. d \notin Holders(dispSlot[d])
      BY <1>4 DEF DispatchAcquire, Holders, Holds
    <2>3. Cardinality(Holders(dispSlot[d]) \cup {d}) = Cardinality(Holders(dispSlot[d])) + 1
      BY <1>1, <2>2, HoldersFinite, FS_AddElement
    <2> QED BY <1>1, <1>2, <1>4, <2>1, <2>3 DEF DispatchAcquire, RefsCountHolders
  <1>5. CASE DispatchRelease(d)
    <2>1. d \in Holders(dispSlot[d])
      BY <1>5 DEF DispatchRelease, Holders, Holds
    <2>2. \A s \in Slots : Holders(s)' = IF s = dispSlot[d] THEN Holders(s) \ {d} ELSE Holders(s)
      BY <1>1, <1>3, <1>5 DEF DispatchRelease, LeaveSlot, Holders, Holds, TypeOK, DispatchType
    <2>3. Cardinality(Holders(dispSlot[d]) \ {d}) = Cardinality(Holders(dispSlot[d])) - 1
      BY <1>1, <2>1, HoldersFinite, FS_RemoveElement
    <2> QED BY <1>1, <1>2, <1>5, <2>2, <2>3 DEF DispatchRelease, RefsCountHolders
  <1>6. CASE ~DispatchAcquire(d) /\ ~DispatchRelease(d)
    <2>1. refs' = refs
      BY <1>6 DEF BeginDispatch, DispatchStep, DispatchPass, DispatchInvoke, CallbackReturns,
                  DispatchDisable, DispatchUncount, registry, word
    <2>2. \A s \in Slots : Holds(d, s)' <=> Holds(d, s)
      BY <1>1, <1>6 DEF BeginDispatch, DispatchStep, DispatchPass, DispatchInvoke, CallbackReturns,
                  DispatchDisable, DispatchUncount, LeaveSlot, Holds, TypeOK, DispatchType
    <2>3. \A s \in Slots : Holders(s)' = Holders(s)
      BY <1>3, <2>2 DEF Holders, Holds
    <2> QED BY <2>1, <2>3 DEF RefsCountHolders
  <1> QED BY <1>4, <1>5, <1>6

-----------------------------------------------------------------------------
(* Who may write a slot.                                                   *)

LEMMA CallStepOwned ==
  ASSUME TypeOK, RefsCountHolders, SlotOwned, NEW t \in Threads,
         \/ t \in Clients /\ (BeginRegister(t) \/ RegisterStep(t))
         \/ BeginUnregister(t) \/ UnregisterStep(t)
  PROVE  SlotOwned'
  <1>0. refs' = refs
    BY CallStepRefs
  <1>1. callSlot \in [Threads -> Slots] /\ callPc \in [Threads -> CallPcs] /\ flag \in [Slots -> Flags]
    BY DEF TypeOK, CallType, RegistryType
  <1>2. \A u \in Threads \ {t} : callPc'[u] = callPc[u] /\ callSlot'[u] = callSlot[u]
    BY <1>1 DEF BeginRegister, BeginUnregister, RegisterStep, RegisterClaim, RegisterPass,
           RegisterPublish, RegisterCount, UnregisterStep, UnregisterFind, UnregisterPass,
           UnregisterClaim, UnregisterLost, UnregisterUncount, UnregisterDrained, UnregisterClear,
           CallGoes, CallReturns, CallNextSlot
  <1>3. CASE RegisterClaim(t) \/ UnregisterClaim(t)
    <2>1. callSlot' = callSlot /\ callPc'[t] \in {"reg_publish", "unr_uncount", "unr_drain"}
      BY <1>1, <1>3 DEF RegisterClaim, UnregisterClaim, CallGoes
    <2>2. \A u \in Threads : Owns(u) => callSlot[u] # callSlot[t]
      BY <1>3 DEF RegisterClaim, UnregisterClaim, SlotOwned, Owns
    <2>3. \A u \in Threads \ {t} : Owns(u)' <=> Owns(u)
      BY <1>2 DEF Owns, Removing
    <2>4. \A u \in Threads \ {t} : Owns(u) => flag'[callSlot[u]] = flag[callSlot[u]]
      BY <1>1, <1>3, <2>2 DEF RegisterClaim, UnregisterClaim
    <2>5. /\ callPc'[t] = "reg_publish" => flag'[callSlot[t]] = "writing"
          /\ Removing(t)' => flag'[callSlot[t]] = "removing"
      BY <1>1, <1>3 DEF RegisterClaim, UnregisterClaim, CallGoes, Removing
    <2> QED BY <1>0, <1>1, <1>2, <2>1, <2>2, <2>3, <2>4, <2>5 DEF SlotOwned, Owns, Removing
  <1>4. CASE RegisterPublish(t) \/ UnregisterClear(t)
    <2>1. Owns(t) /\ ~Owns(t)'
      BY <1>1, <1>4 DEF RegisterPublish, UnregisterClear, CallReturns, Owns, Removing
    <2>2. \A u \in Threads \ {t} : Owns(u) => callSlot[u] # callSlot[t]
      BY <2>1 DEF SlotOwned
    <2>3. \A u \in Threads \ {t} : Owns(u) => flag'[callSlot[u]] = flag[callSlot[u]]
      BY <1>1, <1>4, <2>2 DEF RegisterPublish, UnregisterClear
    <2> QED BY <1>0, <1>1, <1>2, <2>1, <2>3 DEF SlotOwned, Owns, Removing
  <1>5. CASE \/ BeginRegister(t) \/ BeginUnregister(t) \/ RegisterPass(t) \/ RegisterCount(t)
             \/ UnregisterFind(t) \/ UnregisterPass(t) \/ UnregisterLost(t)
    <2>1. flag' = flag
      BY <1>5 DEF BeginRegister, BeginUnregister, RegisterPass, RegisterCount, UnregisterFind,
                  UnregisterPass, UnregisterLost, registry, word
    <2>2. ~Owns(t)'
      BY <1>1, <1>5 DEF BeginRegister, BeginUnregister, RegisterPass, RegisterCount, UnregisterFind,
                  UnregisterPass, UnregisterLost, CallGoes, CallReturns, CallNextSlot, Owns, Removing
    <2> QED BY <1>0, <1>2, <2>1, <2>2 DEF SlotOwned, Owns, Removing
  <1>6. CASE UnregisterUncount(t) \/ UnregisterDrained(t)
    <2>1. flag' = flag /\ callSlot' = callSlot
      BY <1>6 DEF UnregisterUncount, UnregisterDrained, registry, word, CallGoes
    <2>2. /\ Removing(t) /\ Removing(t)' /\ callPc'[t] # "reg_publish"
          /\ callPc'[t] = "unr_clear" => refs[callSlot[t]] = 0
      BY <1>1, <1>6 DEF UnregisterUncount, UnregisterDrained, CallGoes, Removing
    <2> QED BY <1>0, <1>2, <2>1, <2>2 DEF SlotOwned, Owns, Removing
  <1> QED BY <1>3, <1>4, <1>5, <1>6 DEF RegisterStep, UnregisterStep

\* A dispatcher changes only occupied slots that are not being cleared.
LEMMA DispatchStepOwned ==
  ASSUME TypeOK, RefsCountHolders, SlotOwned, NEW d \in Dispatchers,
         BeginDispatch(d) \/ DispatchStep(d)
  PROVE  SlotOwned'
  <1>1. callPc' = callPc /\ callSlot' = callSlot
    BY DEF BeginDispatch, DispatchStep, DispatchPass, DispatchAcquire, DispatchInvoke,
           CallbackReturns, DispatchDisable, DispatchUncount, DispatchRelease, callVars
  <1>2. dispSlot[d] \in Slots
    BY DEF TypeOK, DispatchType
  <1>3. \A s \in Slots : flag[s] # "active" => flag'[s] = flag[s]
    BY <1>2 DEF BeginDispatch, DispatchStep, DispatchPass, DispatchAcquire, DispatchInvoke,
           CallbackReturns, DispatchDisable, DispatchUncount, DispatchRelease, registry, word,
           TypeOK, RegistryType
  <1>4. \A s \in Slots : flag[s] = "removing" /\ refs[s] = 0 => refs'[s] = 0
    <2>1. CASE DispatchAcquire(d)
      BY <1>2, <2>1 DEF DispatchAcquire, TypeOK, RegistryType
    <2>2. CASE DispatchRelease(d)
      <3>1. refs[dispSlot[d]] # 0
        BY <1>2, <2>2, HolderCounted DEF DispatchRelease, Holds
      <3> QED BY <2>2, <3>1 DEF DispatchRelease, TypeOK, RegistryType
    <2>3. CASE ~DispatchAcquire(d) /\ ~DispatchRelease(d)
      BY <2>3 DEF BeginDispatch, DispatchStep, DispatchPass, DispatchInvoke, CallbackReturns,
                  DispatchDisable, DispatchUncount, registry, word
    <2> QED BY <2>1, <2>2, <2>3
  <1>5. callSlot \in [Threads -> Slots]
    BY DEF TypeOK, CallType
  <1>6. \A t \in Threads :
          /\ callPc[t] = "reg_publish" => flag'[callSlot[t]] = "writing"
          /\ Removing(t) => flag'[callSlot[t]] = "removing"
          /\ callPc[t] = "unr_clear" => refs'[callSlot[t]] = 0
    BY <1>3, <1>4, <1>5 DEF SlotOwned, Removing
  <1> QED BY <1>1, <1>6 DEF SlotOwned, Owns, Removing

-----------------------------------------------------------------------------
(* What the slots hold.                                                    *)

\* A registration gets a handle no slot, call or owner has seen; a clear takes
\* away the one handle its owner is then told is gone.
LEMMA CallStepHandles ==
  ASSUME TypeOK, RefsCountHolders, SlotOwned, SlotHandles, CallNames, NEW t \in Threads,
         \/ t \in Clients /\ (BeginRegister(t) \/ RegisterStep(t))
         \/ BeginUnregister(t) \/ UnregisterStep(t)
  PROVE  SlotHandles'
  <1>1. callSlot[t] \in Slots /\ flag \in [Slots -> Flags]
        /\ handle \in [Slots -> Handles \cup {NoHandle}] /\ nextHandle \in Nat \ {0}
    BY DEF TypeOK, CallType, RegistryType, Handles
  <1>2. CASE RegisterPublish(t)
    <2>1. \A s \in Slots : handle[s] # nextHandle
      BY <1>1 DEF SlotHandles, NoHandle
    <2>2. nextHandle' = nextHandle + 1 /\ gone' = gone /\ nextHandle \notin gone
      BY <1>1, <1>2 DEF RegisterPublish, SlotHandles
    <2>3. \A s \in Slots \ {callSlot[t]} : handle'[s] = handle[s] /\ flag'[s] = flag[s]
      BY <1>1, <1>2 DEF RegisterPublish
    <2>4. handle'[callSlot[t]] = nextHandle /\ flag'[callSlot[t]] = "active"
      BY <1>1, <1>2 DEF RegisterPublish
    <2>5. gone' \subseteq 1 .. nextHandle' - 1
      BY <1>1, <2>2 DEF SlotHandles
    <2>6. \A s \in Slots : IF Occupied(s)' THEN handle'[s] \in 1 .. nextHandle' - 1 /\ handle'[s] \notin gone'
                                           ELSE handle'[s] = NoHandle
      BY <1>1, <2>2, <2>3, <2>4 DEF SlotHandles, Occupied
    <2>7. \A r, s \in Slots : Occupied(r)' /\ handle'[r] = handle'[s] => r = s
      BY <1>1, <2>1, <2>3, <2>4 DEF SlotHandles, Occupied
    <2> QED BY <2>5, <2>6, <2>7 DEF SlotHandles
  <1>3. CASE UnregisterClear(t)
    <2> PICK k \in Slots : k = callSlot[t]
      BY <1>1
    <2>1. callHandle[t] \in 1 .. nextHandle - 1
          /\ \A s \in Slots \ {k} : handle[s] # callHandle[t]
      BY <1>3 DEF UnregisterClear, CallNames, Removing
    <2>2. \A s \in Slots \ {k} : handle'[s] = handle[s] /\ flag'[s] = flag[s]
      BY <1>1, <1>3 DEF UnregisterClear
    <2>3. handle'[k] = NoHandle /\ flag'[k] = "free"
      BY <1>1, <1>3 DEF UnregisterClear
    <2>4. gone' = gone \cup {callHandle[t]} /\ nextHandle' = nextHandle
      BY <1>3 DEF UnregisterClear
    <2>5. gone' \subseteq 1 .. nextHandle' - 1
      BY <1>1, <2>1, <2>4 DEF SlotHandles
    <2>6. ~Occupied(k)'
      BY <2>3 DEF Occupied
    <2>7. \A s \in Slots \ {k} : Occupied(s)' <=> Occupied(s)
      BY <2>2 DEF Occupied
    <2>8. \A s \in Slots : IF Occupied(s)' THEN handle'[s] \in 1 .. nextHandle' - 1 /\ handle'[s] \notin gone'
                                           ELSE handle'[s] = NoHandle
      BY <1>1, <2>1, <2>2, <2>3, <2>4, <2>6, <2>7 DEF SlotHandles
    <2>9. \A r, s \in Slots : Occupied(r)' /\ handle'[r] = handle'[s] => r = s
      <3> SUFFICES ASSUME NEW r \in Slots, NEW s \in Slots, Occupied(r)', handle'[r] = handle'[s]
                   PROVE  r = s
        OBVIOUS
      <3>1. Occupied(r) /\ handle'[r] = handle[r] /\ handle[r] # NoHandle
        <4>1. r # k /\ Occupied(r)
          BY <2>6, <2>7
        <4>2. handle[r] \in 1 .. nextHandle - 1
          BY <4>1 DEF SlotHandles
        <4> QED BY <1>1, <2>2, <4>1, <4>2 DEF NoHandle
      <3> QED BY <2>2, <2>3, <3>1 DEF SlotHandles
    <2> QED BY <2>5, <2>8, <2>9 DEF SlotHandles
  <1>4. CASE RegisterClaim(t) \/ UnregisterClaim(t)
    <2>1. \A s \in Slots : Occupied(s)' <=> Occupied(s)
      BY <1>1, <1>4 DEF RegisterClaim, UnregisterClaim, Occupied
    <2>2. UNCHANGED <<handle, nextHandle, gone>>
      BY <1>4 DEF RegisterClaim, UnregisterClaim
    <2> QED BY <2>1, <2>2 DEF SlotHandles
  <1>5. CASE ~RegisterPublish(t) /\ ~UnregisterClear(t) /\ ~RegisterClaim(t) /\ ~UnregisterClaim(t)
    <2>1. UNCHANGED <<flag, handle, nextHandle, gone>>
      BY <1>5 DEF BeginRegister, BeginUnregister, RegisterStep, RegisterPass, RegisterCount,
                  UnregisterStep, UnregisterFind, UnregisterPass, UnregisterLost,
                  UnregisterUncount, UnregisterDrained, registry, word
    <2> QED BY <2>1 DEF SlotHandles, Occupied
  <1> QED BY <1>2, <1>3, <1>4, <1>5

\* A dispatcher changes no handle, and disabling a slot leaves it occupied.
LEMMA DispatchStepHandles ==
  ASSUME TypeOK, SlotHandles, NEW d \in Dispatchers, BeginDispatch(d) \/ DispatchStep(d)
  PROVE  /\ SlotHandles'
         /\ UNCHANGED <<handle, nextHandle, gone>>
         /\ \A s \in Slots : Occupied(s)' <=> Occupied(s)
  <1>1. UNCHANGED <<handle, nextHandle, gone>>
    BY DEF BeginDispatch, DispatchStep, DispatchPass, DispatchAcquire, DispatchInvoke,
           CallbackReturns, DispatchDisable, DispatchUncount, DispatchRelease, registry, word
  <1>2. \A s \in Slots : Occupied(s)' <=> Occupied(s)
    <2>1. CASE DispatchDisable(d)
      BY <2>1 DEF DispatchDisable, Occupied, TypeOK, RegistryType, DispatchType
    <2>2. CASE ~DispatchDisable(d)
      BY <2>2 DEF BeginDispatch, DispatchStep, DispatchPass, DispatchAcquire, DispatchInvoke,
           CallbackReturns, DispatchUncount, DispatchRelease, registry, word, Occupied
    <2> QED BY <2>1, <2>2
  <1> QED BY <1>1, <1>2 DEF SlotHandles

\* A slot somebody holds is not claimed for a registration nor cleared.
LEMMA CallStepHeld ==
  ASSUME TypeOK, RefsCountHolders, SlotOwned, HeldOccupied, NEW t \in Threads,
         \/ t \in Clients /\ (BeginRegister(t) \/ RegisterStep(t))
         \/ BeginUnregister(t) \/ UnregisterStep(t)
  PROVE  HeldOccupied'
  <1>1. UNCHANGED dispVars
    BY CallStepRefs
  <1>2. callSlot[t] \in Slots /\ flag \in [Slots -> Flags]
        /\ handle \in [Slots -> Handles \cup {NoHandle}] /\ dispSlot \in [Dispatchers -> Slots]
    BY DEF TypeOK, CallType, RegistryType, DispatchType
  <1>3. ASSUME NEW d \in Dispatchers, dispPc[d] # "idle", dispPc[d] # "scan"
        PROVE  Occupied(dispSlot[d])' /\ handle'[dispSlot[d]] = handle[dispSlot[d]]
    <2>1. Occupied(dispSlot[d])
      BY <1>3 DEF HeldOccupied
    <2>2. refs[dispSlot[d]] # 0
      BY <1>2, <1>3, HolderCounted DEF Holds, TypeOK, DispatchType, DispPcs
    <2>3. CASE RegisterPublish(t) \/ UnregisterClear(t)
      <3>1. dispSlot[d] # callSlot[t]
        <4>1. /\ callPc[t] = "reg_publish" => flag[callSlot[t]] = "writing"
              /\ callPc[t] = "unr_clear" => refs[callSlot[t]] = 0
          BY DEF SlotOwned
        <4> QED BY <2>1, <2>2, <2>3, <4>1 DEF RegisterPublish, UnregisterClear, Occupied
      <3> QED BY <1>1, <1>2, <2>1, <2>3, <3>1 DEF RegisterPublish, UnregisterClear, Occupied, dispVars
    <2>4. CASE RegisterClaim(t) \/ UnregisterClaim(t)
      BY <1>2, <2>1, <2>4, <1>1 DEF RegisterClaim, UnregisterClaim, Occupied, dispVars
    <2>5. CASE ~RegisterPublish(t) /\ ~UnregisterClear(t) /\ ~RegisterClaim(t) /\ ~UnregisterClaim(t)
      <3>1. UNCHANGED <<flag, handle>>
        BY <2>5 DEF BeginRegister, BeginUnregister, RegisterStep, RegisterPass, RegisterCount,
                  UnregisterStep, UnregisterFind, UnregisterPass, UnregisterLost,
                  UnregisterUncount, UnregisterDrained, registry, word
      <3> QED BY <1>1, <2>1, <3>1 DEF Occupied, dispVars
    <2> QED BY <1>1, <2>3, <2>4, <2>5 DEF dispVars
  <1> QED BY <1>1, <1>3 DEF HeldOccupied, dispVars, Occupied

LEMMA DispatchStepHeld ==
  ASSUME TypeOK, SlotHandles, HeldOccupied, NEW d \in Dispatchers, BeginDispatch(d) \/ DispatchStep(d)
  PROVE  HeldOccupied'
  <1>1. UNCHANGED handle /\ \A s \in Slots : Occupied(s)' <=> Occupied(s)
    BY DispatchStepHandles
  <1>2. dispSlot \in [Dispatchers -> Slots] /\ dispPc \in [Dispatchers -> DispPcs]
        /\ dispHandle \in [Dispatchers -> Handles \cup {NoHandle}]
    BY DEF TypeOK, DispatchType
  <1>3. \A e \in Dispatchers \ {d} :
           dispSlot'[e] = dispSlot[e] /\ dispPc'[e] = dispPc[e] /\ dispHandle'[e] = dispHandle[e]
    BY <1>2 DEF BeginDispatch, DispatchStep, DispatchPass, DispatchAcquire,
           DispatchInvoke, CallbackReturns, DispatchDisable, DispatchUncount, DispatchRelease, LeaveSlot
  <1>4. \/ dispPc'[d] \in {"idle", "scan"}
        \/ /\ dispSlot'[d] = dispSlot[d]
           /\ Occupied(dispSlot[d])
           /\ dispPc'[d] = "running" => dispHandle'[d] = handle[dispSlot[d]]
    BY <1>2 DEF BeginDispatch, DispatchStep, DispatchPass, DispatchAcquire,
           DispatchInvoke, CallbackReturns, DispatchDisable, DispatchUncount, DispatchRelease, LeaveSlot,
           HeldOccupied, Occupied
  <1> QED BY <1>1, <1>2, <1>3, <1>4 DEF HeldOccupied, Occupied

-----------------------------------------------------------------------------
(* What the calls know.                                                    *)

LEMMA CallStepNames ==
  ASSUME TypeOK, SlotHandles, CallNames, NEW t \in Threads,
         \/ t \in Clients /\ (BeginRegister(t) \/ RegisterStep(t))
         \/ BeginUnregister(t) \/ UnregisterStep(t)
  PROVE  CallNames'
  <1>1. /\ callSlot \in [Threads -> Slots] /\ callPc \in [Threads -> CallPcs]
        /\ callHandle \in [Threads -> Handles \cup {NoHandle}]
        /\ handle \in [Slots -> Handles \cup {NoHandle}] /\ nextHandle \in Nat \ {0}
    BY DEF TypeOK, CallType, RegistryType, Handles
  <1>2. \A u \in Threads \ {t} :
          callPc'[u] = callPc[u] /\ callSlot'[u] = callSlot[u] /\ callHandle'[u] = callHandle[u]
    BY <1>1 DEF BeginRegister, BeginUnregister, RegisterStep, RegisterClaim, RegisterPass,
           RegisterPublish, RegisterCount, UnregisterStep, UnregisterFind, UnregisterPass,
           UnregisterClaim, UnregisterLost, UnregisterUncount, UnregisterDrained, UnregisterClear,
           CallGoes, CallReturns, CallNextSlot
  <1>3. CASE RegisterPublish(t)
    <2> PICK k \in Slots : k = callSlot[t]
      BY <1>1
    <2>1. nextHandle' = nextHandle + 1 /\ handle' = [handle EXCEPT ![k] = nextHandle]
      BY <1>3 DEF RegisterPublish
    <2>2. callPc'[t] = "reg_count" /\ callHandle'[t] \in 1 .. nextHandle' - 1
      BY <1>1, <1>3, <2>1 DEF RegisterPublish
    <2>3. ASSUME NEW u \in Threads \ {t}, NEW s \in Slots,
                 callHandle[u] \in 1 .. nextHandle - 1, handle[s] # callHandle[u]
          PROVE  handle'[s] # callHandle[u]
      BY <1>1, <2>1, <2>3
    <2> QED BY <1>1, <1>2, <2>1, <2>2, <2>3 DEF CallNames, Removing
  <1>4. CASE UnregisterClear(t)
    <2> PICK k \in Slots : k = callSlot[t]
      BY <1>1
    <2>1. nextHandle' = nextHandle /\ handle' = [handle EXCEPT ![k] = NoHandle] /\ callPc'[t] = "idle"
      BY <1>1, <1>4 DEF UnregisterClear, CallReturns
    <2>2. ASSUME NEW u \in Threads \ {t}, NEW s \in Slots,
                 callHandle[u] \in 1 .. nextHandle - 1, handle[s] # callHandle[u]
          PROVE  handle'[s] # callHandle[u]
      BY <1>1, <2>1, <2>2 DEF NoHandle
    <2> QED BY <1>1, <1>2, <2>1, <2>2 DEF CallNames, Removing
  <1>5. CASE ~RegisterPublish(t) /\ ~UnregisterClear(t)
    <2>1. handle' = handle /\ nextHandle' = nextHandle
      BY <1>5 DEF BeginRegister, BeginUnregister, RegisterStep, RegisterClaim, RegisterPass,
           RegisterCount, UnregisterStep, UnregisterFind, UnregisterPass, UnregisterClaim,
           UnregisterLost, UnregisterUncount, UnregisterDrained, registry, word
    <2>2. CASE UnregisterFind(t)
      <3>1. callPc'[t] = "unr_claim" /\ callSlot'[t] = callSlot[t] /\ callHandle'[t] = callHandle[t]
        BY <1>1, <2>2 DEF UnregisterFind, CallGoes
      <3>2. callHandle[t] \in 1 .. nextHandle - 1
            /\ \A s \in Slots : s # callSlot[t] => handle[s] # callHandle[t]
        BY <1>1, <2>2 DEF UnregisterFind, SlotHandles, Occupied
      <3> QED BY <1>2, <2>1, <3>1, <3>2 DEF CallNames, Removing
    <2>3. CASE UnregisterClaim(t) \/ UnregisterUncount(t) \/ UnregisterDrained(t)
      <3>1. /\ callPc[t] = "unr_claim" \/ Removing(t)
            /\ Removing(t)' /\ callSlot'[t] = callSlot[t] /\ callHandle'[t] = callHandle[t]
        BY <1>1, <2>3 DEF UnregisterClaim, UnregisterUncount, UnregisterDrained, CallGoes, Removing
      <3> QED BY <1>2, <2>1, <3>1 DEF CallNames, Removing
    <2>4. CASE \/ BeginRegister(t) \/ BeginUnregister(t) \/ RegisterClaim(t) \/ RegisterPass(t)
               \/ RegisterCount(t) \/ UnregisterPass(t) \/ UnregisterLost(t)
      <3>1. callPc'[t] \notin {"reg_count", "unr_claim"} /\ ~Removing(t)'
        BY <1>1, <2>4 DEF BeginRegister, BeginUnregister, RegisterClaim, RegisterPass, RegisterCount,
             UnregisterPass, UnregisterLost, CallGoes, CallReturns, CallNextSlot, Removing
      <3> QED BY <1>2, <2>1, <3>1 DEF CallNames, Removing
    <2> QED BY <1>5, <2>2, <2>3, <2>4 DEF RegisterStep, UnregisterStep
  <1> QED BY <1>3, <1>4, <1>5

LEMMA DispatchStepNames ==
  ASSUME TypeOK, SlotHandles, CallNames, NEW d \in Dispatchers, BeginDispatch(d) \/ DispatchStep(d)
  PROVE  CallNames'
  <1>1. UNCHANGED <<handle, nextHandle>>
    BY DispatchStepHandles
  <1>2. UNCHANGED callVars
    BY DEF BeginDispatch, DispatchStep, DispatchPass, DispatchAcquire, DispatchInvoke,
           CallbackReturns, DispatchDisable, DispatchUncount, DispatchRelease
  <1> QED BY <1>1, <1>2 DEF CallNames, Removing, callVars

-----------------------------------------------------------------------------
LEMMA InitIInv == Init => IInv
  <1> SUFFICES ASSUME Init PROVE IInv
    OBVIOUS
  <1>1. TypeOK
    <2>1. RegistryType
      BY SizesAssumption DEF Init, RegistryType, Flags, Handles, NoHandle
    <2>2. DispatchType /\ CallType
      BY SlotsNonempty DEF Init, DispatchType, CallType, DispPcs, CallPcs, Threads
    <2>3. HistoryType
      BY DEF Init, HistoryType
    <2> QED BY <2>1, <2>2, <2>3 DEF TypeOK
  <1>2. RefsCountHolders
    <2>1. \A s \in Slots : Holders(s) = {}
      BY DEF Init, Holders, Holds
    <2> QED BY <2>1, FS_EmptySet DEF Init, RefsCountHolders
  <1>3. SlotOwned /\ HeldOccupied /\ CallNames
    BY DEF Init, SlotOwned, HeldOccupied, CallNames, Owns, Removing, Threads
  <1>4. SlotHandles
    BY DEF Init, SlotHandles, Occupied
  <1> QED BY <1>1, <1>2, <1>3, <1>4 DEF IInv

LEMMA NextIInv == IInv /\ [Next]_vars => IInv'
  <1> SUFFICES ASSUME IInv, [Next]_vars PROVE IInv'
    OBVIOUS
  <1> USE DEF IInv
  <1>1. ASSUME NEW c \in Clients, BeginRegister(c) \/ RegisterStep(c)
        PROVE  IInv'
    <2>1. c \in Threads
      BY DEF Threads
    <2> QED BY <1>1, <2>1, CallStepType, CallStepRefs, CallStepOwned, CallStepHandles,
               CallStepHeld, CallStepNames
  <1>2. ASSUME NEW t \in Threads, BeginUnregister(t) \/ UnregisterStep(t)
        PROVE  IInv'
    BY <1>2, CallStepType, CallStepRefs, CallStepOwned, CallStepHandles, CallStepHeld, CallStepNames
  <1>3. ASSUME NEW d \in Dispatchers, BeginDispatch(d) \/ DispatchStep(d)
        PROVE  IInv'
    BY <1>3, DispatchStepType, DispatchStepRefs, DispatchStepOwned, DispatchStepHandles,
       DispatchStepHeld, DispatchStepNames
  <1>4. CASE UNCHANGED vars
    BY <1>4 DEF vars, registry, word, dispVars, callVars, TypeOK, RegistryType, DispatchType,
       CallType, HistoryType, RefsCountHolders, Holders, Holds, SlotOwned, Owns, Removing,
       SlotHandles, Occupied, HeldOccupied, CallNames
  <1> QED BY <1>1, <1>2, <1>3, <1>4 DEF Next, SelfUnregister, DispatchNothing

-----------------------------------------------------------------------------
\* The inductive invariant holds whatever the number of slots, threads and
\* handles, and even when threads race to unregister one handle.
THEOREM SpecIInv == Spec => []IInv
  BY InitIInv, NextIInv, PTL DEF Spec

\* Every variable keeps its type; a reference count never leaves its field.
THEOREM SpecTypeOK == Spec => []TypeOK
  <1>1. IInv => TypeOK
    BY DEF IInv
  <1> QED BY <1>1, SpecIInv, PTL

\* A slot counts exactly the dispatchers inside it.
THEOREM SpecRefsCountHolders == Spec => []RefsCountHolders
  <1>1. IInv => RefsCountHolders
    BY DEF IInv
  <1> QED BY <1>1, SpecIInv, PTL

\* "A successful unregister prevents later calls and waits for a call already
\* in flight": once Unregister has returned SUCCESS for a handle, its callback
\* is not running and no dispatcher is about to run it.
THEOREM SpecNoCallAfterUnregister == Spec => []NoCallAfterUnregister
  <1>1. IInv => NoCallAfterUnregister
    <2> SUFFICES ASSUME IInv, NEW d \in Dispatchers, dispPc[d] \in {"held", "running"}
                 PROVE  /\ handle[dispSlot[d]] \notin gone \cup {NoHandle}
                        /\ dispPc[d] = "running" => dispHandle[d] = handle[dispSlot[d]]
      BY DEF NoCallAfterUnregister
    <2>1. dispSlot[d] \in Slots /\ Occupied(dispSlot[d])
          /\ (dispPc[d] = "running" => dispHandle[d] = handle[dispSlot[d]])
      BY DEF IInv, HeldOccupied, TypeOK, DispatchType
    <2>2. handle[dispSlot[d]] \in 1 .. nextHandle - 1 /\ handle[dispSlot[d]] \notin gone
      BY <2>1 DEF IInv, SlotHandles
    <2>3. nextHandle \in Nat
      BY DEF IInv, TypeOK, RegistryType, Handles
    <2> QED BY <2>1, <2>2, <2>3 DEF NoHandle
  <1> QED BY <1>1, SpecIInv, PTL

-----------------------------------------------------------------------------
(* Registration implements CallbackRegistry.                               *)

\* A slot that is not enabled leaves room for another callback.
LEMMA RoomToEnable ==
  ASSUME NEW k \in Slots, flag[k] # "active"
  PROVE  IsFiniteSet(EnabledHandles) /\ Cardinality(EnabledHandles) < SlotCount
  <1> DEFINE Active == {x \in Slots : flag[x] = "active"}
             image  == [x \in Active |-> handle[x]]
  <1>1. IsFiniteSet(Slots) /\ Cardinality(Slots) = SlotCount
    BY SizesAssumption, FS_Interval DEF Slots
  <1>2. Active \subseteq Slots \ {k}
    OBVIOUS
  <1>3. IsFiniteSet(Slots \ {k}) /\ Cardinality(Slots \ {k}) = SlotCount - 1
    BY <1>1, FS_RemoveElement
  <1>4. IsFiniteSet(Active) /\ Cardinality(Active) <= SlotCount - 1
    BY <1>2, <1>3, FS_Subset
  <1>5. image \in [Active -> EnabledHandles]
    BY DEF EnabledHandles
  <1>6. image \in Surjection(Active, EnabledHandles)
    BY <1>5 DEF Surjection, EnabledHandles
  <1>7. IsFiniteSet(EnabledHandles) /\ Cardinality(EnabledHandles) <= Cardinality(Active)
    BY <1>4, <1>6, FS_Surjection
  <1>8. Cardinality(Active) \in Nat /\ Cardinality(EnabledHandles) \in Nat
    BY <1>4, <1>7, FS_CardinalityType
  <1> QED BY <1>4, <1>7, <1>8, SizesAssumption

\* What one exchange of a slot's word does to the set of enabled callbacks.
LEMMA EnabledAfter ==
  ASSUME SlotHandles, NEW k \in Slots,
         \A s \in Slots \ {k} : flag'[s] = flag[s] /\ handle'[s] = handle[s]
  PROVE  /\ flag[k] # "active" /\ flag'[k] = "active" =>
              EnabledHandles' = EnabledHandles \cup {handle'[k]}
         /\ flag[k] = "active" /\ flag'[k] # "active" =>
              EnabledHandles' = EnabledHandles \ {handle[k]}
         /\ flag[k] # "active" /\ flag'[k] # "active" => EnabledHandles' = EnabledHandles
  <1>1. \A s \in Slots \ {k} : flag[k] = "active" => handle[s] # handle[k]
    BY DEF SlotHandles, Occupied
  <1> QED BY <1>1 DEF EnabledHandles

\* A call that changes only slots nobody holds leaves every dispatcher where
\* it was.
LEMMA InsideUnchanged ==
  ASSUME UNCHANGED <<dispPc, dispSlot>>,
         \A d \in Dispatchers : Holds(d, dispSlot[d]) => handle'[dispSlot[d]] = handle[dispSlot[d]]
  PROVE  Inside' = Inside
  BY DEF Inside, Holds

LEMMA AbstractCardinality == \A S : Abstract!Cardinality(S) = Cardinality(S)
  BY DEF Abstract!Cardinality, Cardinality

LEMMA CallStepImplements ==
  ASSUME IInv, NEW t \in Threads,
         \/ t \in Clients /\ (BeginRegister(t) \/ RegisterStep(t))
         \/ BeginUnregister(t) \/ UnregisterStep(t)
  PROVE  [Abstract!Next]_(Abstract!vars)
  <1> USE DEF IInv
  <1>1. UNCHANGED <<dispPc, dispSlot>>
    BY CallStepRefs DEF dispVars
  <1>2. /\ callSlot \in [Threads -> Slots] /\ flag \in [Slots -> Flags]
        /\ handle \in [Slots -> Handles \cup {NoHandle}] /\ nextHandle \in Nat \ {0}
        /\ dispSlot \in [Dispatchers -> Slots]
    BY DEF TypeOK, CallType, RegistryType, DispatchType, Handles
  <1>3. \A d \in Dispatchers :
          Holds(d, dispSlot[d]) => Occupied(dispSlot[d]) /\ refs[dispSlot[d]] # 0
    BY <1>2, HolderCounted DEF Holds, HeldOccupied
  <1>4. PICK k \in Slots : k = callSlot[t]
    BY <1>2
  <1>5. CASE RegisterPublish(t)
    <2>1. flag[k] = "writing"
      BY <1>4, <1>5 DEF RegisterPublish, SlotOwned
    <2>2. /\ flag' = [flag EXCEPT ![k] = "active"] /\ handle' = [handle EXCEPT ![k] = nextHandle]
          /\ nextHandle' = nextHandle + 1 /\ gone' = gone
      BY <1>4, <1>5 DEF RegisterPublish
    <2>3. EnabledHandles' = EnabledHandles \cup {nextHandle}
      BY <1>2, <2>1, <2>2, EnabledAfter
    <2>4. Inside' = Inside
      BY <1>1, <1>2, <1>3, <2>1, <2>2, InsideUnchanged DEF Occupied
    <2>5. Cardinality(EnabledHandles) < SlotCount
      BY <2>1, RoomToEnable
    <2> QED BY <2>2, <2>3, <2>4, <2>5, AbstractCardinality DEF Abstract!Next, Abstract!Enable
  <1>6. CASE UnregisterClaim(t)
    <2>1. /\ flag[k] \in {"active", "disabled"} /\ flag' = [flag EXCEPT ![k] = "removing"]
          /\ UNCHANGED <<handle, nextHandle, gone>>
      BY <1>4, <1>6 DEF UnregisterClaim
    <2>2. Inside' = Inside
      BY <1>1, <2>1, InsideUnchanged
    <2>3. CASE flag[k] = "active"
      <3>1. EnabledHandles' = EnabledHandles \ {handle[k]} /\ handle[k] \in EnabledHandles
        BY <1>2, <2>1, <2>3, EnabledAfter DEF EnabledHandles
      <3>2. handle[k] \in 1 .. nextHandle - 1
        BY <2>3 DEF SlotHandles, Occupied
      <3> QED BY <2>1, <2>2, <3>1, <3>2 DEF Abstract!Next, Abstract!Withdraw, Abstract!Issued
    <2>4. CASE flag[k] # "active"
      <3>1. EnabledHandles' = EnabledHandles
        BY <1>2, <2>1, <2>4, EnabledAfter
      <3> QED BY <2>1, <2>2, <3>1 DEF Abstract!vars
    <2> QED BY <2>3, <2>4
  <1>7. CASE UnregisterClear(t)
    <2>1. flag[k] = "removing" /\ refs[k] = 0
      BY <1>4, <1>7 DEF UnregisterClear, SlotOwned, Removing
    <2>2. /\ flag' = [flag EXCEPT ![k] = "free"] /\ handle' = [handle EXCEPT ![k] = NoHandle]
          /\ nextHandle' = nextHandle /\ gone' = gone \cup {callHandle[t]}
      BY <1>4, <1>7 DEF UnregisterClear
    <2>3. EnabledHandles' = EnabledHandles
      BY <1>2, <2>1, <2>2, EnabledAfter
    <2>4. Inside' = Inside
      BY <1>1, <1>2, <1>3, <2>1, <2>2, InsideUnchanged
    <2>5. /\ callHandle[t] \in 1 .. nextHandle - 1
          /\ \A s \in Slots \ {k} : handle[s] # callHandle[t]
      BY <1>4, <1>7 DEF UnregisterClear, CallNames, Removing
    <2>6. callHandle[t] \notin EnabledHandles
      BY <2>1, <2>5 DEF EnabledHandles
    <2>7. \A d \in Dispatchers : Inside[d] # callHandle[t]
      BY <1>2, <1>3, <2>1, <2>5 DEF Inside, NoHandle
    <2> QED BY <2>2, <2>3, <2>4, <2>5, <2>6, <2>7 DEF Abstract!Next, Abstract!Retire, Abstract!Issued
  <1>8. CASE ~RegisterPublish(t) /\ ~UnregisterClaim(t) /\ ~UnregisterClear(t)
    <2>1. UNCHANGED <<handle, nextHandle, gone>>
      BY <1>8, SMTT(30) DEF BeginRegister, BeginUnregister, RegisterStep, RegisterClaim, RegisterPass,
                  RegisterCount, UnregisterStep, UnregisterFind, UnregisterPass, UnregisterLost,
                  UnregisterUncount, UnregisterDrained, registry, word
    <2>2. \A s \in Slots : flag'[s] = "active" <=> flag[s] = "active"
      BY <1>2, <1>8, SMTT(30) DEF BeginRegister, BeginUnregister, RegisterStep, RegisterClaim, RegisterPass,
                  RegisterCount, UnregisterStep, UnregisterFind, UnregisterPass, UnregisterLost,
                  UnregisterUncount, UnregisterDrained, registry, word
    <2>3. EnabledHandles' = EnabledHandles
      BY <2>1, <2>2 DEF EnabledHandles
    <2>4. Inside' = Inside
      BY <1>1, <2>1, InsideUnchanged
    <2> QED BY <2>1, <2>3, <2>4 DEF Abstract!vars
  <1> QED BY <1>5, <1>6, <1>7, <1>8

LEMMA DispatchStepImplements ==
  ASSUME IInv, NEW d \in Dispatchers, BeginDispatch(d) \/ DispatchStep(d)
  PROVE  [Abstract!Next]_(Abstract!vars)
  <1> USE DEF IInv
  <1>1. /\ UNCHANGED <<handle, nextHandle, gone>>
        /\ dispSlot \in [Dispatchers -> Slots] /\ dispPc \in [Dispatchers -> DispPcs]
        /\ flag \in [Slots -> Flags]
    BY DispatchStepHandles DEF TypeOK, DispatchType, RegistryType
  <1>2. PICK k \in Slots : k = dispSlot[d]
    BY <1>1
  <1>3. CASE DispatchAcquire(d)
    <2>1. /\ dispPc[d] = "scan" /\ flag[k] = "active"
          /\ UNCHANGED <<flag, dispSlot>> /\ dispPc' = [dispPc EXCEPT ![d] = "held"]
      BY <1>2, <1>3 DEF DispatchAcquire
    <2>2. EnabledHandles' = EnabledHandles /\ handle[k] \in EnabledHandles
      BY <1>1, <2>1 DEF EnabledHandles
    <2>3. Inside[d] = NoHandle /\ Inside' = [Inside EXCEPT ![d] = handle[k]]
      BY <1>1, <1>2, <2>1 DEF Inside, Holds
    <2>4. handle[k] \in 1 .. nextHandle - 1
      BY <2>1 DEF SlotHandles, Occupied
    <2> QED BY <1>1, <2>2, <2>3, <2>4 DEF Abstract!Next, Abstract!Enter, Abstract!Issued, NoHandle
  <1>4. CASE DispatchRelease(d)
    <2>1. /\ dispPc[d] = "release" /\ flag' = flag
          /\ dispPc'[d] \in {"scan", "idle"}
          /\ \A x \in Dispatchers \ {d} : dispPc'[x] = dispPc[x] /\ dispSlot'[x] = dispSlot[x]
      BY <1>1, <1>4 DEF DispatchRelease, LeaveSlot
    <2>2. EnabledHandles' = EnabledHandles
      BY <1>1, <2>1 DEF EnabledHandles
    <2>3. handle[k] # NoHandle
      <3>1. Occupied(k)
        BY <1>2, <2>1 DEF HeldOccupied
      <3>2. handle[k] \in 1 .. nextHandle - 1
        BY <3>1 DEF SlotHandles
      <3>3. nextHandle \in Nat
        BY DEF TypeOK, RegistryType, Handles
      <3> QED BY <3>2, <3>3 DEF NoHandle
    <2>4. Inside[d] = handle[k]
      BY <1>2, <2>1 DEF Inside, Holds
    <2>5. Inside' = [Inside EXCEPT ![d] = NoHandle]
      BY <1>1, <2>1 DEF Inside, Holds
    <2> QED BY <1>1, <2>2, <2>3, <2>4, <2>5 DEF Abstract!Next, Abstract!Leave, NoHandle
  <1>5. CASE DispatchDisable(d)
    <2>1. /\ dispPc[d] = "verdict" /\ UNCHANGED dispSlot
          /\ \/ flag[k] = "active" /\ flag' = [flag EXCEPT ![k] = "disabled"]
             \/ flag' = flag
          /\ \E pc \in {"uncount", "release"} : dispPc' = [dispPc EXCEPT ![d] = pc]
      BY <1>2, <1>5 DEF DispatchDisable
    <2>2. Inside' = Inside
      BY <1>1, <2>1 DEF Inside, Holds
    <2>3. CASE flag' = flag
      <3>1. EnabledHandles' = EnabledHandles
        BY <1>1, <2>3 DEF EnabledHandles
      <3> QED BY <1>1, <2>2, <3>1 DEF Abstract!vars
    <2>4. CASE flag[k] = "active" /\ flag' = [flag EXCEPT ![k] = "disabled"]
      <3>1. EnabledHandles' = EnabledHandles \ {handle[k]} /\ handle[k] \in EnabledHandles
        BY <1>1, <2>4, EnabledAfter DEF EnabledHandles
      <3>2. handle[k] \in 1 .. nextHandle - 1
        BY <2>4 DEF SlotHandles, Occupied
      <3> QED BY <1>1, <2>2, <3>1, <3>2 DEF Abstract!Next, Abstract!Withdraw, Abstract!Issued
    <2> QED BY <2>1, <2>3, <2>4
  <1>6. CASE \/ BeginDispatch(d) \/ DispatchPass(d) \/ DispatchInvoke(d) \/ CallbackReturns(d)
             \/ DispatchUncount(d)
    <2>1. flag' = flag
      BY <1>6 DEF BeginDispatch, DispatchPass, DispatchInvoke, CallbackReturns, DispatchUncount,
                  registry, word
    <2>2. EnabledHandles' = EnabledHandles
      BY <1>1, <2>1 DEF EnabledHandles
    <2>3. Inside' = Inside
      <3>1. CASE BeginDispatch(d) \/ DispatchPass(d)
        BY <1>1, <3>1 DEF BeginDispatch, DispatchPass, LeaveSlot, Inside, Holds
      <3>2. CASE DispatchInvoke(d) \/ CallbackReturns(d) \/ DispatchUncount(d)
        BY <1>1, <3>2 DEF DispatchInvoke, CallbackReturns, DispatchUncount, Inside, Holds
      <3> QED BY <1>6, <3>1, <3>2
    <2> QED BY <1>1, <2>2, <2>3 DEF Abstract!vars
  <1> QED BY <1>3, <1>4, <1>5, <1>6 DEF DispatchStep

LEMMA InitImplements == Init => Abstract!Init
  <1> SUFFICES ASSUME Init PROVE Abstract!Init
    OBVIOUS
  <1>1. EnabledHandles = {}
    BY DEF Init, EnabledHandles
  <1>2. Inside = [d \in Dispatchers |-> 0]
    BY DEF Init, Inside, Holds, NoHandle
  <1> QED BY <1>1, <1>2 DEF Init, Abstract!Init

LEMMA NextImplements == IInv /\ [Next]_vars => [Abstract!Next]_(Abstract!vars)
  <1> SUFFICES ASSUME IInv, [Next]_vars PROVE [Abstract!Next]_(Abstract!vars)
    OBVIOUS
  <1>1. ASSUME NEW c \in Clients, BeginRegister(c) \/ RegisterStep(c)
        PROVE  [Abstract!Next]_(Abstract!vars)
    <2>1. c \in Threads
      BY DEF Threads
    <2> QED BY <1>1, <2>1, CallStepImplements
  <1>2. ASSUME NEW t \in Threads, BeginUnregister(t) \/ UnregisterStep(t)
        PROVE  [Abstract!Next]_(Abstract!vars)
    BY <1>2, CallStepImplements
  <1>3. ASSUME NEW d \in Dispatchers, BeginDispatch(d) \/ DispatchStep(d)
        PROVE  [Abstract!Next]_(Abstract!vars)
    BY <1>3, DispatchStepImplements
  <1>4. CASE UNCHANGED vars
    BY <1>4 DEF vars, registry, word, dispVars, Abstract!vars, EnabledHandles, Inside, Holds
  <1> QED BY <1>1, <1>2, <1>3, <1>4 DEF Next, SelfUnregister, DispatchNothing

\* A plugin that knows only CallbackRegistry is right about the slots, words
\* and counters: every step of theirs is a step of it or changes nothing it
\* mentions.
THEOREM SpecImplementsCallbackRegistry == Spec => ImplementsCallbackRegistry
  BY InitImplements, NextImplements, SpecIInv, PTL
  DEF Spec, ImplementsCallbackRegistry, Abstract!Spec

-----------------------------------------------------------------------------
(* active_registrations.                                                   *)

Count(f, S, v) == Cardinality({x \in S : f[x] = v})
DifferAt(f, g, S, x) == \A y \in S \ {x} : g[y] = f[y]
At(f, x, v) == IF f[x] = v THEN 1 ELSE 0

\* One place of a function changes: so does the number of places with a value.
LEMMA CountChange ==
  ASSUME NEW S, IsFiniteSet(S), NEW f, NEW g, NEW x \in S, NEW v,
         DifferAt(f, g, S, x)
  PROVE  /\ Count(f, S, v) \in Nat /\ Count(g, S, v) \in Nat
         /\ Count(g, S, v) = Count(f, S, v) + At(g, x, v) - At(f, x, v)
  <1> DEFINE F == {y \in S : f[y] = v}
             G == {y \in S : g[y] = v}
  <1> USE DEF DifferAt
  <1>1. IsFiniteSet(F) /\ IsFiniteSet(G) /\ Cardinality(F) \in Nat /\ Cardinality(G) \in Nat
    BY FS_Subset, FS_CardinalityType
  <1>2. CASE f[x] = v /\ g[x] # v
    <2>1. G = F \ {x} /\ x \in F
      BY <1>2
    <2>2. Cardinality(G) = Cardinality(F) - 1
      BY <1>1, <2>1, FS_RemoveElement
    <2> QED BY <1>1, <1>2, <2>2 DEF Count, At
  <1>3. CASE f[x] # v /\ g[x] = v
    <2>1. G = F \cup {x} /\ x \notin F
      BY <1>3
    <2> QED BY <1>1, <1>3, <2>1, FS_AddElement DEF Count, At
  <1>4. CASE f[x] = v <=> g[x] = v
    <2>1. G = F
      BY <1>4
    <2> QED BY <1>1, <1>4, <2>1 DEF Count, At
  <1> QED BY <1>2, <1>3, <1>4

LEMMA FiniteActors ==
  /\ IsFiniteSet(Slots) /\ IsFiniteSet(Clients) /\ IsFiniteSet(Dispatchers) /\ IsFiniteSet(Threads)
  <1>1. IsFiniteSet(Slots)
    BY SizesAssumption, FS_Interval DEF Slots
  <1> QED BY <1>1, ThreadsAssumption, FS_Union DEF Threads

\* The counter in terms of Count.
CountsAgree ==
  active = Count(flag, Slots, "active") - Count(callPc, Clients, "reg_count")
         + Count(callPc, Threads, "unr_uncount") + Count(dispPc, Dispatchers, "uncount")

LEMMA CountsAgreeIs == CountsAgree <=> ActiveCountExact
  BY DEF CountsAgree, ActiveCountExact, Count

\* A call's step changes its own program counter and at most one slot's flag.
LEMMA CallCounts ==
  ASSUME IInv, CountsAgree, NEW t \in Threads, dispPc' = dispPc,
         DifferAt(flag, flag', Slots, callSlot[t]),
         DifferAt(callPc, callPc', Threads, t),
         t \notin Clients => callPc[t] # "reg_count" /\ callPc'[t] # "reg_count",
         active' - active =
             At(flag', callSlot[t], "active") - At(flag, callSlot[t], "active")
           - At(callPc', t, "reg_count") + At(callPc, t, "reg_count")
           + At(callPc', t, "unr_uncount") - At(callPc, t, "unr_uncount"),
         active' \in Int
  PROVE  CountsAgree'
  <1>1. callSlot[t] \in Slots /\ active \in Int
    BY DEF IInv, TypeOK, CallType, RegistryType
  <1>2. /\ Count(flag, Slots, "active") \in Nat
        /\ Count(flag', Slots, "active") = Count(flag, Slots, "active")
             + At(flag', callSlot[t], "active") - At(flag, callSlot[t], "active")
    BY <1>1, FiniteActors, CountChange
  <1>3. /\ Count(callPc, Clients, "reg_count") \in Nat
        /\ Count(callPc', Clients, "reg_count") = Count(callPc, Clients, "reg_count")
             + At(callPc', t, "reg_count") - At(callPc, t, "reg_count")
    <2>1. CASE t \in Clients
      <3>1. DifferAt(callPc, callPc', Clients, t)
        BY DEF DifferAt, Threads
      <3> QED BY <2>1, <3>1, FiniteActors, CountChange
    <2>2. CASE t \notin Clients
      <3>1. {c \in Clients : callPc'[c] = "reg_count"} = {c \in Clients : callPc[c] = "reg_count"}
        BY <2>2 DEF Threads, DifferAt
      <3>2. IsFiniteSet({c \in Clients : callPc[c] = "reg_count"})
        BY FiniteActors, FS_Subset
      <3>3. /\ Count(callPc, Clients, "reg_count") \in Nat
            /\ Count(callPc', Clients, "reg_count") = Count(callPc, Clients, "reg_count")
        BY <3>1, <3>2, FS_CardinalityType DEF Count
      <3> QED BY <2>2, <3>3 DEF At
    <2> QED BY <2>1, <2>2
  <1>4. /\ Count(callPc, Threads, "unr_uncount") \in Nat
        /\ Count(callPc', Threads, "unr_uncount") = Count(callPc, Threads, "unr_uncount")
             + At(callPc', t, "unr_uncount") - At(callPc, t, "unr_uncount")
    BY FiniteActors, CountChange
  <1>5. /\ Count(dispPc', Dispatchers, "uncount") = Count(dispPc, Dispatchers, "uncount")
        /\ Count(dispPc, Dispatchers, "uncount") \in Nat
    <2>1. IsFiniteSet({d \in Dispatchers : dispPc[d] = "uncount"})
      BY FiniteActors, FS_Subset
    <2> QED BY <2>1, FS_CardinalityType DEF Count
  <1> QED BY <1>1, <1>2, <1>3, <1>4, <1>5 DEF CountsAgree, At

\* So does a dispatcher's.
LEMMA DispatchCounts ==
  ASSUME IInv, CountsAgree, NEW d \in Dispatchers, callPc' = callPc,
         DifferAt(flag, flag', Slots, dispSlot[d]),
         DifferAt(dispPc, dispPc', Dispatchers, d),
         active' - active =
             At(flag', dispSlot[d], "active") - At(flag, dispSlot[d], "active")
           + At(dispPc', d, "uncount") - At(dispPc, d, "uncount"),
         active' \in Int
  PROVE  CountsAgree'
  <1>1. dispSlot[d] \in Slots /\ active \in Int
    BY DEF IInv, TypeOK, DispatchType, RegistryType
  <1>2. /\ Count(flag, Slots, "active") \in Nat
        /\ Count(flag', Slots, "active") = Count(flag, Slots, "active")
             + At(flag', dispSlot[d], "active") - At(flag, dispSlot[d], "active")
    BY <1>1, FiniteActors, CountChange
  <1>3. /\ Count(dispPc, Dispatchers, "uncount") \in Nat
        /\ Count(dispPc', Dispatchers, "uncount") = Count(dispPc, Dispatchers, "uncount")
             + At(dispPc', d, "uncount") - At(dispPc, d, "uncount")
    BY FiniteActors, CountChange
  <1>4. /\ Count(callPc', Clients, "reg_count") = Count(callPc, Clients, "reg_count")
        /\ Count(callPc', Threads, "unr_uncount") = Count(callPc, Threads, "unr_uncount")
        /\ Count(callPc, Clients, "reg_count") \in Nat /\ Count(callPc, Threads, "unr_uncount") \in Nat
    <2>1. /\ IsFiniteSet({c \in Clients : callPc[c] = "reg_count"})
          /\ IsFiniteSet({t \in Threads : callPc[t] = "unr_uncount"})
      BY FiniteActors, FS_Subset
    <2> QED BY <2>1, FS_CardinalityType DEF Count
  <1> QED BY <1>1, <1>2, <1>3, <1>4 DEF CountsAgree, At

LEMMA CountsAgreeInit == Init => CountsAgree
  <1> SUFFICES ASSUME Init PROVE CountsAgree
    OBVIOUS
  <1>1. /\ {s \in Slots : flag[s] = "active"} = {} /\ {c \in Clients : callPc[c] = "reg_count"} = {}
        /\ {t \in Threads : callPc[t] = "unr_uncount"} = {}
        /\ {d \in Dispatchers : dispPc[d] = "uncount"} = {}
    BY DEF Init, Threads
  <1>2. active = 0
    BY DEF Init
  <1> HIDE DEF Init
  <1>3. Cardinality({}) = 0
    BY FS_EmptySet
  <1> QED BY <1>1, <1>2, <1>3 DEF CountsAgree, Count

LEMMA CountsAgreeNext ==
  ASSUME IInv, CountsAgree, [Next]_vars
  PROVE  CountsAgree'
  <1> USE DEF DifferAt, At
  <1>1. /\ flag \in [Slots -> Flags] /\ active \in Int /\ callSlot \in [Threads -> Slots]
        /\ callPc \in [Threads -> CallPcs] /\ dispPc \in [Dispatchers -> DispPcs]
        /\ dispSlot \in [Dispatchers -> Slots] /\ Clients \subseteq Threads
    BY DEF IInv, TypeOK, RegistryType, CallType, DispatchType, Threads
  <1>2. ASSUME NEW c \in Clients, BeginRegister(c) \/ RegisterStep(c)
        PROVE  CountsAgree'
    <2>1. \A t \in Threads : callPc[t] = "reg_publish" => flag[callSlot[t]] = "writing"
      BY DEF IInv, SlotOwned
    <2>2. PICK k \in Slots : k = callSlot[c]
      BY <1>1
    <2> SUFFICES /\ dispPc' = dispPc /\ DifferAt(flag, flag', Slots, k)
                 /\ DifferAt(callPc, callPc', Threads, c)
                 /\ active' - active = At(flag', k, "active") - At(flag, k, "active")
                      - At(callPc', c, "reg_count") + At(callPc, c, "reg_count")
                      + At(callPc', c, "unr_uncount") - At(callPc, c, "unr_uncount")
                 /\ active' \in Int
      BY <1>1, <2>2, CallCounts
    <2>3. CASE BeginRegister(c) \/ RegisterPass(c)
      BY <1>1, <2>3 DEF BeginRegister, RegisterPass, CallGoes, CallNextSlot, CallReturns, registry,
                        word, dispVars
    <2>4. CASE RegisterClaim(c)
      BY <1>1, <2>2, <2>4 DEF RegisterClaim, CallGoes, dispVars
    <2>5. CASE RegisterPublish(c)
      BY <1>1, <2>1, <2>2, <2>5 DEF RegisterPublish, dispVars
    <2>6. CASE RegisterCount(c)
      BY <1>1, <2>6 DEF RegisterCount, CallReturns, word, dispVars
    <2> QED BY <1>2, <2>3, <2>4, <2>5, <2>6 DEF RegisterStep
  <1>3. ASSUME NEW t \in Threads, BeginUnregister(t) \/ UnregisterStep(t)
        PROVE  CountsAgree'
    <2>2. PICK k \in Slots : k = callSlot[t]
      BY <1>1
    <2> SUFFICES /\ dispPc' = dispPc /\ DifferAt(flag, flag', Slots, k)
                 /\ DifferAt(callPc, callPc', Threads, t)
                 /\ callPc[t] # "reg_count" /\ callPc'[t] # "reg_count"
                 /\ active' - active = At(flag', k, "active") - At(flag, k, "active")
                      + At(callPc', t, "unr_uncount") - At(callPc, t, "unr_uncount")
                 /\ active' \in Int
      <3>1. CASE callPc[t] # "reg_count" /\ callPc'[t] # "reg_count"
        <4>1. At(callPc', t, "reg_count") = 0 /\ At(callPc, t, "reg_count") = 0
          BY <3>1 DEF At
        <4>2. /\ At(flag', k, "active") \in Int /\ At(flag, k, "active") \in Int
              /\ At(callPc', t, "unr_uncount") \in Int /\ At(callPc, t, "unr_uncount") \in Int
          BY DEF At
        <4>3. PICK a \in Int, b \in Int, c \in Int, e \in Int :
                 /\ a = At(flag', k, "active") /\ b = At(flag, k, "active")
                 /\ c = At(callPc', t, "unr_uncount") /\ e = At(callPc, t, "unr_uncount")
          BY <4>2
        <4>4. active' - active = a - b + c - e
          BY <4>3
        <4>5. active' - active = a - b - 0 + 0 + c - e
          BY <4>4
        <4>6. active' - active =
                  At(flag', callSlot[t], "active") - At(flag, callSlot[t], "active")
                - At(callPc', t, "reg_count") + At(callPc, t, "reg_count")
                + At(callPc', t, "unr_uncount") - At(callPc, t, "unr_uncount")
          BY <2>2, <4>1, <4>3, <4>5
        <4>7. DifferAt(flag, flag', Slots, callSlot[t])
          BY <2>2
        <4> QED BY <1>1, <3>1, <4>6, <4>7, CallCounts
      <3> QED BY <3>1
    <2>3. CASE \/ BeginUnregister(t) \/ UnregisterFind(t) \/ UnregisterPass(t) \/ UnregisterLost(t)
               \/ UnregisterDrained(t)
      BY <1>1, <2>3 DEF BeginUnregister, UnregisterFind, UnregisterPass, UnregisterLost,
            UnregisterDrained, CallGoes, CallNextSlot, CallReturns, registry, word, dispVars
    <2>4. CASE UnregisterClaim(t)
      BY <1>1, <2>2, <2>4 DEF UnregisterClaim, CallGoes, dispVars
    <2>5. CASE UnregisterUncount(t)
      BY <1>1, <2>5 DEF UnregisterUncount, CallGoes, word, dispVars
    <2>6. CASE UnregisterClear(t)
      <3>1. flag[k] = "removing"
        BY <2>2, <2>6 DEF UnregisterClear, Removing, SlotOwned, IInv
      <3> QED BY <1>1, <2>2, <2>6, <3>1 DEF UnregisterClear, CallReturns, dispVars
    <2> QED BY <1>3, <2>3, <2>4, <2>5, <2>6 DEF UnregisterStep
  <1>4. ASSUME NEW d \in Dispatchers, DispatchNothing(d) \/ BeginDispatch(d) \/ DispatchStep(d)
        PROVE  CountsAgree'
    <2>2. PICK k \in Slots : k = dispSlot[d]
      BY <1>1
    <2> SUFFICES /\ callPc' = callPc /\ DifferAt(flag, flag', Slots, k)
                 /\ DifferAt(dispPc, dispPc', Dispatchers, d)
                 /\ active' - active = At(flag', k, "active") - At(flag, k, "active")
                      + At(dispPc', d, "uncount") - At(dispPc, d, "uncount")
                 /\ active' \in Int
      BY <1>1, <2>2, DispatchCounts
    <2>3. CASE DispatchNothing(d) \/ BeginDispatch(d)
      BY <1>1, <2>3 DEF DispatchNothing, BeginDispatch, vars, registry, word, callVars, dispVars
    <2>4. CASE DispatchPass(d) \/ DispatchAcquire(d) \/ DispatchInvoke(d) \/ DispatchRelease(d)
      BY <1>1, <2>4 DEF DispatchPass, DispatchAcquire, DispatchInvoke, DispatchRelease, LeaveSlot,
                        registry, word, callVars
    <2>5. CASE CallbackReturns(d)
      <3>1. PICK pc \in {"release", "verdict"} : dispPc' = [dispPc EXCEPT ![d] = pc]
        BY <2>5 DEF CallbackReturns
      <3> QED BY <1>1, <2>5, <3>1 DEF CallbackReturns, registry, word, callVars
    <2>6. CASE DispatchDisable(d)
      BY <1>1, <2>2, <2>6 DEF DispatchDisable, callVars
    <2>7. CASE DispatchUncount(d)
      BY <1>1, <2>7 DEF DispatchUncount, word, callVars
    <2> QED BY <1>4, <2>3, <2>4, <2>5, <2>6, <2>7 DEF DispatchStep
  <1>5. CASE UNCHANGED vars \/ \E d \in Dispatchers : SelfUnregister(d)
    BY <1>5 DEF CountsAgree, vars, registry, word, dispVars, callVars, SelfUnregister
  <1> QED BY <1>2, <1>3, <1>4, <1>5 DEF Next

\* active_registrations is the number of active slots but for the changes that
\* threads have yet to count.
THEOREM SpecActiveCountExact == Spec => []ActiveCountExact
  <1>1. Init => CountsAgree
    BY CountsAgreeInit
  <1>2. IInv /\ CountsAgree /\ [Next]_vars => CountsAgree'
    BY CountsAgreeNext
  <1>3. CountsAgree <=> ActiveCountExact
    BY CountsAgreeIs
  <1> QED BY <1>1, <1>2, <1>3, SpecIInv, PTL DEF Spec

-----------------------------------------------------------------------------
(* Frames, fresh handles, slots in use.                                    *)

LEMMA TypeFacts ==
  ASSUME IInv
  PROVE  /\ flag \in [Slots -> Flags] /\ handle \in [Slots -> Handles \cup {NoHandle}]
         /\ nextHandle \in Handles /\ known \subseteq Handles /\ gone \subseteq Handles
         /\ callPc \in [Threads -> CallPcs] /\ callSlot \in [Threads -> Slots]
         /\ callHandle \in [Threads -> Handles \cup {NoHandle}]
         /\ dispPc \in [Dispatchers -> DispPcs] /\ dispSlot \in [Dispatchers -> Slots]
         /\ dispHandle \in [Dispatchers -> Handles \cup {NoHandle}]
         /\ due \in [Dispatchers -> SUBSET Handles]
         /\ Clients \subseteq Threads /\ Dispatchers \subseteq Threads
         /\ \A c \in Clients : c \notin Dispatchers
  BY ThreadsAssumption DEF IInv, TypeOK, RegistryType, CallType, DispatchType, HistoryType, Threads

LEMMA CallStepFrames ==
  ASSUME IInv, FrameInv, NEW t \in Threads,
         \/ t \in Clients /\ (BeginRegister(t) \/ RegisterStep(t))
         \/ BeginUnregister(t) \/ UnregisterStep(t)
  PROVE  CallFrames'
  <1> USE TypeFacts DEF FrameInv, CallFrames, Unregisters
  <1>1. CASE t \in Clients /\ (BeginRegister(t) \/ RegisterClaim(t) \/ RegisterPass(t))
    BY <1>1 DEF BeginRegister, RegisterClaim, RegisterPass, CallGoes, CallNextSlot, CallReturns,
                registry, dispVars
  <1>2. CASE t \in Clients /\ (RegisterPublish(t) \/ RegisterCount(t))
    BY <1>2 DEF RegisterPublish, RegisterCount, CallReturns, dispVars
  <1>3. CASE BeginUnregister(t)
    <2> PICK h \in known :
          /\ t \in Dispatchers => dispPc[t] = "running" /\ dispHandle[t] # h
          /\ callPc' = [callPc EXCEPT ![t] = "unr_scan"]
          /\ callHandle' = [callHandle EXCEPT ![t] = h]
          /\ callPc[t] = "idle" /\ UNCHANGED <<callSlot, registry, dispVars, known, gone>>
      BY <1>3 DEF BeginUnregister
    <2> QED BY DEF dispVars
  <1>4. CASE UnregisterFind(t) \/ UnregisterPass(t) \/ UnregisterLost(t) \/ UnregisterDrained(t)
    BY <1>4 DEF UnregisterFind, UnregisterPass, UnregisterLost, UnregisterDrained,
                CallGoes, CallNextSlot, CallReturns, dispVars
  <1>5. CASE UnregisterClaim(t) \/ UnregisterUncount(t) \/ UnregisterClear(t)
    BY <1>5 DEF UnregisterClaim, UnregisterUncount, UnregisterClear, CallGoes, CallReturns, dispVars
  <1> QED BY <1>1, <1>2, <1>3, <1>4, <1>5 DEF RegisterStep, UnregisterStep

LEMMA CallStepFresh ==
  ASSUME IInv, FrameInv, NEW t \in Threads,
         \/ t \in Clients /\ (BeginRegister(t) \/ RegisterStep(t))
         \/ BeginUnregister(t) \/ UnregisterStep(t)
  PROVE  HandlesFresh'
  <1> USE TypeFacts DEF FrameInv, HandlesFresh, Handles
  <1>1. \A c \in Clients : callPc[c] = "reg_count" => callHandle[c] \in 1 .. nextHandle - 1
    BY DEF IInv, CallNames
  <1>2. CASE t \in Clients /\ (BeginRegister(t) \/ RegisterClaim(t) \/ RegisterPass(t))
    BY <1>2 DEF BeginRegister, RegisterClaim, RegisterPass, CallGoes, CallNextSlot, CallReturns,
                registry
  <1>3. CASE t \in Clients /\ RegisterPublish(t)
    BY <1>1, <1>3 DEF RegisterPublish
  <1>4. CASE t \in Clients /\ RegisterCount(t)
    BY <1>1, <1>4 DEF RegisterCount, CallReturns
  <1>5. CASE BeginUnregister(t)
    BY <1>5 DEF BeginUnregister, registry
  <1>6. CASE UnregisterFind(t) \/ UnregisterPass(t) \/ UnregisterLost(t) \/ UnregisterDrained(t)
    BY <1>6 DEF UnregisterFind, UnregisterPass, UnregisterLost, UnregisterDrained,
                CallGoes, CallNextSlot, CallReturns, registry
  <1>7. CASE UnregisterClaim(t)
    BY <1>7 DEF UnregisterClaim, CallGoes
  <1>8. CASE UnregisterUncount(t)
    BY <1>8 DEF UnregisterUncount, CallGoes
  <1>9. CASE UnregisterClear(t)
    BY <1>9 DEF UnregisterClear, CallReturns
  <1> QED BY <1>2, <1>3, <1>4, <1>5, <1>6, <1>7, <1>8, <1>9 DEF RegisterStep, UnregisterStep

LEMMA CallStepInUse ==
  ASSUME IInv, FrameInv, NEW t \in Threads,
         \/ t \in Clients /\ (BeginRegister(t) \/ RegisterStep(t))
         \/ BeginUnregister(t) \/ UnregisterStep(t)
  PROVE  SlotsInUse'
  <1> USE TypeFacts DEF FrameInv, SlotsInUse, Occupied, Removing
  <1>1. CASE t \in Clients /\ (BeginRegister(t) \/ RegisterPass(t))
    BY <1>1 DEF BeginRegister, RegisterPass, CallGoes, CallNextSlot, CallReturns, registry, word
  <1>2. CASE t \in Clients /\ RegisterClaim(t)
    BY <1>2 DEF RegisterClaim, CallGoes
  <1>3. CASE t \in Clients /\ RegisterPublish(t)
    BY <1>3 DEF RegisterPublish
  <1>4. CASE t \in Clients /\ RegisterCount(t)
    BY <1>4 DEF RegisterCount, CallReturns, word
  <1>5. CASE BeginUnregister(t)
    BY <1>5 DEF BeginUnregister, registry, word
  <1>6. CASE UnregisterFind(t) \/ UnregisterPass(t) \/ UnregisterLost(t) \/ UnregisterDrained(t)
    BY <1>6 DEF UnregisterFind, UnregisterPass, UnregisterLost, UnregisterDrained,
                CallGoes, CallNextSlot, CallReturns, registry, word
  <1>7. CASE UnregisterClaim(t) \/ UnregisterUncount(t)
    BY <1>7 DEF UnregisterClaim, UnregisterUncount, CallGoes, word
  <1>8. CASE UnregisterClear(t)
    <2> SUFFICES ASSUME NEW s \in Slots, s # callSlot[t]
                 PROVE  /\ flag[s] = "writing" =>
                             \E c \in Clients : callPc'[c] = "reg_publish" /\ callSlot'[c] = s
                        /\ flag[s] = "removing" => \E u \in Threads : Removing(u)' /\ callSlot'[u] = s
                        /\ Occupied(s) =>
                             \/ handle[s] \in known
                             \/ \E c \in Clients : callPc'[c] = "reg_count" /\ callHandle'[c] = handle[s]
      BY <1>8 DEF UnregisterClear
    <2>1. callPc[t] = "unr_clear"
      BY <1>8 DEF UnregisterClear
    <2>2. \A u \in Threads \ {t} :
            callPc'[u] = callPc[u] /\ callSlot'[u] = callSlot[u] /\ callHandle'[u] = callHandle[u]
      BY <1>8 DEF UnregisterClear, CallReturns
    <2> QED BY <2>1, <2>2
  <1> QED BY <1>1, <1>2, <1>3, <1>4, <1>5, <1>6, <1>7, <1>8 DEF RegisterStep, UnregisterStep

LEMMA CallStepDue ==
  ASSUME IInv, FrameInv, NEW t \in Threads,
         \/ t \in Clients /\ (BeginRegister(t) \/ RegisterStep(t))
         \/ BeginUnregister(t) \/ UnregisterStep(t)
  PROVE  DueIsAhead'
  <1> USE TypeFacts DEF FrameInv, DueIsAhead, Handles
  <1>1. CASE t \in Clients /\ (BeginRegister(t) \/ RegisterPass(t))
    BY <1>1 DEF BeginRegister, RegisterPass, registry, word, dispVars
  <1>2. CASE t \in Clients /\ RegisterClaim(t)
    BY <1>2 DEF RegisterClaim, dispVars
  <1>3. CASE t \in Clients /\ RegisterPublish(t)
    BY <1>3 DEF RegisterPublish, dispVars, HandlesFresh
  <1>4. CASE t \in Clients /\ RegisterCount(t)
    BY <1>4 DEF RegisterCount, word, dispVars
  <1>5. CASE BeginUnregister(t)
    BY <1>5 DEF BeginUnregister, registry, word, dispVars
  <1>6. CASE UnregisterFind(t) \/ UnregisterPass(t) \/ UnregisterLost(t) \/ UnregisterDrained(t)
    BY <1>6 DEF UnregisterFind, UnregisterPass, UnregisterLost, UnregisterDrained, registry, word,
                dispVars
  <1>7. CASE UnregisterClaim(t) \/ UnregisterUncount(t) \/ UnregisterClear(t)
    BY <1>7 DEF UnregisterClaim, UnregisterUncount, UnregisterClear, word, dispVars
  <1> QED BY <1>1, <1>2, <1>3, <1>4, <1>5, <1>6, <1>7 DEF RegisterStep, UnregisterStep

\* A dispatcher's step leaves the calls and the handles alone and disables at
\* most its own slot.
LEMMA DispatchStepFrames ==
  ASSUME IInv, FrameInv, NEW d \in Dispatchers,
         DispatchNothing(d) \/ BeginDispatch(d) \/ DispatchStep(d)
  PROVE  CallFrames' /\ HandlesFresh' /\ SlotsInUse'
  <1> USE TypeFacts DEF FrameInv
  <1>1. /\ UNCHANGED <<callPc, callSlot, callHandle, handle, nextHandle, known, gone>>
        /\ flag' = flag \/ (dispPc[d] = "verdict" /\ flag[dispSlot[d]] = "active"
                            /\ flag' = [flag EXCEPT ![dispSlot[d]] = "disabled"])
    BY DEF DispatchNothing, BeginDispatch, DispatchStep, DispatchPass, DispatchAcquire,
           DispatchInvoke, CallbackReturns, DispatchDisable, DispatchUncount, DispatchRelease,
           vars, registry, word, callVars
  <1>2. CallFrames'
    <2>1. \A e \in Dispatchers : callPc[e] # "idle" =>
            dispPc'[e] = dispPc[e] /\ dispHandle'[e] = dispHandle[e]
      BY DEF CallFrames, DispatchNothing, BeginDispatch, DispatchStep, DispatchPass,
             DispatchAcquire, DispatchInvoke, CallbackReturns, DispatchDisable, DispatchUncount,
             DispatchRelease, LeaveSlot, vars, dispVars
    <2> QED BY <1>1, <2>1 DEF CallFrames, Unregisters
  <1>3. HandlesFresh'
    BY <1>1 DEF HandlesFresh
  <1>4. SlotsInUse'
    BY <1>1 DEF SlotsInUse, Occupied, Removing
  <1> QED BY <1>2, <1>3, <1>4

\* Dispatcher d goes on to the next slot or is done, and no other moves.
Leaves(d) ==
  /\ \A e \in Dispatchers \ {d} :
       due'[e] = due[e] /\ dispPc'[e] = dispPc[e] /\ dispSlot'[e] = dispSlot[e]
  /\ IF dispSlot[d] < SlotCount
     THEN dispPc'[d] = "scan" /\ dispSlot'[d] = dispSlot[d] + 1
     ELSE dispPc'[d] = "idle" /\ dispSlot'[d] = 1

\* What leaving a slot does, in full.
LEMMA LeaveSlotIs ==
  ASSUME IInv, NEW d \in Dispatchers, NEW excused, LeaveSlot(d, excused)
  PROVE  due'[d] = due[d] \ excused /\ Leaves(d)
  BY TypeFacts DEF LeaveSlot, Leaves

\* A dispatcher passes a callback it has still to run only when it runs it or
\* finds its slot saturated.
LEMMA DispatchStepDue ==
  ASSUME IInv, FrameInv, NEW d \in Dispatchers,
         DispatchNothing(d) \/ BeginDispatch(d) \/ DispatchStep(d)
  PROVE  DueIsAhead'
  <1> USE TypeFacts DEF FrameInv, DueIsAhead
  <1>1. CASE DispatchNothing(d)
    BY <1>1 DEF DispatchNothing, vars, registry, word, dispVars
  <1>2. CASE BeginDispatch(d)
    <2>1. dispSlot[d] = 1
      BY <1>2 DEF BeginDispatch
    <2> QED BY <1>2, <2>1 DEF BeginDispatch, registry, word, Live, Slots
  <1>3. CASE DispatchPass(d)
    <2>1. /\ dispPc[d] = "scan" /\ LeaveSlot(d, Saturated(d)) /\ UNCHANGED <<flag, handle, known>>
          /\ flag[dispSlot[d]] = "active" => handle[dispSlot[d]] \in Saturated(d)
      BY <1>3 DEF DispatchPass, Saturated, registry, word
    <2>2. due'[d] = due[d] \ Saturated(d) /\ Leaves(d)
      BY <2>1, LeaveSlotIs
    <2>3. due'[d] \subseteq due[d]
      BY <2>2
    <2>4. \A h \in due'[d] : flag[dispSlot[d]] = "active" => handle[dispSlot[d]] # h
      BY <2>1, <2>2
    <2>5. ASSUME NEW e \in Dispatchers, e # d
          PROVE  dispPc'[e] = dispPc[e] /\ dispSlot'[e] = dispSlot[e] /\ due'[e] = due[e]
      BY <2>2, <2>5 DEF Leaves
    <2>6. ASSUME NEW h \in due'[d], NEW s \in Slots, flag[s] = "active", handle[s] = h
          PROVE  s > dispSlot[d]
      BY <2>1, <2>3, <2>4, <2>6
    <2>7. dispPc'[d] = "idle" => dispSlot'[d] = 1
      BY <2>2 DEF Leaves
    <2>8. dispPc'[d] # "idle" => dispPc'[d] = "scan" /\ dispSlot'[d] = dispSlot[d] + 1
      BY <2>2 DEF Leaves
    <2>9. due'[d] \subseteq known
      BY <2>3
    <2>10. ASSUME NEW h \in due'[d], NEW s \in Slots, flag[s] = "active", handle[s] = h,
                  dispPc'[d] # "idle"
           PROVE  s > dispSlot'[d] \/ (s = dispSlot'[d] /\ dispPc'[d] \in {"scan", "held"})
      BY <2>6, <2>8, <2>10 DEF Slots
    <2> QED BY <2>1, <2>5, <2>7, <2>9, <2>10
  <1>4. CASE DispatchAcquire(d)
    BY <1>4 DEF DispatchAcquire
  <1>5. CASE DispatchInvoke(d)
    BY <1>5 DEF DispatchInvoke, registry, word
  <1>6. CASE CallbackReturns(d)
    BY <1>6 DEF CallbackReturns, registry, word
  <1>7. CASE DispatchDisable(d)
    BY <1>7 DEF DispatchDisable
  <1>8. CASE DispatchUncount(d)
    BY <1>8 DEF DispatchUncount, word
  <1>9. CASE DispatchRelease(d)
    <2>1. dispPc[d] = "release" /\ LeaveSlot(d, {}) /\ UNCHANGED <<flag, handle, known>>
      BY <1>9 DEF DispatchRelease
    <2>2. due'[d] = due[d] \ {} /\ Leaves(d)
      BY <2>1, LeaveSlotIs
    <2>3. due'[d] = due[d]
      BY <2>2
    <2>4. ASSUME NEW e \in Dispatchers, e # d
          PROVE  dispPc'[e] = dispPc[e] /\ dispSlot'[e] = dispSlot[e] /\ due'[e] = due[e]
      BY <2>2, <2>4 DEF Leaves
    <2>5. dispPc'[d] = "idle" => dispSlot'[d] = 1
      BY <2>2 DEF Leaves
    <2>6. dispPc'[d] # "idle" => dispPc'[d] = "scan" /\ dispSlot'[d] = dispSlot[d] + 1
      BY <2>2 DEF Leaves
    <2>7. ASSUME NEW h \in due'[d], NEW s \in Slots, flag[s] = "active", handle[s] = h
          PROVE  s > dispSlot[d]
      BY <2>1, <2>3, <2>7
    <2>8. ASSUME NEW h \in due'[d], NEW s \in Slots, flag[s] = "active", handle[s] = h,
                 dispPc'[d] # "idle"
          PROVE  s > dispSlot'[d] \/ (s = dispSlot'[d] /\ dispPc'[d] \in {"scan", "held"})
      BY <2>6, <2>7, <2>8 DEF Slots
    <2> QED BY <2>1, <2>3, <2>4, <2>5, <2>8
  <1> QED BY <1>1, <1>2, <1>3, <1>4, <1>5, <1>6, <1>7, <1>8, <1>9 DEF DispatchStep

LEMMA FrameInvInit == Init => FrameInv
  BY DEF Init, FrameInv, CallFrames, HandlesFresh, SlotsInUse, DueIsAhead, Unregisters, Occupied,
         Threads, Slots

LEMMA FrameInvNext == IInv /\ FrameInv /\ [Next]_vars => FrameInv'
  <1> SUFFICES ASSUME IInv, FrameInv, [Next]_vars PROVE FrameInv'
    OBVIOUS
  <1>1. ASSUME NEW c \in Clients, BeginRegister(c) \/ RegisterStep(c) PROVE FrameInv'
    BY <1>1, TypeFacts, CallStepFrames, CallStepFresh, CallStepInUse, CallStepDue DEF FrameInv
  <1>2. ASSUME NEW t \in Threads, BeginUnregister(t) \/ UnregisterStep(t) PROVE FrameInv'
    BY <1>2, CallStepFrames, CallStepFresh, CallStepInUse, CallStepDue DEF FrameInv
  <1>3. ASSUME NEW d \in Dispatchers, DispatchNothing(d) \/ BeginDispatch(d) \/ DispatchStep(d)
        PROVE  FrameInv'
    BY <1>3, DispatchStepFrames, DispatchStepDue DEF FrameInv
  <1>4. CASE UNCHANGED vars \/ \E d \in Dispatchers : SelfUnregister(d)
    <2>1. /\ UNCHANGED <<flag, handle, nextHandle, known, due>>
          /\ UNCHANGED <<dispPc, dispSlot, dispHandle, callPc, callSlot, callHandle>>
      BY <1>4 DEF vars, registry, word, dispVars, callVars, SelfUnregister
    <2>2. CallFrames' /\ HandlesFresh'
      BY <2>1 DEF FrameInv, CallFrames, HandlesFresh, Unregisters
    <2>3. SlotsInUse'
      BY <2>1 DEF FrameInv, SlotsInUse, Occupied, Removing
    <2>4. DueIsAhead'
      BY <2>1 DEF FrameInv, DueIsAhead
    <2> QED BY <2>2, <2>3, <2>4 DEF FrameInv
  <1> QED BY <1>1, <1>2, <1>3, <1>4 DEF Next

LEMMA SpecFrameInv == Spec => []FrameInv
  BY FrameInvInit, FrameInvNext, SpecIInv, PTL DEF Spec

\* A dispatch that ends has run every callback that was live throughout, but
\* for one whose count was saturated.
THEOREM SpecEveryLiveCallbackRuns == Spec => EveryLiveCallbackRuns
  <1>1. ASSUME IInv, FrameInv, [Next]_vars, NEW d \in Dispatchers,
               dispPc[d] # "idle", dispPc'[d] = "idle"
        PROVE  due'[d] \cap Live' = {}
    <2> USE TypeFacts
    <2>1. DispatchPass(d) \/ DispatchRelease(d)
      <3>1. PICK e \in Dispatchers : DispatchStep(e) \/ BeginDispatch(e)
        <4>1. dispPc' # dispPc
          BY <1>1
        <4>2. ~ \E t \in Threads : \/ t \in Clients /\ (BeginRegister(t) \/ RegisterStep(t))
                                 \/ BeginUnregister(t) \/ UnregisterStep(t)
          BY <4>1, <1>1, CallStepRefs DEF dispVars, IInv
        <4> QED BY <1>1, <4>1, <4>2 DEF Next, SelfUnregister, DispatchNothing, vars, dispVars
      <3>2. e = d
        BY <1>1, <3>1, LeaveSlotIs DEF Leaves, DispatchStep, BeginDispatch, DispatchPass, DispatchAcquire,
             DispatchInvoke, CallbackReturns, DispatchDisable, DispatchUncount, DispatchRelease
      <3> QED BY <1>1, <3>1, <3>2 DEF DispatchStep, BeginDispatch, DispatchAcquire, DispatchInvoke,
             CallbackReturns, DispatchDisable, DispatchUncount
    <2>2. /\ \/ /\ dispPc[d] = "scan" /\ LeaveSlot(d, Saturated(d))
                /\ flag[dispSlot[d]] = "active" => handle[dispSlot[d]] \in Saturated(d)
             \/ dispPc[d] = "release" /\ LeaveSlot(d, {})
          /\ UNCHANGED <<flag, handle, known>>
      BY <2>1 DEF DispatchPass, DispatchRelease, Saturated, registry, word
    <2>3. dispSlot[d] = SlotCount
      BY <1>1, <2>2, LeaveSlotIs, SizesAssumption DEF Slots, Leaves
    <2>4. ASSUME NEW h \in due'[d], NEW s \in Slots, flag[s] = "active", handle[s] = h PROVE FALSE
      <3>1. CASE dispPc[d] = "scan"
        <4>0. LeaveSlot(d, Saturated(d))
          BY <2>2, <3>1
        <4>1. due'[d] = due[d] \ Saturated(d)
          BY <1>1, <4>0, LeaveSlotIs
        <4>2. s = dispSlot[d]
          BY <1>1, <2>3, <2>4, <4>1 DEF FrameInv, DueIsAhead, Slots
        <4> QED BY <2>2, <2>4, <3>1, <4>1, <4>2
      <3>2. CASE dispPc[d] = "release"
        <4>0. LeaveSlot(d, {})
          BY <2>2, <3>2
        <4>1. due'[d] = due[d] \ {}
          BY <1>1, <4>0, LeaveSlotIs
        <4>2. h \in due[d]
          BY <2>4, <4>1
        <4>3. s > dispSlot[d]
          BY <1>1, <2>4, <3>2, <4>2 DEF FrameInv, DueIsAhead
        <4> QED BY <2>3, <2>4, <4>3, SizesAssumption DEF Slots
      <3> QED BY <2>2, <3>1, <3>2
    <2> QED BY <2>2, <2>4 DEF Live
  <1>2. IInv /\ FrameInv /\ [Next]_vars =>
          [\A d \in Dispatchers :
             dispPc[d] # "idle" /\ dispPc'[d] = "idle" => due'[d] \cap Live' = {}]_vars
    BY <1>1
  <1> QED BY <1>2, SpecIInv, SpecFrameInv, PTL DEF Spec, EveryLiveCallbackRuns

-----------------------------------------------------------------------------
(* Slots and calls when nothing registers while calls race for a handle.   *)

\* No call's frame but t's changes.
OthersStay(t) ==
  \A u \in Threads \ {t} :
    callPc'[u] = callPc[u] /\ callSlot'[u] = callSlot[u] /\ callHandle'[u] = callHandle[u]

\* A step that makes no new race keeps the registering calls out of one.
RaceStaysCalm ==
  \/ \A c \in Clients : callPc'[c] \notin {"reg_scan", "reg_publish"}
  \/ ~Racing'
  \/ /\ Racing' => Racing
     /\ \A c \in Clients : callPc'[c] \in {"reg_scan", "reg_publish"} =>
          \E b \in Clients : callPc[b] \in {"reg_scan", "reg_publish"}

LEMMA RaceIsCalmNext == RaceIsCalm /\ RaceStaysCalm => RaceIsCalm'
  BY DEF RaceIsCalm, RaceStaysCalm

LEMMA BeginRegisterCalm ==
  ASSUME NoReuseInRace, IInv, FrameInv, CalmInv, NEW c \in Clients, BeginRegister(c)
  PROVE  CalmInv'
  <1> USE TypeFacts DEF CalmInv
  <1>1. /\ UNCHANGED <<flag, handle, known, gone, callSlot, callHandle>>
        /\ callPc[c] = "idle" /\ callPc' = [callPc EXCEPT ![c] = "reg_scan"] /\ ~Racing
    BY DEF BeginRegister, CallGoes, registry, word
  <1>2. RaceStaysCalm
    BY <1>1 DEF RaceStaysCalm, Racing
  <1>3. RaceIsCalm'
    BY <1>2, RaceIsCalmNext
  <1>4. FoundIsNamed'
    BY <1>1 DEF FoundIsNamed, Occupied
  <1>5. RemovesOnlyNamed'
    BY <1>1 DEF RemovesOnlyNamed, Removing
  <1>6. NoneIsLost'
    BY <1>1 DEF NoneIsLost, Occupied
  <1>7. SearchIsAhead'
    BY <1>1 DEF SearchIsAhead, Removing
  <1> QED BY <1>3, <1>4, <1>5, <1>6, <1>7

LEMMA RegisterClaimCalm ==
  ASSUME NoReuseInRace, IInv, FrameInv, CalmInv, NEW c \in Clients, RegisterClaim(c)
  PROVE  CalmInv'
  <1> USE TypeFacts DEF CalmInv
  <1>1. /\ UNCHANGED <<handle, known, gone, callSlot, callHandle>>
        /\ callPc[c] = "reg_scan" /\ callPc' = [callPc EXCEPT ![c] = "reg_publish"]
        /\ flag[callSlot[c]] = "free" /\ flag' = [flag EXCEPT ![callSlot[c]] = "writing"]
    BY DEF RegisterClaim, CallGoes
  <1>2. ~Racing
    BY <1>1 DEF RaceIsCalm
  <1>3. RaceIsCalm'
    <2>1. RaceStaysCalm
      BY <1>1, <1>2 DEF RaceStaysCalm, Racing
    <2> QED BY <2>1, RaceIsCalmNext
  <1>4. FoundIsNamed'
    <2>1. ASSUME NEW t \in Threads, callPc[t] = "unr_claim"
          PROVE  Occupied(callSlot[t]) /\ handle[callSlot[t]] = callHandle[t]
      BY <1>2, <2>1 DEF FoundIsNamed, Racing
    <2>2. \A s \in Slots : Occupied(s) => Occupied(s)'
      BY <1>1 DEF Occupied
    <2> QED BY <1>1, <2>1, <2>2 DEF FoundIsNamed
  <1>5. RemovesOnlyNamed'
    BY <1>1 DEF RemovesOnlyNamed, Removing
  <1>6. NoneIsLost'
    BY <1>1 DEF NoneIsLost, Occupied
  <1>7. SearchIsAhead'
    BY <1>1 DEF SearchIsAhead, Removing
  <1> QED BY <1>3, <1>4, <1>5, <1>6, <1>7

\* Steps that only move a call along: on to the next slot, back to its caller,
\* or to its next program counter.
LEMMA WalkCalm ==
  ASSUME NoReuseInRace, IInv, FrameInv, CalmInv, NEW t \in Threads,
         \/ t \in Clients /\ RegisterPass(t)
         \/ UnregisterFind(t) \/ UnregisterPass(t) \/ UnregisterLost(t)
         \/ UnregisterUncount(t) \/ UnregisterDrained(t)
  PROVE  CalmInv'
  <1> USE TypeFacts DEF CalmInv
  <1>1. UNCHANGED <<flag, handle, known, gone>> /\ OthersStay(t)
    BY DEF RegisterPass, UnregisterFind, UnregisterPass, UnregisterLost, UnregisterUncount,
           UnregisterDrained, CallGoes, CallReturns, CallNextSlot, registry, word, OthersStay
  <1>2. \/ callHandle'[t] = callHandle[t] \/ callHandle'[t] = NoHandle
    BY DEF RegisterPass, UnregisterFind, UnregisterPass, UnregisterLost, UnregisterUncount,
           UnregisterDrained, CallGoes, CallReturns, CallNextSlot
  <1>3. callPc'[t] = "unr_claim" =>
          /\ callSlot'[t] = callSlot[t] /\ flag[callSlot[t]] \in {"active", "disabled"}
          /\ handle[callSlot[t]] = callHandle'[t]
    BY DEF RegisterPass, UnregisterFind, UnregisterPass, UnregisterLost, UnregisterUncount,
           UnregisterDrained, CallGoes, CallReturns, CallNextSlot
  <1>4. callPc'[t] \in {"reg_scan", "reg_publish"} => callPc[t] = callPc'[t]
    BY DEF RegisterPass, UnregisterFind, UnregisterPass, UnregisterLost, UnregisterUncount,
           UnregisterDrained, CallGoes, CallReturns, CallNextSlot
  <1>5. /\ Removing(t)' <=> Removing(t)
        /\ Removing(t) => callSlot'[t] = callSlot[t] /\ callHandle'[t] = callHandle[t]
    BY DEF Removing, RegisterPass, UnregisterFind, UnregisterPass, UnregisterLost,
           UnregisterUncount, UnregisterDrained, CallGoes, CallReturns, CallNextSlot
  <1>6. callPc'[t] # "reg_count"
    BY DEF RegisterPass, UnregisterFind, UnregisterPass, UnregisterLost,
           UnregisterUncount, UnregisterDrained, CallGoes, CallReturns, CallNextSlot
  <1>7. callPc'[t] = "unr_scan" =>
          /\ callPc[t] = "unr_scan" /\ callHandle'[t] = callHandle[t]
          /\ callSlot'[t] = callSlot[t] + 1
          /\ ~(flag[callSlot[t]] \in {"active", "disabled"} /\ handle[callSlot[t]] = callHandle[t])
    BY DEF RegisterPass, UnregisterFind, UnregisterPass, UnregisterLost,
           UnregisterUncount, UnregisterDrained, CallGoes, CallReturns, CallNextSlot
  <1>8. RaceIsCalm'
    <2>1. NoHandle \notin known
      BY DEF NoHandle, Handles
    <2>2. callPc'[t] = "unr_claim" => callHandle'[t] \notin gone
      BY <1>3 DEF IInv, SlotHandles, Occupied
    <2>3. Racing' => Racing
      BY <1>1, <1>2, <2>1, <2>2 DEF Racing, OthersStay
    <2>4. RaceStaysCalm
      BY <1>1, <1>4, <2>3 DEF RaceStaysCalm, OthersStay, Threads
    <2> QED BY <2>4, RaceIsCalmNext
  <1>9. FoundIsNamed'
    BY <1>1, <1>3 DEF FoundIsNamed, Occupied, OthersStay
  <1>10. RemovesOnlyNamed'
    BY <1>1, <1>5 DEF RemovesOnlyNamed, Removing, OthersStay
  <1>11. NoneIsLost'
    BY <1>1, <1>6 DEF NoneIsLost, Occupied, OthersStay, Threads
  <1>12. SearchIsAhead'
    <2>1. ASSUME NEW u \in Threads, callPc'[u] = "unr_scan"
          PROVE  /\ callPc[u] = "unr_scan" /\ callHandle'[u] = callHandle[u]
                 /\ \A s \in Slots :
                      (/\ flag[s] \in {"active", "disabled"}
                       /\ handle[s] = callHandle[u] /\ s >= callSlot[u])
                      => s >= callSlot'[u]
      BY <1>1, <1>7, <2>1 DEF OthersStay, Slots
    <2>2. \A u \in Threads : Removing(u) => Removing(u)' /\ callSlot'[u] = callSlot[u]
      BY <1>1, <1>5 DEF OthersStay, Removing
    <2> QED BY <1>1, <2>1, <2>2 DEF SearchIsAhead
  <1> QED BY <1>8, <1>9, <1>10, <1>11, <1>12

LEMMA RegisterPublishCalm ==
  ASSUME NoReuseInRace, IInv, FrameInv, CalmInv, NEW c \in Clients, RegisterPublish(c)
  PROVE  CalmInv'
  <1> USE TypeFacts DEF CalmInv
  <1>1. /\ UNCHANGED <<known, gone, callSlot>>
        /\ callPc[c] = "reg_publish" /\ callPc' = [callPc EXCEPT ![c] = "reg_count"]
        /\ callHandle' = [callHandle EXCEPT ![c] = nextHandle]
        /\ handle' = [handle EXCEPT ![callSlot[c]] = nextHandle]
        /\ flag' = [flag EXCEPT ![callSlot[c]] = "active"]
    BY DEF RegisterPublish
  <1>2. flag[callSlot[c]] = "writing" /\ nextHandle \notin known
    <2>1. flag[callSlot[c]] = "writing"
      BY <1>1 DEF IInv, SlotOwned, Threads
    <2>2. nextHandle \notin 1 .. nextHandle - 1
      BY DEF Handles
    <2> QED BY <2>1, <2>2 DEF FrameInv, HandlesFresh
  <1>3. RaceIsCalm'
    <2>1. Racing' => Racing
      BY <1>1, <1>2 DEF Racing
    <2>2. RaceStaysCalm
      BY <1>1, <2>1 DEF RaceStaysCalm
    <2> QED BY <2>2, RaceIsCalmNext
  <1>4. FoundIsNamed'
    BY <1>1, <1>2 DEF FoundIsNamed, Occupied
  <1>5. \A u \in Threads : Removing(u)' => Removing(u) /\ callSlot[u] # callSlot[c]
    BY <1>1, <1>2 DEF IInv, SlotOwned, Removing
  <1>6. RemovesOnlyNamed'
    BY <1>1, <1>5 DEF RemovesOnlyNamed, Removing
  <1>7. NoneIsLost'
    BY <1>1, <1>2 DEF NoneIsLost, Occupied
  <1>8. SearchIsAhead'
    <2>1. ASSUME NEW u \in Threads, Removing(u)
          PROVE  Removing(u)' /\ handle'[callSlot'[u]] = handle[callSlot[u]]
      BY <1>1, <1>2, <2>1 DEF IInv, SlotOwned, Removing
    <2>2. ASSUME NEW u \in Threads, callPc'[u] = "unr_scan"
          PROVE  callPc[u] = "unr_scan" /\ callHandle'[u] = callHandle[u]
      BY <1>1, <2>2
    <2>3. \A s \in Slots : flag[s] \in {"active", "disabled"} =>
            flag'[s] = flag[s] /\ handle'[s] = handle[s]
      BY <1>1, <1>2
    <2> QED BY <1>1, <2>1, <2>2, <2>3 DEF SearchIsAhead
  <1> QED BY <1>3, <1>4, <1>6, <1>7, <1>8

LEMMA RegisterCountCalm ==
  ASSUME NoReuseInRace, IInv, FrameInv, CalmInv, NEW c \in Clients, RegisterCount(c)
  PROVE  CalmInv'
  <1> USE TypeFacts DEF CalmInv
  <1>1. /\ UNCHANGED <<flag, handle, gone>> /\ OthersStay(c)
        /\ callPc[c] = "reg_count" /\ callPc'[c] = "idle"
        /\ known' = known \cup {callHandle[c]} /\ callHandle'[c] = NoHandle
    BY DEF RegisterCount, CallReturns, word, OthersStay
  <1>2. \A u \in Threads \ {c} : callHandle[u] # callHandle[c]
    <2>1. callHandle[c] \notin known /\ callHandle[c] # NoHandle
      BY <1>1 DEF IInv, CallNames, FrameInv, HandlesFresh, NoHandle, Threads
    <2>2. ASSUME NEW u \in Threads, u # c, callPc[u] = "reg_count" PROVE callHandle[u] # callHandle[c]
      <3>1. u \in Clients
        BY <2>2 DEF FrameInv, CallFrames, Unregisters, Threads
      <3> QED BY <1>1, <2>2, <3>1 DEF FrameInv, HandlesFresh
    <2>3. ASSUME NEW u \in Threads, callPc[u] # "reg_count" PROVE callHandle[u] # callHandle[c]
      BY <2>1, <2>3 DEF FrameInv, CallFrames, Unregisters, CallPcs
    <2> QED BY <2>2, <2>3
  <1>3. RaceIsCalm'
    <2>1. NoHandle \notin known'
      BY <1>1 DEF NoHandle, Handles, IInv, CallNames, Threads
    <2>2. Racing' => Racing
      BY <1>1, <1>2, <2>1 DEF Racing, OthersStay
    <2>3. RaceStaysCalm
      BY <1>1, <2>2 DEF RaceStaysCalm, OthersStay, Threads
    <2> QED BY <2>3, RaceIsCalmNext
  <1>4. FoundIsNamed'
    BY <1>1 DEF FoundIsNamed, Occupied, OthersStay
  <1>5. RemovesOnlyNamed'
    BY <1>1 DEF RemovesOnlyNamed, Removing, OthersStay
  <1>6. NoneIsLost'
    BY <1>1 DEF NoneIsLost, Occupied, OthersStay, Threads
  <1>7. SearchIsAhead'
    BY <1>1 DEF SearchIsAhead, Removing, OthersStay
  <1> QED BY <1>3, <1>4, <1>5, <1>6, <1>7

LEMMA BeginUnregisterCalm ==
  ASSUME NoReuseInRace, IInv, FrameInv, CalmInv, NEW t \in Threads, BeginUnregister(t)
  PROVE  CalmInv'
  <1> USE TypeFacts DEF CalmInv
  <1>1. PICK h \in known :
          /\ callPc[t] = "idle" /\ MayUnregister(h)
          /\ callPc' = [callPc EXCEPT ![t] = "unr_scan"]
          /\ callHandle' = [callHandle EXCEPT ![t] = h]
          /\ UNCHANGED <<callSlot, flag, handle, known, gone>>
    BY DEF BeginUnregister, registry, word
  <1>2. RaceIsCalm'
    <2>1. CASE \E u \in Threads : callHandle[u] = h
      BY <1>1, <2>1 DEF MayUnregister, RaceIsCalm
    <2>2. CASE ~ \E u \in Threads : callHandle[u] = h
      <3>1. Racing' => Racing
        BY <1>1, <2>2 DEF Racing
      <3>2. RaceStaysCalm
        BY <1>1, <3>1 DEF RaceStaysCalm
      <3> QED BY <3>2, RaceIsCalmNext
    <2> QED BY <2>1, <2>2
  <1>3. FoundIsNamed'
    BY <1>1 DEF FoundIsNamed, Occupied
  <1>4. RemovesOnlyNamed'
    BY <1>1 DEF RemovesOnlyNamed, Removing
  <1>5. NoneIsLost'
    BY <1>1 DEF NoneIsLost, Occupied
  <1>6. SearchIsAhead'
    <2>1. \A u \in Threads : Removing(u) => Removing(u)' /\ u # t
      BY <1>1 DEF Removing
    <2>2. \/ h \in gone
          \/ \E u \in Threads : Removing(u) /\ handle[callSlot[u]] = h
          \/ \E s \in Slots : s >= 1 /\ flag[s] \in {"active", "disabled"} /\ handle[s] = h
      BY <1>1 DEF NoneIsLost, FrameInv, SlotsInUse, Occupied, Slots
    <2>3. callSlot[t] = 1
      BY <1>1 DEF FrameInv, CallFrames
    <2> QED BY <1>1, <2>1, <2>2, <2>3 DEF SearchIsAhead
  <1> QED BY <1>2, <1>3, <1>4, <1>5, <1>6

LEMMA UnregisterClaimCalm ==
  ASSUME NoReuseInRace, IInv, FrameInv, CalmInv, NEW t \in Threads, UnregisterClaim(t)
  PROVE  CalmInv'
  <1> USE TypeFacts DEF CalmInv
  <1>1. /\ UNCHANGED <<handle, known, gone, callSlot, callHandle>> /\ OthersStay(t)
        /\ callPc[t] = "unr_claim" /\ callPc'[t] \in {"unr_uncount", "unr_drain"}
        /\ flag[callSlot[t]] \in {"active", "disabled"}
        /\ flag' = [flag EXCEPT ![callSlot[t]] = "removing"]
    BY DEF UnregisterClaim, CallGoes, OthersStay
  <1>2. handle[callSlot[t]] = callHandle[t]
    BY <1>1 DEF FoundIsNamed
  <1>3. \A s \in Slots : Occupied(s)' <=> Occupied(s)
    BY <1>1 DEF Occupied
  <1>4. RaceIsCalm'
    <2>1. Racing' => Racing
      BY <1>1 DEF Racing, OthersStay
    <2>2. RaceStaysCalm
      BY <1>1, <2>1 DEF RaceStaysCalm, OthersStay, Threads
    <2> QED BY <2>2, RaceIsCalmNext
  <1>5. FoundIsNamed'
    BY <1>1, <1>3 DEF FoundIsNamed, OthersStay
  <1>6. RemovesOnlyNamed'
    BY <1>1, <1>2 DEF RemovesOnlyNamed, Removing, OthersStay
  <1>7. NoneIsLost'
    BY <1>1, <1>3 DEF NoneIsLost, OthersStay, Threads
  <1>8. SearchIsAhead'
    <2>1. \A u \in Threads : Removing(u) => Removing(u)'
      BY <1>1 DEF Removing, OthersStay
    <2>2. Removing(t)'
      BY <1>1 DEF Removing
    <2>3. ASSUME NEW u \in Threads, callPc'[u] = "unr_scan"
          PROVE  u # t /\ callPc[u] = "unr_scan"
      BY <1>1, <2>3 DEF OthersStay
    <2>4. \A s \in Slots \ {callSlot[t]} : flag'[s] = flag[s]
      BY <1>1
    <2> QED BY <1>1, <2>1, <2>2, <2>3, <2>4 DEF SearchIsAhead
  <1> QED BY <1>4, <1>5, <1>6, <1>7, <1>8

LEMMA UnregisterClearCalm ==
  ASSUME NoReuseInRace, IInv, FrameInv, CalmInv, NEW t \in Threads, UnregisterClear(t)
  PROVE  CalmInv'
  <1> USE TypeFacts DEF CalmInv
  <1> DEFINE here == callSlot[t]
  <1>1. /\ UNCHANGED known /\ OthersStay(t)
        /\ callPc[t] = "unr_clear" /\ callPc'[t] = "idle" /\ callHandle'[t] = NoHandle
        /\ handle' = [handle EXCEPT ![here] = NoHandle]
        /\ flag' = [flag EXCEPT ![here] = "free"]
        /\ gone' = gone \cup {callHandle[t]}
    BY DEF UnregisterClear, CallReturns, OthersStay
  <1>2. /\ handle[here] = callHandle[t] /\ flag[here] = "removing"
        /\ \A u \in Threads : Removing(u) /\ u # t => callSlot[u] # here
    BY <1>1 DEF RemovesOnlyNamed, Removing, IInv, SlotOwned, Owns
  <1>3. \A s \in Slots \ {here} :
          flag'[s] = flag[s] /\ handle'[s] = handle[s] /\ (Occupied(s)' <=> Occupied(s))
    BY <1>1 DEF Occupied
  <1>4. RaceIsCalm'
    <2>1. callHandle[t] \in known /\ NoHandle \notin known
      BY <1>1 DEF FrameInv, CallFrames, Unregisters, NoHandle, Handles
    <2>2. Racing' => Racing
      BY <1>1, <2>1 DEF Racing, OthersStay
    <2>3. RaceStaysCalm
      BY <1>1, <2>2 DEF RaceStaysCalm, OthersStay, Threads
    <2> QED BY <2>3, RaceIsCalmNext
  <1>5. FoundIsNamed'
    <2>1. ASSUME NEW u \in Threads, callPc'[u] = "unr_claim"
          PROVE  /\ callPc[u] = "unr_claim" /\ u # t
                 /\ callSlot'[u] = callSlot[u] /\ callHandle'[u] = callHandle[u]
      BY <1>1, <2>1 DEF OthersStay
    <2>2. flag'[here] = "free"
      BY <1>1
    <2> QED BY <1>1, <1>2, <1>3, <2>1, <2>2 DEF FoundIsNamed
  <1>6. RemovesOnlyNamed'
    <2>1. ASSUME NEW u \in Threads, Removing(u)'
          PROVE  /\ Removing(u) /\ callSlot[u] # here
                 /\ callSlot'[u] = callSlot[u] /\ callHandle'[u] = callHandle[u]
      BY <1>1, <1>2, <2>1 DEF OthersStay, Removing
    <2> QED BY <1>3, <2>1 DEF RemovesOnlyNamed
  <1>7. NoneIsLost'
    <2>1. ASSUME NEW c \in Clients, callPc'[c] = "reg_count"
          PROVE  callPc[c] = "reg_count" /\ callHandle'[c] = callHandle[c]
      BY <1>1, <2>1 DEF OthersStay, Threads
    <2> QED BY <1>1, <1>2, <1>3, <2>1 DEF NoneIsLost
  <1>8. SearchIsAhead'
    <2>1. ASSUME NEW u \in Threads, callPc'[u] = "unr_scan"
          PROVE  /\ callPc[u] = "unr_scan"
                 /\ callSlot'[u] = callSlot[u] /\ callHandle'[u] = callHandle[u]
      BY <1>1, <2>1 DEF OthersStay
    <2>2. ASSUME NEW u \in Threads, Removing(u), u # t
          PROVE  Removing(u)' /\ handle'[callSlot'[u]] = handle[callSlot[u]]
      BY <1>1, <1>2, <1>3, <2>2 DEF OthersStay, Removing
    <2> QED BY <1>1, <1>2, <1>3, <2>1, <2>2 DEF SearchIsAhead
  <1> QED BY <1>4, <1>5, <1>6, <1>7, <1>8

LEMMA DispatchCalm ==
  ASSUME NoReuseInRace, IInv, FrameInv, CalmInv,
         \/ UNCHANGED vars
         \/ \E d \in Dispatchers :
              SelfUnregister(d) \/ DispatchNothing(d) \/ BeginDispatch(d) \/ DispatchStep(d)
  PROVE  CalmInv'
  <1> USE TypeFacts DEF CalmInv
  <1>1. /\ UNCHANGED <<callPc, callSlot, callHandle, handle, known, gone>>
        /\ \/ flag' = flag
           \/ \E s \in Slots : flag[s] = "active" /\ flag' = [flag EXCEPT ![s] = "disabled"]
    BY DEF SelfUnregister, DispatchNothing, BeginDispatch, DispatchStep, DispatchPass,
           DispatchAcquire, DispatchInvoke, CallbackReturns, DispatchDisable, DispatchUncount,
           DispatchRelease, vars, registry, word, callVars
  <1>2. \A s \in Slots :
          /\ Occupied(s)' <=> Occupied(s)
          /\ (flag'[s] = "free") <=> (flag[s] = "free")
          /\ (flag'[s] \in {"active", "disabled"}) <=> (flag[s] \in {"active", "disabled"})
    <2>1. CASE flag' = flag
      BY <2>1 DEF Occupied
    <2>2. ASSUME NEW r \in Slots, flag[r] = "active", flag' = [flag EXCEPT ![r] = "disabled"],
                 NEW s \in Slots
          PROVE  /\ Occupied(s)' <=> Occupied(s)
                 /\ (flag'[s] = "free") <=> (flag[s] = "free")
                 /\ (flag'[s] \in {"active", "disabled"}) <=> (flag[s] \in {"active", "disabled"})
      <3>1. CASE s = r
        BY <2>2, <3>1 DEF Occupied
      <3>2. CASE s # r
        BY <2>2, <3>2 DEF Occupied
      <3> QED BY <3>1, <3>2
    <2> QED BY <1>1, <2>1, <2>2
  <1>3. RaceIsCalm' /\ RemovesOnlyNamed'
    BY <1>1 DEF RaceIsCalm, Racing, RemovesOnlyNamed, Removing
  <1>4. FoundIsNamed'
    BY <1>1, <1>2 DEF FoundIsNamed, Occupied
  <1>5. NoneIsLost'
    BY <1>1, <1>2 DEF NoneIsLost, Occupied
  <1>6. SearchIsAhead'
    BY <1>1, <1>2 DEF SearchIsAhead, Removing
  <1> QED BY <1>3, <1>4, <1>5, <1>6

LEMMA CalmInvInit == Init => CalmInv
  BY DEF Init, CalmInv, RaceIsCalm, FoundIsNamed, RemovesOnlyNamed, NoneIsLost, SearchIsAhead,
         Removing, Threads

LEMMA CalmInvNext == ASSUME NoReuseInRace PROVE IInv /\ FrameInv /\ CalmInv /\ [Next]_vars => CalmInv'
  <1> SUFFICES ASSUME IInv, FrameInv, CalmInv, [Next]_vars PROVE CalmInv'
    OBVIOUS
  <1>1. ASSUME NEW c \in Clients, BeginRegister(c) \/ RegisterStep(c) PROVE CalmInv'
    <2>1. c \in Threads
      BY DEF Threads
    <2> QED BY <1>1, <2>1, BeginRegisterCalm, RegisterClaimCalm, WalkCalm, RegisterPublishCalm,
               RegisterCountCalm DEF RegisterStep
  <1>2. ASSUME NEW t \in Threads, BeginUnregister(t) \/ UnregisterStep(t) PROVE CalmInv'
    BY <1>2, BeginUnregisterCalm, WalkCalm, UnregisterClaimCalm, UnregisterClearCalm
       DEF UnregisterStep
  <1>3. CASE \/ UNCHANGED vars
             \/ \E d \in Dispatchers :
                  SelfUnregister(d) \/ DispatchNothing(d) \/ BeginDispatch(d) \/ DispatchStep(d)
    BY <1>3, DispatchCalm
  <1> QED BY <1>1, <1>2, <1>3 DEF Next

LEMMA SpecCalmInv == ASSUME NoReuseInRace PROVE Spec => []CalmInv
  BY CalmInvInit, CalmInvNext, SpecIInv, SpecFrameInv, PTL DEF Spec

\* Slots, counter and handles agree whoever registers, disables and unregisters
\* at once: no slot is lost, and an idle registry holds what was handed out and
\* not yet unregistered.
THEOREM SpecSlotsAreExact == ASSUME NoReuseInRace PROVE Spec => []SlotsAreExact
  <1>1. ASSUME IInv, FrameInv, CalmInv PROVE NoLeakedSlot
    <2> SUFFICES ASSUME \A t \in Threads : callPc[t] = "idle" 
                 PROVE  /\ {handle[s] : s \in {x \in Slots : flag[x] # "free"}} = known \ gone
                        /\ \A s \in Slots : flag[s] = "free" <=> handle[s] = NoHandle
      BY DEF NoLeakedSlot
    <2> USE <1>1, TypeFacts
    <2>1. ~ \E t \in Threads : callPc[t] \in {"reg_publish", "reg_count"} \/ Removing(t)
      BY DEF Removing
    <2>2. \A s \in Slots : flag[s] # "free" <=> Occupied(s)
      BY <2>1 DEF FrameInv, SlotsInUse, Occupied, Flags, Threads
    <2>3. \A s \in Slots : Occupied(s) => handle[s] \in known \ gone /\ handle[s] # NoHandle
      BY <2>1 DEF IInv, SlotHandles, FrameInv, SlotsInUse, Threads, NoHandle
    <2>4. \A s \in Slots : ~Occupied(s) => handle[s] = NoHandle
      BY DEF IInv, SlotHandles
    <2>5. \A h \in known \ gone : \E s \in Slots : Occupied(s) /\ handle[s] = h
      BY DEF CalmInv, NoneIsLost
    <2> QED BY <2>2, <2>3, <2>4, <2>5
  <1>2. IInv => TypeOK
    BY DEF IInv
  <1> QED BY <1>1, <1>2, SpecIInv, SpecFrameInv, SpecCalmInv, SpecActiveCountExact, PTL
             DEF SlotsAreExact

\* Unregister takes away the registration it was called for and no other, never
\* waits for its own thread, and misses none.
THEOREM SpecUnregisterIsExact == ASSUME NoReuseInRace PROVE Spec => UnregisterIsExact
  <1>1. ASSUME IInv, FrameInv, RemovesOnlyNamed
        PROVE  \A d \in Dispatchers : Removing(d) => ~Holds(d, callSlot[d])
    <2> SUFFICES ASSUME NEW d \in Dispatchers, Removing(d), Holds(d, callSlot[d]) PROVE FALSE
      OBVIOUS
    <2>1. d \in Threads /\ callPc[d] # "idle"
      BY DEF Threads, Removing
    <2>2. dispPc[d] = "running" /\ dispHandle[d] # callHandle[d] /\ dispSlot[d] = callSlot[d]
      BY <1>1, <2>1 DEF FrameInv, CallFrames, Holds
    <2> QED BY <1>1, <2>1, <2>2 DEF IInv, HeldOccupied, RemovesOnlyNamed
  <1>2. ASSUME IInv, CalmInv, [Next]_vars, NEW t \in Threads,
               callPc[t] = "unr_scan", callPc'[t] = "idle"
        PROVE  \/ callHandle[t] \in gone
               \/ \E u \in Threads : Removing(u) /\ handle[callSlot[u]] = callHandle[t]
    <2> USE TypeFacts
    <2>1. UnregisterPass(t)
      BY <1>2 DEF Next, vars, callVars, BeginRegister, RegisterStep, RegisterClaim, RegisterPass,
           RegisterPublish, RegisterCount, BeginUnregister, UnregisterStep, UnregisterFind,
           UnregisterPass, UnregisterClaim, UnregisterLost, UnregisterUncount, UnregisterDrained,
           UnregisterClear, SelfUnregister, DispatchNothing, BeginDispatch, DispatchStep,
           DispatchPass, DispatchAcquire, DispatchInvoke, CallbackReturns, DispatchDisable,
           DispatchUncount, DispatchRelease, CallGoes, CallReturns, CallNextSlot, Threads
    <2>2. /\ callSlot[t] = SlotCount
          /\ ~(flag[callSlot[t]] \in {"active", "disabled"} /\ handle[callSlot[t]] = callHandle[t])
      BY <1>2, <2>1 DEF UnregisterPass, CallNextSlot
    <2>3. ~ \E s \in Slots :
             s >= callSlot[t] /\ flag[s] \in {"active", "disabled"} /\ handle[s] = callHandle[t]
      BY <2>2, SizesAssumption DEF Slots
    <2> QED BY <1>2, <2>3 DEF CalmInv, SearchIsAhead
  <1>3. IInv' /\ FrameInv' /\ CalmInv' => /\ RemovesOnlyNamed'
                                        /\ \A d \in Dispatchers : (Removing(d) => ~Holds(d, callSlot[d]))'
    <2> SUFFICES ASSUME IInv', FrameInv', CalmInv'
                 PROVE  RemovesOnlyNamed' /\ (\A d \in Dispatchers : Removing(d) => ~Holds(d, callSlot[d]))'
      OBVIOUS
    <2>1. (IInv /\ FrameInv /\ RemovesOnlyNamed
             => \A d \in Dispatchers : Removing(d) => ~Holds(d, callSlot[d]))'
      BY <1>1, PTL
    <2> QED BY <2>1 DEF CalmInv
  <1>4. IInv /\ FrameInv /\ CalmInv /\ IInv' /\ FrameInv' /\ CalmInv' /\ [Next]_vars =>
          [/\ RemovesOnlyNamed'
           /\ \A d \in Dispatchers : (Removing(d) => ~Holds(d, callSlot[d]))'
           /\ \A t \in Threads :
                callPc[t] = "unr_scan" /\ callPc'[t] = "idle" =>
                  \/ callHandle[t] \in gone
                  \/ \E u \in Threads : Removing(u) /\ handle[callSlot[u]] = callHandle[t]]_vars
    BY <1>2, <1>3
  <1> QED BY <1>4, SpecIInv, SpecFrameInv, SpecCalmInv, PTL DEF Spec, UnregisterIsExact

-----------------------------------------------------------------------------
(***************************************************************************)
(* The plugin loader and the interest plugin: who is there.                *)
(***************************************************************************)

LEMMA Line ==
  /\ Len(Plugins) \in Nat /\ DOMAIN Plugins = 1 .. Len(Plugins) /\ Len(Plugins) >= 1
  /\ \A i \in DOMAIN Plugins : Plugins[i] \in Names
  /\ \A p \in Names : \E i \in DOMAIN Plugins : p = Plugins[i]
  /\ \A i, j \in DOMAIN Plugins : Plugins[i] = Plugins[j] => i = j
  <1>1. Len(Plugins) \in Nat /\ DOMAIN Plugins = 1 .. Len(Plugins)
    BY PluginLoaderAssumption, LenProperties
  <1>2. /\ \A i \in DOMAIN Plugins : Plugins[i] \in Names
        /\ \A p \in Names : \E i \in DOMAIN Plugins : p = Plugins[i]
    BY DEF Names, ToSet
  <1>3. \A i, j \in DOMAIN Plugins : Plugins[i] = Plugins[j] => i = j
    BY PluginLoaderAssumption DEF IsInjective
  <1>4. Len(Plugins) >= 1
    BY <1>1, <1>2, FixAssumption
  <1> QED BY <1>1, <1>2, <1>3, <1>4

LEMMA FailInOrder ==
  ASSUME LoaderInOrder, Fail, NEW n \in Nat \ {0}, n <= Len(Plugins) + 1,
         \A i \in DOMAIN Plugins : i < n <=> plug[Plugins[i]] = "started",
         plug' \in [Names -> PlugStates],
         \A i \in DOMAIN Plugins : IF i < n THEN plug'[Plugins[i]] = "started" ELSE plug'[Plugins[i]] \in Gone
  PROVE  LoaderInOrder'
  <1>1. Started = 1 .. n - 1
    BY Line DEF Started
  <1>2. CASE n = 1
    <2>1. loader' = [at |-> "failed", next |-> 0]
      BY <1>1, <1>2 DEF Fail
    <2> QED BY <1>2, <2>1, Line DEF LoaderInOrder, Ahead
  <1>3. CASE n # 1
    <2>1. Max(Started) = n - 1
      <3>1. n - 1 \in Started /\ \A i \in Started : n - 1 >= i
        BY <1>1, <1>3
      <3> QED BY <1>1, <3>1 DEF Max
    <2>2. loader' = [at |-> "unload", next |-> n - 1]
      BY <1>1, <1>3, <2>1 DEF Fail
    <2>3. n - 1 \in DOMAIN Plugins /\ plug'[Plugins[n - 1]] = "started"
      BY <1>3, Line
    <2> QED BY <1>3, <2>2, <2>3, Line DEF LoaderInOrder, Ahead, Behind, Here
  <1> QED BY <1>2, <1>3

LEMMA HereIs ==
  ASSUME LoaderInOrder, loader.next \in DOMAIN Plugins, NEW state \in PlugStates,
         plug' = [plug EXCEPT ![Here] = state]
  PROVE  /\ plug' \in [Names -> PlugStates] /\ plug'[Here] = state
         /\ \A i \in DOMAIN Plugins : i # loader.next => plug'[Plugins[i]] = plug[Plugins[i]]
  <1>1. /\ plug \in [Names -> PlugStates] /\ Here = Plugins[loader.next] /\ Here \in Names
        /\ \A i \in DOMAIN Plugins : i # loader.next => Plugins[i] # Here /\ Plugins[i] \in Names
    BY Line DEF LoaderInOrder, Here
  <1> QED BY <1>1

\* The plugin that is being loaded or unloaded is the one the loader is at.
LEMMA BusyIsHere ==
  ASSUME LoaderInOrder, NEW p \in Names, plug[p] \in {"loading", "unloading"}
  PROVE  /\ loader.next \in DOMAIN Plugins /\ p = Here
         /\ plug[p] = "loading" => loader.at = "load"
         /\ plug[p] = "unloading" => loader.at \in {"cleanup", "unload"}
  <1>1. PICK i \in DOMAIN Plugins : p = Plugins[i]
    BY Line
  <1>2. loader.next \in Int /\ i \in Nat /\ i >= 1 /\ i < Len(Plugins) + 1
    BY Line DEF LoaderInOrder
  <1>3. loader.at \in {"load", "cleanup", "unload"}
    <2>1. CASE loader.at \in {"identity", "hooks", "manifests"}
      BY <1>1, <1>2, <2>1 DEF LoaderInOrder, Ahead
    <2>2. CASE loader.at \in {"discover", "create"}
      BY <1>1, <1>2, <2>2 DEF LoaderInOrder, Ahead, Behind
    <2>3. CASE loader.at = "failed"
      BY <1>1, <1>2, <2>3 DEF LoaderInOrder, Ahead, Gone
    <2>4. CASE loader.at = "loaded"
      BY <1>1, <1>2, <2>4 DEF LoaderInOrder, Behind
    <2> QED BY <2>1, <2>2, <2>3, <2>4 DEF LoaderInOrder
  <1>4. i = loader.next
    BY <1>1, <1>2, <1>3 DEF LoaderInOrder, Ahead, Behind, Gone
  <1> QED BY <1>1, <1>3, <1>4 DEF LoaderInOrder, Here

LEMMA LoaderInitInOrder == LoaderInit => LoaderInOrder
  BY Line DEF LoaderInit, LoaderInOrder, Ahead, PlugStates

LEMMA ValidateInOrder == LoaderInOrder /\ Validate => LoaderInOrder'
  <1> SUFFICES ASSUME LoaderInOrder, Validate PROVE LoaderInOrder'
    OBVIOUS
  <1>1. loader.at = "identity" /\ loader.next = 1 /\ plug' = plug /\ Ahead(0, {"absent"})
    BY DEF Validate, LoaderInOrder
  <1>2. CASE Goto("hooks")
    <2>1. loader'.at = "hooks" /\ loader'.next = 1 /\ loader' = [at |-> "hooks", next |-> 1]
      BY <1>1, <1>2 DEF LoaderInOrder, Goto
    <2> QED BY <1>1, <2>1 DEF LoaderInOrder, Ahead
  <1>3. CASE Fail
    BY <1>1, <1>3, Line, FailInOrder DEF LoaderInOrder, Ahead, Gone
  <1> QED BY <1>2, <1>3 DEF Validate

LEMMA InstallHooksInOrder == LoaderInOrder /\ InstallHooks => LoaderInOrder'
  <1> SUFFICES ASSUME LoaderInOrder, InstallHooks PROVE LoaderInOrder'
    OBVIOUS
  <1>1. loader.at = "hooks" /\ loader.next = 1 /\ plug' = plug /\ Ahead(0, {"absent"})
    BY DEF InstallHooks, LoaderInOrder
  <1>2. CASE Goto("manifests")
    <2>1. loader' = [at |-> "manifests", next |-> 1]
      BY <1>1, <1>2 DEF LoaderInOrder, Goto
    <2> QED BY <1>1, <2>1 DEF LoaderInOrder, Ahead
  <1>3. CASE Fail
    BY <1>1, <1>3, Line, FailInOrder DEF LoaderInOrder, Ahead, Gone
  <1> QED BY <1>2, <1>3 DEF InstallHooks

LEMMA ReadManifestsInOrder == LoaderInOrder /\ ReadPluginManifests => LoaderInOrder'
  <1> SUFFICES ASSUME LoaderInOrder, ReadPluginManifests PROVE LoaderInOrder'
    OBVIOUS
  <1>1. loader.at = "manifests" /\ loader.next = 1 /\ plug' = plug /\ Ahead(0, {"absent"})
    BY DEF ReadPluginManifests, LoaderInOrder
  <1>2. CASE Goto(IF Plugins = <<>> THEN "loaded" ELSE "discover")
    <2>0. Plugins # <<>>
      BY Line
    <2>1. loader' = [at |-> "discover", next |-> 1]
      BY <1>1, <1>2, <2>0 DEF LoaderInOrder, Goto
    <2> QED BY <1>1, <2>1, Line DEF LoaderInOrder, Ahead, Behind
  <1>3. CASE Fail
    BY <1>1, <1>3, Line, FailInOrder DEF LoaderInOrder, Ahead, Gone
  <1> QED BY <1>2, <1>3 DEF ReadPluginManifests

\* The plugins before the one at hand are started, those from it on absent.
LEMMA HalfWay ==
  ASSUME LoaderInOrder, loader.at \in {"discover", "create"}
  PROVE  /\ loader.next \in Nat \ {0} /\ loader.next <= Len(Plugins) /\ loader.next \in DOMAIN Plugins
         /\ \A i \in DOMAIN Plugins : IF i < loader.next THEN plug[Plugins[i]] = "started"
                                      ELSE plug[Plugins[i]] = "absent"
  BY Line DEF LoaderInOrder, Ahead, Behind

LEMMA DiscoverInOrder == LoaderInOrder /\ Discover => LoaderInOrder'
  <1> SUFFICES ASSUME LoaderInOrder, Discover PROVE LoaderInOrder'
    OBVIOUS
  <1>1. loader.at = "discover" /\ plug' = plug
    BY DEF Discover
  <1>2. CASE Goto("create")
    <2>1. loader' = [at |-> "create", next |-> loader.next]
      BY <1>1, <1>2 DEF LoaderInOrder, Goto
    <2> QED BY <1>1, <2>1 DEF LoaderInOrder, Ahead, Behind
  <1>3. CASE Fail
    BY <1>1, <1>3, HalfWay, FailInOrder DEF LoaderInOrder, Gone
  <1> QED BY <1>2, <1>3 DEF Discover

LEMMA CreateInOrder == LoaderInOrder /\ Create => LoaderInOrder'
  <1> SUFFICES ASSUME LoaderInOrder, Create PROVE LoaderInOrder'
    OBVIOUS
  <1>1. loader.at = "create"
    BY DEF Create
  <1>2. CASE plug' = [plug EXCEPT ![Here] = "loading"] /\ Goto("load")
    <2>1. loader' = [at |-> "load", next |-> loader.next]
      BY <1>1, <1>2 DEF LoaderInOrder, Goto
    <2>2. /\ plug' \in [Names -> PlugStates] /\ plug'[Plugins[loader.next]] = "loading"
          /\ \A i \in DOMAIN Plugins : i # loader.next => plug'[Plugins[i]] = plug[Plugins[i]]
      BY <1>1, <1>2, HalfWay, HereIs DEF PlugStates, Here
    <2> QED BY <1>1, <2>1, <2>2, HalfWay DEF LoaderInOrder, Ahead, Behind, Here
  <1>3. CASE plug' = plug /\ Fail
    BY <1>1, <1>3, HalfWay, FailInOrder DEF LoaderInOrder, Gone
  <1> QED BY <1>2, <1>3 DEF Create

LEMMA StopInOrder == LoaderInOrder /\ Stop => LoaderInOrder'
  <1> SUFFICES ASSUME LoaderInOrder, Stop PROVE LoaderInOrder'
    OBVIOUS
  <1>1. loader.at = "unload" /\ loader' = loader /\ plug' = [plug EXCEPT ![Here] = "unloading"]
    BY DEF Stop
  <1>2. /\ plug' \in [Names -> PlugStates] /\ plug'[Plugins[loader.next]] = "unloading"
        /\ \A i \in DOMAIN Plugins : i # loader.next => plug'[Plugins[i]] = plug[Plugins[i]]
    BY <1>1, HereIs DEF PlugStates, Here, LoaderInOrder
  <1>3. loader.next \in Nat /\ \A i \in DOMAIN Plugins : i \in Nat
    BY Line DEF LoaderInOrder
  <1> QED BY <1>1, <1>2, <1>3 DEF LoaderInOrder, Ahead, Behind, Here, Gone

LEMMA LoaderStepInOrder == LoaderInOrder /\ LoaderStep => LoaderInOrder'
  BY ValidateInOrder, InstallHooksInOrder, ReadManifestsInOrder, DiscoverInOrder, CreateInOrder,
     StopInOrder DEF LoaderStep

LEMMA LoadReturnsInOrder ==
  ASSUME LoaderInOrder, NEW success \in BOOLEAN, LoadReturns(success)
  PROVE  LoaderInOrder'
  <1>1. loader.at = "load" /\ loader.next \in DOMAIN Plugins /\ loader.next \in Nat
    BY DEF LoadReturns, LoaderInOrder
  <1>2. CASE success
    <2>1. plug' = [plug EXCEPT ![Here] = "started"]
      BY <1>2 DEF LoadReturns
    <2>2. /\ plug' \in [Names -> PlugStates] /\ plug'[Plugins[loader.next]] = "started"
          /\ \A i \in DOMAIN Plugins : i # loader.next => plug'[Plugins[i]] = plug[Plugins[i]]
      BY <1>1, <2>1, HereIs DEF PlugStates, Here
    <2>3. \A i \in DOMAIN Plugins : IF i < loader.next + 1 THEN plug'[Plugins[i]] = "started"
                                   ELSE plug'[Plugins[i]] = "absent"
      BY <1>1, <2>2, Line DEF LoaderInOrder, Ahead, Behind
    <2>4. CASE loader.next = Len(Plugins)
      <3>1. loader' = [at |-> "loaded", next |-> loader.next]
        BY <1>1, <1>2, <2>4 DEF LoadReturns, LoaderInOrder
      <3> QED BY <1>1, <2>2, <2>3, <2>4, <3>1, Line DEF LoaderInOrder, Behind
    <2>5. CASE loader.next # Len(Plugins)
      <3>1. loader' = [at |-> "discover", next |-> loader.next + 1]
        BY <1>1, <1>2, <2>5 DEF LoadReturns, LoaderInOrder
      <3>2. loader.next + 1 \in DOMAIN Plugins /\ loader.next + 1 \in Nat
        BY <1>1, <2>5, Line
      <3> QED BY <1>1, <2>2, <2>3, <3>1, <3>2, Line DEF LoaderInOrder, Ahead, Behind
    <2> QED BY <2>4, <2>5
  <1>3. CASE ~success
    <2>1. plug' = [plug EXCEPT ![Here] = "unloading"] /\ loader' = [at |-> "cleanup", next |-> loader.next]
      BY <1>1, <1>3 DEF LoadReturns, Goto, LoaderInOrder
    <2>2. /\ plug' \in [Names -> PlugStates] /\ plug'[Plugins[loader.next]] = "unloading"
          /\ \A i \in DOMAIN Plugins : i # loader.next => plug'[Plugins[i]] = plug[Plugins[i]]
      BY <1>1, <2>1, HereIs DEF PlugStates, Here
    <2> QED BY <1>1, <2>1, <2>2, Line DEF LoaderInOrder, Ahead, Behind, Here
  <1> QED BY <1>2, <1>3

LEMMA UnloadReturnsInOrder == LoaderInOrder /\ UnloadReturns => LoaderInOrder'
  <1> SUFFICES ASSUME LoaderInOrder, UnloadReturns PROVE LoaderInOrder'
    OBVIOUS
  <1>1. loader.at \in {"cleanup", "unload"} /\ plug[Here] = "unloading" /\ Fail
        /\ plug' = [plug EXCEPT ![Here] = "destroyed"] /\ loader.next \in DOMAIN Plugins
    BY DEF UnloadReturns, LoaderInOrder
  <1>2. /\ plug' \in [Names -> PlugStates] /\ plug'[Plugins[loader.next]] = "destroyed"
        /\ \A i \in DOMAIN Plugins : i # loader.next => plug'[Plugins[i]] = plug[Plugins[i]]
    BY <1>1, HereIs DEF PlugStates, Here
  <1>3. loader.next \in Nat \ {0} /\ loader.next <= Len(Plugins) + 1
    BY <1>1, Line
  <1>4. \A i \in DOMAIN Plugins : i < loader.next <=> plug[Plugins[i]] = "started"
    BY <1>1, <1>3, Line DEF LoaderInOrder, Ahead, Behind, Here, Gone
  <1>5. \A i \in DOMAIN Plugins : IF i < loader.next THEN plug'[Plugins[i]] = "started"
                                 ELSE plug'[Plugins[i]] \in Gone
    <2> SUFFICES ASSUME NEW i \in DOMAIN Plugins
                 PROVE  IF i < loader.next THEN plug'[Plugins[i]] = "started" ELSE plug'[Plugins[i]] \in Gone
      OBVIOUS
    <2>1. CASE i = loader.next
      BY <1>2, <1>3, <2>1 DEF Gone
    <2>2. CASE i # loader.next
      <3>1. plug'[Plugins[i]] = plug[Plugins[i]] /\ i \in Nat
        BY <1>2, <2>2, Line
      <3> QED BY <1>1, <1>3, <1>4, <2>2, <3>1 DEF LoaderInOrder, Ahead, Gone
    <2> QED BY <2>1, <2>2
  <1> QED BY <1>1, <1>2, <1>3, <1>4, <1>5, FailInOrder

-----------------------------------------------------------------------------
(* The interest plugin.                                                    *)

\* Steps of the game and of the callback: the registration, the thread and the
\* loader are left alone, and a callback neither starts nor queues without one.
LEMMA QuietStep ==
  ASSUME FixInv, loader' = loader, plug' = plug, slot' = slot, worker' = worker, stop' = stop,
         call' = call \/ slot # "free", queue' = queue \/ call.at # "idle"
  PROVE  FixInv'
  <1>1. LoaderInOrder'
    BY DEF FixInv, LoaderInOrder, Ahead, Behind, Here
  <1>2. FixInOrder'
    BY DEF FixInv, FixInOrder
  <1>3. WorkerInOrder'
    BY DEF FixInv, WorkerInOrder
  <1> QED BY <1>1, <1>2, <1>3 DEF FixInv

LEMMA GameKeeps ==
  ASSUME FixInv,
         StartPass \/ DispatchBefore \/ Distribute \/ DispatchAfter \/ NextCountry \/ LoadSave \/ Damage
  PROVE  FixInv'
  <1>1. /\ loader' = loader /\ plug' = plug /\ slot' = slot /\ worker' = worker /\ stop' = stop
        /\ queue' = queue /\ (call' = call \/ slot # "free")
    <2>1. CASE StartPass
      BY <2>1 DEF StartPass, loaderVars, pluginVars, resultVars
    <2>2. CASE DispatchBefore
      BY <2>2 DEF DispatchBefore, Dispatch, loaderVars, resultVars
    <2>3. CASE Distribute
      BY <2>3 DEF Distribute, loaderVars, pluginVars, resultVars
    <2>4. CASE DispatchAfter
      BY <2>4 DEF DispatchAfter, Dispatch, loaderVars, resultVars
    <2>5. CASE NextCountry
      BY <2>5 DEF NextCountry, loaderVars, pluginVars, resultVars
    <2>6. CASE LoadSave
      BY <2>6 DEF LoadSave, loaderVars, pluginVars, resultVars
    <2>7. CASE Damage
      BY <2>7 DEF Damage, loaderVars, pluginVars, resultVars
    <2> QED BY <2>1, <2>2, <2>3, <2>4, <2>5, <2>6, <2>7
  <1> QED BY <1>1, QuietStep

LEMMA CallbackKeeps ==
  ASSUME FixInv, Callback
  PROVE  FixInv'
  <1>1. /\ loader' = loader /\ plug' = plug /\ slot' = slot /\ worker' = worker /\ stop' = stop
        /\ call.at # "idle"
    <2>1. CASE Initialize
      BY <2>1 DEF Initialize, loaderVars
    <2>2. CASE CollectStates
      BY <2>2 DEF CollectStates, loaderVars
    <2>3. CASE Prepare
      BY <2>3 DEF Prepare, loaderVars
    <2>4. CASE PayStatePool
      BY <2>4 DEF PayStatePool, loaderVars
    <2> QED BY <2>1, <2>2, <2>3, <2>4 DEF Callback
  <1>2. slot # "free"
    BY <1>1 DEF FixInv, WorkerInOrder
  <1> QED BY <1>1, <1>2, QuietStep

LEMMA WriteKeeps ==
  ASSUME FixInv, WriteResults
  PROVE  FixInv'
  <1>1. /\ loader' = loader /\ plug' = plug /\ slot' = slot /\ call' = call /\ stop' = stop
        /\ worker = "runs"
    BY DEF WriteResults, loaderVars, pluginVars
  <1>2. \/ worker' = worker
        \/ stop /\ worker' = "ended" /\ queue' = queue /\ queue = <<>>
    BY DEF WriteResults
  <1>3. LoaderInOrder'
    BY <1>1 DEF FixInv, LoaderInOrder, Ahead, Behind, Here
  <1>4. CASE worker' = worker
    BY <1>1, <1>3, <1>4 DEF FixInv, FixInOrder, WorkerInOrder
  <1>5. CASE stop /\ worker' = "ended" /\ queue' = queue /\ queue = <<>>
    <2>1. slot = "free"
      BY <1>5 DEF FixInv, WorkerInOrder
    <2>2. plug[Fix] \in PlugStates
      BY FixAssumption DEF FixInv, LoaderInOrder
    <2>3. plug[Fix] = "unloading" /\ loader.at # "cleanup"
      BY <1>1, <2>1, <2>2 DEF FixInv, FixInOrder, PlugStates
    <2>4. FixInOrder'
      BY <1>1, <1>5, <2>3 DEF FixInOrder
    <2>5. WorkerInOrder'
      BY <1>1, <1>5, <2>1 DEF FixInv, WorkerInOrder
    <2> QED BY <1>3, <2>4, <2>5 DEF FixInv
  <1> QED BY <1>2, <1>4, <1>5

\* A step of the loader that leaves this plugin as it is, when nothing else of
\* it is touched.
LEMMA PassesBy ==
  ASSUME FixInv, LoaderInOrder', plug'[Fix] = plug[Fix],
         plug[Fix] = "unloading" => loader'.at = loader.at,
         slot' = slot, worker' = worker, stop' = stop, call' = call, queue' = queue
  PROVE  FixInv'
  BY DEF FixInv, FixInOrder, WorkerInOrder

LEMMA LoaderActsKeep ==
  ASSUME FixInv, LoaderActs
  PROVE  FixInv'
  <1>1. /\ LoaderStep /\ slot' = slot /\ worker' = worker /\ stop' = stop /\ call' = call /\ queue' = queue
    BY DEF LoaderActs, pluginVars, resultVars
  <1>2. LoaderInOrder /\ LoaderInOrder'
    BY <1>1, LoaderStepInOrder DEF FixInv
  <1>3. Fix \in Names /\ plug[Fix] \in PlugStates /\ plug \in [Names -> PlugStates]
    BY <1>2, FixAssumption DEF LoaderInOrder
  <1>4. CASE Validate \/ InstallHooks \/ ReadPluginManifests \/ Discover
    <2>1. plug' = plug /\ loader.at \notin {"cleanup", "unload"}
      BY <1>4 DEF Validate, InstallHooks, ReadPluginManifests, Discover
    <2>2. plug[Fix] # "unloading"
      BY <1>2, <1>3, <2>1, BusyIsHere
    <2> QED BY <1>1, <1>2, <2>1, <2>2, PassesBy
  <1>5. CASE Create
    <2>1. loader.at = "create" /\ loader.next \in DOMAIN Plugins /\ plug[Here] = "absent" /\ Here \in Names
      BY <1>2, <1>5, HalfWay, Line DEF Create, Here
    <2>2. plug[Fix] # "unloading"
      BY <1>2, <1>3, <2>1, BusyIsHere
    <2>3. CASE plug' = plug
      BY <1>1, <1>2, <2>2, <2>3, PassesBy
    <2>4. CASE plug' = [plug EXCEPT ![Here] = "loading"] /\ Here # Fix
      <3>1. plug'[Fix] = plug[Fix]
        BY <1>3, <2>4
      <3> QED BY <1>1, <1>2, <2>2, <3>1, PassesBy
    <2>5. CASE plug' = [plug EXCEPT ![Here] = "loading"] /\ Here = Fix
      <3>1. plug'[Fix] = "loading" /\ plug[Fix] = "absent"
        BY <1>3, <2>1, <2>5
      <3>2. slot = "free" /\ worker = "none"
        BY <3>1 DEF FixInv, FixInOrder
      <3>3. FixInOrder'
        BY <1>1, <3>1, <3>2 DEF FixInOrder
      <3>4. WorkerInOrder'
        BY <1>1 DEF FixInv, WorkerInOrder
      <3> QED BY <1>2, <3>3, <3>4 DEF FixInv
    <2> QED BY <1>5, <2>3, <2>4, <2>5 DEF Create
  <1>6. CASE Stop
    <2>1. /\ loader.at = "unload" /\ plug[Here] = "started" /\ loader' = loader
          /\ plug' = [plug EXCEPT ![Here] = "unloading"]
      BY <1>6 DEF Stop
    <2>2. CASE Here # Fix
      <3>1. plug'[Fix] = plug[Fix]
        BY <1>3, <2>1, <2>2
      <3> QED BY <1>1, <1>2, <2>1, <3>1, PassesBy
    <2>3. CASE Here = Fix
      <3>1. plug'[Fix] = "unloading" /\ loader'.at = "unload" /\ worker = "runs"
        BY <1>3, <2>1, <2>3 DEF FixInv, FixInOrder
      <3>2. FixInOrder'
        BY <1>1, <3>1 DEF FixInOrder
      <3>3. WorkerInOrder'
        BY <1>1 DEF FixInv, WorkerInOrder
      <3> QED BY <1>2, <3>2, <3>3 DEF FixInv
    <2> QED BY <2>2, <2>3
  <1> QED BY <1>1, <1>4, <1>5, <1>6 DEF LoaderStep

\* A load or unload callback of this plugin that returns.
LEMMA FixReturns ==
  ASSUME FixInv, NEW success \in BOOLEAN,
         \/ LoadReturns(success) /\ (IF success THEN worker = "runs"
                                     ELSE worker \in {"none", "unused"} /\ slot = "free")
         \/ UnloadReturns /\ (loader.at = "cleanup" \/ worker = "ended"),
         Here = Fix, slot' = slot, worker' = worker, stop' = stop, call' = call, queue' = queue
  PROVE  FixInv'
  <1>0. Fix \in Names /\ plug \in [Names -> PlugStates] /\ LoaderInOrder
    BY FixAssumption DEF FixInv, LoaderInOrder
  <1>1. WorkerInOrder'
    BY DEF FixInv, WorkerInOrder
  <1>2. CASE LoadReturns(success) /\ success /\ worker = "runs"
    <2>1. plug'[Fix] = "started" /\ plug[Fix] = "loading"
      BY <1>0, <1>2 DEF LoadReturns
    <2>2. FixInOrder'
      BY <1>2, <2>1 DEF FixInv, FixInOrder
    <2> QED BY <1>0, <1>1, <1>2, <2>2, LoadReturnsInOrder DEF FixInv
  <1>3. CASE LoadReturns(success) /\ ~success /\ worker \in {"none", "unused"} /\ slot = "free"
    <2>1. plug'[Fix] = "unloading" /\ loader'.at = "cleanup"
      BY <1>0, <1>3 DEF LoadReturns, Goto, LoaderInOrder
    <2>2. FixInOrder'
      BY <1>3, <2>1 DEF FixInOrder
    <2> QED BY <1>0, <1>1, <1>3, <2>2, LoadReturnsInOrder DEF FixInv
  <1>4. CASE UnloadReturns /\ (loader.at = "cleanup" \/ worker = "ended")
    <2>1. plug[Fix] = "unloading" /\ plug'[Fix] = "destroyed"
      BY <1>0, <1>4 DEF UnloadReturns
    <2>2. slot = "free" /\ worker \in {"none", "unused", "ended"}
      BY <1>4, <2>1 DEF FixInv, FixInOrder, WorkerInOrder
    <2>3. FixInOrder'
      BY <2>1, <2>2 DEF FixInOrder
    <2> QED BY <1>0, <1>1, <1>4, <2>3, UnloadReturnsInOrder DEF FixInv
  <1> QED BY <1>2, <1>3, <1>4

LEMMA OthersKeep ==
  ASSUME FixInv, OthersReturn
  PROVE  FixInv'
  <1>0. Fix \in Names /\ plug \in [Names -> PlugStates] /\ LoaderInOrder
    BY FixAssumption DEF FixInv, LoaderInOrder
  <1>1. slot' = slot /\ worker' = worker /\ stop' = stop /\ call' = call /\ queue' = queue
    BY DEF OthersReturn, pluginVars, resultVars
  <1>2. CASE Here = Fix
    <2>1. loader.at = "cleanup" /\ UnloadReturns
      BY <1>2 DEF OthersReturn
    <2> QED BY <1>1, <1>2, <2>1, FixReturns
  <1>3. CASE Here # Fix
    <2>1. \/ \E success \in BOOLEAN : LoadReturns(success)
          \/ UnloadReturns
      BY DEF OthersReturn
    <2>2. LoaderInOrder'
      BY <1>0, <2>1, LoadReturnsInOrder, UnloadReturnsInOrder
    <2>3. plug'[Fix] = plug[Fix]
      BY <1>0, <1>3, <2>1 DEF LoadReturns, UnloadReturns
    <2>4. plug[Fix] # "unloading"
      BY <1>0, <1>3, BusyIsHere
    <2> QED BY <1>1, <2>2, <2>3, <2>4, PassesBy
  <1> QED BY <1>2, <1>3

\* Load and Unload of this plugin, up to their return.
LEMMA FixStepKeeps ==
  ASSUME FixInv, loader' = loader, plug' = plug, call' = call, queue' = queue,
         FixInOrder', WorkerInOrder'
  PROVE  FixInv'
  BY DEF FixInv, LoaderInOrder, Ahead, Behind, Here

LEMMA LoadKeeps ==
  ASSUME FixInv, AcquireServices \/ StartWorker \/ LoadDone
  PROVE  FixInv'
  <1>0. FixLoads /\ call' = call /\ queue' = queue
    BY DEF AcquireServices, StartWorker, LoadDone, pluginVars, resultVars
  <1>1. plug[Fix] = "loading"
    BY <1>0 DEF FixLoads, FixInv, LoaderInOrder
  <1>2. CASE AcquireServices /\ slot = "free" /\ slot' = "active" /\ UNCHANGED loaderVars
    <2>1. loader' = loader /\ plug' = plug /\ worker = "none" /\ worker' = worker /\ stop' = stop
      BY <1>2 DEF AcquireServices, loaderVars, resultVars
    <2>2. FixInOrder'
      BY <1>1, <1>2, <2>1 DEF FixInOrder
    <2>3. WorkerInOrder'
      BY <1>0, <1>2, <2>1 DEF FixInv, WorkerInOrder
    <2> QED BY <1>0, <2>1, <2>2, <2>3, FixStepKeeps
  <1>3. CASE AcquireServices /\ slot = "free" /\ LoadReturns(FALSE) /\ slot' = slot
    <2>1. worker = "none" /\ worker' = worker /\ stop' = stop /\ Here = Fix
      BY <1>0, <1>3 DEF AcquireServices, FixLoads, resultVars
    <2> QED BY <1>0, <1>3, <2>1, FixReturns
  <1>4. CASE StartWorker
    <2>1. /\ loader' = loader /\ plug' = plug /\ slot = "active" /\ slot' = slot /\ worker = "none"
          /\ stop' = FALSE /\ worker' \in {"runs", "failed"}
      BY <1>4 DEF StartWorker, loaderVars
    <2>2. FixInOrder'
      BY <1>1, <2>1 DEF FixInOrder
    <2>3. WorkerInOrder'
      BY <1>0, <2>1 DEF FixInv, WorkerInOrder
    <2> QED BY <1>0, <2>1, <2>2, <2>3, FixStepKeeps
  <1>5. CASE LoadDone
    <2>1. /\ slot' = slot /\ worker' = worker /\ stop' = stop /\ Here = Fix
          /\ \/ worker = "runs" /\ LoadReturns(TRUE)
             \/ worker = "unused" /\ LoadReturns(FALSE)
      BY <1>0, <1>5 DEF LoadDone, FixLoads, pluginVars, resultVars
    <2>2. worker = "unused" => slot = "free"
      BY <1>1 DEF FixInv, FixInOrder
    <2> QED BY <1>0, <2>1, <2>2, FixReturns
  <1> QED BY <1>2, <1>3, <1>4, <1>5 DEF AcquireServices

LEMMA UnloadKeeps ==
  ASSUME FixInv, Unregister \/ Join
  PROVE  FixInv'
  <1>0. Unloading /\ call' = call /\ queue' = queue
    BY DEF Unregister, Join, pluginVars, resultVars
  <1>1. Fix \in Names /\ LoaderInOrder
    BY FixAssumption DEF FixInv
  <1>2. \/ loader.at = "unload" /\ plug[Fix] = "unloading" /\ Here = Fix
        \/ plug[Fix] = "loading" /\ worker = "failed"
    <2>1. CASE loader.at = "unload" /\ plug[Fix] = "unloading"
      BY <1>1, <2>1, BusyIsHere
    <2>2. CASE FixLoads /\ worker = "failed"
      BY <1>1, <2>2 DEF FixLoads, LoaderInOrder
    <2> QED BY <1>0, <2>1, <2>2 DEF Unloading
  <1>3. plug[Fix] = "unloading" => worker \in {"runs", "ended"}
    BY <1>2 DEF FixInv, FixInOrder
  <1>4. CASE Unregister
    <2>1. /\ loader' = loader /\ plug' = plug /\ worker' = worker /\ stop' = stop
          /\ \/ slot = "active" /\ slot' = "removing"
             \/ slot = "removing" /\ call.at = "idle" /\ slot' = "free"
      BY <1>4 DEF Unregister, loaderVars, resultVars
    <2>2. FixInOrder'
      BY <1>2, <1>3, <2>1 DEF FixInOrder
    <2>3. WorkerInOrder'
      BY <1>0, <2>1 DEF FixInv, WorkerInOrder
    <2> QED BY <1>0, <2>1, <2>2, <2>3, FixStepKeeps
  <1>5. CASE Join /\ stop = FALSE /\ stop' = TRUE
    <2>1. /\ loader' = loader /\ plug' = plug /\ slot = "free" /\ slot' = slot
          /\ worker' = (IF worker = "failed" THEN "unused" ELSE worker)
      BY <1>5 DEF Join, loaderVars, pluginVars
    <2>2. FixInOrder'
      BY <1>2, <1>3, <2>1 DEF FixInOrder
    <2>3. WorkerInOrder'
      BY <1>0, <1>2, <1>3, <1>5, <2>1 DEF FixInv, WorkerInOrder
    <2> QED BY <1>0, <2>1, <2>2, <2>3, FixStepKeeps
  <1>6. CASE Join /\ worker = "ended" /\ UnloadReturns /\ UNCHANGED <<stop, worker>>
    <2>1. slot' = slot /\ Here = Fix
      BY <1>2, <1>6 DEF Join, pluginVars
    <2> QED BY <1>0, <1>6, <2>1, FixReturns
  <1>7. stop \in BOOLEAN
    BY DEF FixInv, WorkerInOrder
  <1> QED BY <1>4, <1>5, <1>6, <1>7 DEF Join

(***************************************************************************)
(* Whatever the loader has called of the plugin says what there is of its  *)
(* registration, its callback and its thread, at every step of the game,   *)
(* the plugin, its thread and the loader (Load, Unload, UnloadPlugins).    *)
(***************************************************************************)
THEOREM FixSpecFixInv == FixSpec => []FixInv
  <1>1. FixInit => FixInv
    <2> SUFFICES ASSUME FixInit PROVE FixInv
      OBVIOUS
    <2>1. LoaderInOrder
      BY LoaderInitInOrder DEF FixInit
    <2>2. plug[Fix] = "absent"
      BY FixAssumption DEF FixInit, LoaderInit
    <2>3. FixInOrder /\ WorkerInOrder
      BY <2>2 DEF FixInit, FixInOrder, WorkerInOrder, Idle
    <2> QED BY <2>1, <2>3 DEF FixInv
  <1>2. FixInv /\ [FixNext]_fixVars => FixInv'
    <2> SUFFICES ASSUME FixInv, [FixNext]_fixVars PROVE FixInv'
      OBVIOUS
    <2>1. CASE UNCHANGED fixVars
      <3>1. /\ loader' = loader /\ plug' = plug /\ slot' = slot /\ worker' = worker /\ stop' = stop
            /\ call' = call /\ queue' = queue
        BY <2>1 DEF fixVars, loaderVars, pluginVars, resultVars
      <3> QED BY <3>1, QuietStep
    <2>2. CASE FixNext
      BY <2>2, GameKeeps, CallbackKeeps, LoadKeeps, UnloadKeeps, OthersKeep, WriteKeeps, LoaderActsKeep
      DEF FixNext, Callback
    <2> QED BY <2>1, <2>2
  <1> QED BY <1>1, <1>2, PTL DEF FixSpec

(***************************************************************************)
(* No callback enters a plugin that is not there, and when the loader gave *)
(* up nothing of any plugin is left (LoadPlugins' rollback, Unload), for   *)
(* any plugins loaded in any order.                                        *)
(***************************************************************************)
THEOREM FixSpecNothingLeftBehind == FixSpec => []NothingLeftBehind
  <1>1. FixInv => NothingLeftBehind
    <2> SUFFICES ASSUME FixInv PROVE NothingLeftBehind
      OBVIOUS
    <2>0. Fix \in Names /\ plug \in [Names -> PlugStates] /\ plug[Fix] \in PlugStates /\ LoaderInOrder
      BY FixAssumption DEF FixInv, LoaderInOrder
    <2>1. call.at # "idle" => plug[Fix] \in {"loading", "started", "unloading"} /\ slot # "free"
      BY <2>0 DEF FixInv, FixInOrder, WorkerInOrder, PlugStates
    <2>2. worker = "ended" => queue = <<>> /\ slot = "free"
      BY DEF FixInv, WorkerInOrder
    <2>3. loader.at = "failed" => \A p \in Names : plug[p] \in Gone
      <3> SUFFICES ASSUME loader.at = "failed", NEW p \in Names PROVE plug[p] \in Gone
        OBVIOUS
      <3>1. PICK i \in DOMAIN Plugins : p = Plugins[i]
        BY Line
      <3>2. i > 0
        BY Line
      <3> QED BY <2>0, <3>1, <3>2 DEF LoaderInOrder, Ahead
    <2>4. loader.at = "failed" => slot = "free" /\ worker \in {"none", "unused", "ended"}
      BY <2>0, <2>3 DEF FixInv, FixInOrder, Gone
    <2>5. ASSUME NEW i \in DOMAIN Plugins, NEW j \in DOMAIN Plugins, i < j, plug[Plugins[j]] \notin Gone
          PROVE  plug[Plugins[i]] = "started"
      <3>1. i \in Nat /\ j \in Nat /\ i >= 1 /\ j <= Len(Plugins) /\ Len(Plugins) \in Nat /\ loader.next \in Nat
        BY <2>0, Line DEF LoaderInOrder
      <3>2. CASE loader.at \in {"identity", "hooks", "manifests", "failed"}
        BY <2>0, <2>5, <3>1, <3>2 DEF LoaderInOrder, Ahead, Gone
      <3>3. CASE loader.at \in {"discover", "create"}
        BY <2>0, <2>5, <3>1, <3>3 DEF LoaderInOrder, Ahead, Behind, Gone
      <3>4. CASE loader.at \in {"load", "cleanup", "unload"}
        BY <2>0, <2>5, <3>1, <3>4 DEF LoaderInOrder, Ahead, Behind, Gone
      <3>5. CASE loader.at = "loaded"
        BY <2>0, <3>1, <3>5 DEF LoaderInOrder, Behind
      <3> QED BY <2>0, <3>2, <3>3, <3>4, <3>5 DEF LoaderInOrder
    <2> QED BY <2>1, <2>2, <2>3, <2>4, <2>5 DEF NothingLeftBehind, Gone
  <1> QED BY <1>1, FixSpecFixInv, PTL

-----------------------------------------------------------------------------
(* Sequences put together.  Induction over a length: a set of numbers with *)
(* 0, and with n + 1 whenever with n, has every number.                    *)

LEMMA SetInduction ==
  ASSUME NEW Good, 0 \in Good, \A n \in Nat : n \in Good => n + 1 \in Good
  PROVE  Nat \subseteq Good
  <1> DEFINE Below == OpToRel(<, Nat)
             Bad == Nat \ Good
  <1>1. SUFFICES ASSUME Bad # {} PROVE FALSE
    OBVIOUS
  <1>2. IsWellFoundedOn(Below, Nat)
    BY NatLessThanWellFounded
  <1>3. \A x, y \in Nat : x < y => <<x, y>> \in Below
    BY DEF OpToRel
  <1> HIDE DEF Below
  <1>4. PICK m \in Bad : \A n \in Bad : ~(<<n, m>> \in Below)
    BY <1>1, <1>2, WFMin
  <1>5. m \in Nat /\ m # 0 /\ m - 1 \in Nat /\ m - 1 < m /\ m = (m - 1) + 1
    OBVIOUS
  <1>6. m - 1 \in Good
    BY <1>3, <1>4, <1>5
  <1> QED BY <1>5, <1>6

\* What FlattenSeq puts together, one sequence after the other.
Joins(f, ss, n) == f = [i \in 1 .. n |-> IF i = 1 THEN ss[i] ELSE f[i - 1] \o ss[i]]

LEMMA JoinsExist ==
  ASSUME NEW ss, NEW n \in Nat
  PROVE  \E f : Joins(f, ss, n)
  <1> DEFINE Good == {m \in Nat : \E f : Joins(f, ss, m)}
  <1>1. 0 \in Good
    <2>1. PICK f : f = [i \in 1 .. 0 |-> {}]
      OBVIOUS
    <2>2. f = [i \in 1 .. 0 |-> IF i = 1 THEN ss[i] ELSE f[i - 1] \o ss[i]]
      BY <2>1
    <2> QED BY <2>2 DEF Joins
  <1>2. ASSUME NEW m \in Nat, m \in Good PROVE m + 1 \in Good
    <2>1. PICK f : Joins(f, ss, m)
      BY <1>2
    <2> DEFINE g == [i \in 1 .. m + 1 |-> IF i = m + 1 THEN (IF i = 1 THEN ss[i] ELSE f[m] \o ss[i]) ELSE f[i]]
               step(i) == IF i = 1 THEN ss[i] ELSE g[i - 1] \o ss[i]
    <2>2. ASSUME NEW i \in 1 .. m + 1 PROVE g[i] = step(i)
      <3>1. CASE i = 1
        <4>1. m # 0 => f[1] = ss[1]
          BY <2>1 DEF Joins
        <4> QED BY <3>1, <4>1
      <3>2. CASE i = m + 1 /\ i # 1
        <4>1. i - 1 \in 1 .. m + 1 /\ i - 1 = m /\ m # m + 1
          BY <3>2
        <4>2. g[i - 1] = f[m]
          BY <4>1
        <4> QED BY <3>2, <4>2
      <3>3. CASE i # m + 1 /\ i # 1
        <4>1. i - 1 \in 1 .. m + 1 /\ i - 1 # m + 1 /\ i \in 1 .. m
          BY <3>3
        <4>2. g[i - 1] = f[i - 1] /\ g[i] = f[i]
          BY <3>3, <4>1
        <4>3. f[i] = f[i - 1] \o ss[i]
          BY <2>1, <3>3, <4>1 DEF Joins
        <4> QED BY <3>3, <4>2, <4>3
      <3> QED BY <3>1, <3>2, <3>3
    <2>3. g = [i \in 1 .. m + 1 |-> step(i)]
      BY <2>2
    <2>4. Joins(g, ss, m + 1)
      BY <2>3 DEF Joins
    <2> HIDE DEF g, step
    <2> QED BY <2>4
  <1>3. Nat \subseteq Good
    <2> HIDE DEF Good
    <2> QED BY <1>1, <1>2, SetInduction
  <1> QED BY <1>3

LEMMA FlattenJoins ==
  ASSUME NEW ss, Len(ss) \in Nat \ {0}
  PROVE  \E f : Joins(f, ss, Len(ss)) /\ FlattenSeq(ss) = f[Len(ss)]
  <1>1. \E f : f = [i \in 1 .. Len(ss) |-> IF i = 1 THEN ss[i] ELSE f[i - 1] \o ss[i]]
    BY JoinsExist DEF Joins
  <1>2. PICK f : /\ f = CHOOSE g : g = [i \in 1 .. Len(ss) |-> IF i = 1 THEN ss[i] ELSE g[i - 1] \o ss[i]]
    OBVIOUS
  <1>3. Joins(f, ss, Len(ss))
    BY <1>1, <1>2 DEF Joins
  <1>4. FlattenSeq(ss) = f[Len(ss)]
    BY <1>2 DEF FlattenSeq
  <1> QED BY <1>3, <1>4

\* Every element of every sequence has a place, those of an earlier sequence
\* before those of a later one, and nothing else is there.
InPlace(flat, ss, start) ==
  /\ \A c \in 1 .. Len(ss) : \A i \in 1 .. Len(ss[c]) :
       start[c] + i \in 1 .. Len(flat) /\ flat[start[c] + i] = ss[c][i]
  /\ \A c, d \in 1 .. Len(ss) : c < d => start[c] + Len(ss[c]) <= start[d]

LEMMA FlattenPlaces ==
  ASSUME NEW R, NEW ss \in Seq(Seq(R))
  PROVE  /\ FlattenSeq(ss) \in Seq(R)
         /\ \E start \in [1 .. Len(ss) -> Nat] : InPlace(FlattenSeq(ss), ss, start)
  <1>1. CASE Len(ss) = 0
    <2>1. FlattenSeq(ss) = <<>>
      BY <1>1 DEF FlattenSeq
    <2>2. 1 .. Len(ss) = {}
      BY <1>1
    <2>3. PICK start : start = [c \in 1 .. Len(ss) |-> 0]
      OBVIOUS
    <2> QED BY <2>1, <2>2, <2>3 DEF InPlace
  <1>2. CASE Len(ss) # 0
    <2>0. Len(ss) \in Nat \ {0} /\ \A c \in 1 .. Len(ss) : ss[c] \in Seq(R) /\ Len(ss[c]) \in Nat
      BY <1>2
    <2>1. PICK f : Joins(f, ss, Len(ss)) /\ FlattenSeq(ss) = f[Len(ss)]
      BY <2>0, FlattenJoins
    <2> DEFINE start == [c \in 1 .. Len(ss) |-> IF c = 1 THEN 0 ELSE Len(f[c - 1])]
               Fits(n) == /\ f[n] \in Seq(R)
                          /\ \A c \in 1 .. n : /\ start[c] \in Nat /\ start[c] + Len(ss[c]) <= Len(f[n])
                                               /\ \A i \in 1 .. Len(ss[c]) : f[n][start[c] + i] = ss[c][i]
                          /\ \A c, d \in 1 .. n : c < d => start[c] + Len(ss[c]) <= start[d]
               Good == {n \in Nat : n \in 1 .. Len(ss) => Fits(n)}
    <2>a. start[1] = 0 /\ \A n \in Nat \ {0} : n + 1 \in 1 .. Len(ss) => start[n + 1] = Len(f[n])
      <3>1. ASSUME NEW n \in Nat \ {0}, n + 1 \in 1 .. Len(ss) PROVE start[n + 1] = Len(f[n])
        <4>1. n + 1 # 1 /\ (n + 1) - 1 = n
          OBVIOUS
        <4> QED BY <3>1, <4>1
      <3>2. 1 \in 1 .. Len(ss)
        BY <2>0
      <3> QED BY <3>1, <3>2
    <2>b. f[1] = ss[1] /\ \A n \in Nat \ {0} : n + 1 \in 1 .. Len(ss) => f[n + 1] = f[n] \o ss[n + 1]
      <3>1. ASSUME NEW n \in Nat \ {0}, n + 1 \in 1 .. Len(ss) PROVE f[n + 1] = f[n] \o ss[n + 1]
        <4>1. n + 1 # 1 /\ (n + 1) - 1 = n
          OBVIOUS
        <4> QED BY <2>1, <3>1, <4>1 DEF Joins
      <3>2. 1 \in 1 .. Len(ss)
        BY <2>0
      <3> QED BY <2>1, <3>1, <3>2 DEF Joins
    <2>c. start = [c \in 1 .. Len(ss) |-> start[c]]
      OBVIOUS
    <2> HIDE DEF start
    <2>2. 0 \in Good
      OBVIOUS
    <2>3. ASSUME NEW n \in Nat, n \in Good PROVE n + 1 \in Good
      <3>0. n \in 1 .. Len(ss) => Fits(n)
        BY <2>3
      <3>1. CASE n = 0
        <4>1. Fits(1)
          <5>1. ss[1] \in Seq(R) /\ Len(ss[1]) \in Nat
            BY <2>0
          <5> QED BY <2>a, <2>b, <5>1
        <4> HIDE DEF Fits
        <4> QED BY <3>1, <4>1
      <3>2. CASE n # 0 /\ n + 1 \in 1 .. Len(ss)
        <4>1. n \in 1 .. Len(ss) /\ n \in Nat \ {0}
          BY <2>0, <3>2
        <4>2. f[n + 1] = f[n] \o ss[n + 1] /\ start[n + 1] = Len(f[n])
          BY <2>a, <2>b, <3>2, <4>1
        <4>3. f[n] \in Seq(R) /\ ss[n + 1] \in Seq(R)
          BY <2>0, <3>0, <3>2, <4>1
        <4>4. /\ f[n + 1] \in Seq(R) /\ Len(f[n + 1]) = Len(f[n]) + Len(ss[n + 1])
              /\ \A i \in 1 .. Len(f[n]) + Len(ss[n + 1]) :
                   f[n + 1][i] = IF i <= Len(f[n]) THEN f[n][i] ELSE ss[n + 1][i - Len(f[n])]
          <5>1. PICK p \in Seq(R), q \in Seq(R) : p = f[n] /\ q = ss[n + 1]
            BY <4>3
          <5>2. PICK j : j = p \o q
            OBVIOUS
          <5>3. /\ j \in Seq(R) /\ Len(j) = Len(p) + Len(q)
                /\ \A i \in 1 .. Len(p) + Len(q) : j[i] = IF i <= Len(p) THEN p[i] ELSE q[i - Len(p)]
            BY <5>2, ConcatProperties
          <5>4. f[n + 1] = j
            BY <4>2, <5>1, <5>2
          <5> QED BY <5>1, <5>3, <5>4
        <4>5. PICK k \in Nat, l \in Nat : k = Len(f[n]) /\ l = Len(ss[n + 1])
          BY <4>3
        <4>6. ASSUME NEW c \in 1 .. n + 1
              PROVE  /\ start[c] \in Nat /\ start[c] + Len(ss[c]) <= Len(f[n + 1])
                     /\ \A i \in 1 .. Len(ss[c]) : f[n + 1][start[c] + i] = ss[c][i]
          <5>1. CASE c = n + 1
            <6>1. start[c] = k /\ Len(ss[c]) = l /\ Len(f[n + 1]) = k + l
              BY <4>2, <4>4, <4>5, <5>1
            <6>2. ASSUME NEW i \in 1 .. l PROVE f[n + 1][k + i] = ss[c][i]
              <7>1. k + i \in 1 .. k + l /\ ~(k + i <= k) /\ (k + i) - k = i
                OBVIOUS
              <7> QED BY <4>4, <4>5, <5>1, <7>1
            <6> QED BY <6>1, <6>2
          <5>2. CASE c \in 1 .. n
            <6>1. PICK m \in Nat, h \in Nat : m = start[c] /\ h = Len(ss[c]) /\ m + h <= k
              <7>1. c \in 1 .. Len(ss) /\ Len(ss[c]) \in Nat
                BY <2>0, <3>2, <5>2
              <7>2. start[c] \in Nat /\ start[c] + Len(ss[c]) <= Len(f[n])
                BY <3>0, <4>1, <5>2
              <7> QED BY <4>5, <7>1, <7>2
            <6>2. ASSUME NEW i \in 1 .. h PROVE f[n + 1][m + i] = ss[c][i]
              <7>1. m + i \in 1 .. k + l /\ m + i <= k
                BY <6>1
              <7>2. f[n][m + i] = ss[c][i]
                BY <3>0, <4>1, <5>2, <6>1
              <7> QED BY <4>4, <4>5, <7>1, <7>2
            <6>3. m + h <= k + l
              BY <6>1
            <6> QED BY <4>4, <4>5, <6>1, <6>2, <6>3
          <5> QED BY <5>1, <5>2
        <4>7. ASSUME NEW c \in 1 .. n + 1, NEW d \in 1 .. n + 1, c < d
              PROVE  start[c] + Len(ss[c]) <= start[d]
          <5>0. c \in 1 .. n
            BY <4>7
          <5>1. CASE d = n + 1
            BY <3>0, <4>1, <4>2, <5>0, <5>1
          <5>2. CASE d \in 1 .. n
            BY <3>0, <4>1, <4>7, <5>0, <5>2
          <5> QED BY <5>1, <5>2
        <4>8. Fits(n + 1)
          BY <4>4, <4>6, <4>7
        <4> HIDE DEF Fits
        <4> QED BY <4>8
      <3> HIDE DEF Fits
      <3> QED BY <3>1, <3>2
    <2>4. Nat \subseteq Good
      <3> HIDE DEF Good
      <3> QED BY <2>2, <2>3, SetInduction
    <2>5. Fits(Len(ss))
      <3>1. Len(ss) \in Good /\ Len(ss) \in 1 .. Len(ss)
        <4> HIDE DEF Good
        <4> QED BY <2>0, <2>4
      <3> HIDE DEF Fits
      <3> QED BY <3>1
    <2>6. start \in [1 .. Len(ss) -> Nat]
      BY <2>5, <2>c
    <2>7. ASSUME NEW c \in 1 .. Len(ss), NEW i \in 1 .. Len(ss[c])
          PROVE  start[c] + i \in 1 .. Len(FlattenSeq(ss)) /\ FlattenSeq(ss)[start[c] + i] = ss[c][i]
      <3>1. start[c] \in Nat /\ Len(ss[c]) \in Nat /\ start[c] + Len(ss[c]) <= Len(f[Len(ss)])
            /\ Len(f[Len(ss)]) \in Nat /\ f[Len(ss)][start[c] + i] = ss[c][i]
        BY <2>0, <2>5
      <3>2. start[c] + i \in 1 .. Len(f[Len(ss)])
        BY <3>1
      <3> QED BY <2>1, <3>1, <3>2
    <2>8. InPlace(FlattenSeq(ss), ss, start)
      BY <2>5, <2>7 DEF InPlace
    <2>9. FlattenSeq(ss) \in Seq(R)
      BY <2>1, <2>5
    <2> QED BY <2>6, <2>8, <2>9
  <1> QED BY <1>1, <1>2

-----------------------------------------------------------------------------
(* Sums over finite sets.                                                  *)

\* A property of the empty set that holds of every set without one of whose
\* elements it holds, holds of every subset of a finite set.
LEMMA SubsetInduction ==
  ASSUME NEW D, IsFiniteSet(D), NEW P, {} \in P,
         \A s \in SUBSET D : s # {} /\ (\A x \in s : s \ {x} \in P) => s \in P
  PROVE  SUBSET D \subseteq P
  <1> DEFINE Good == {n \in Nat : \A s \in SUBSET D : Cardinality(s) = n => s \in P}
  <1>0. \A s \in SUBSET D : IsFiniteSet(s) /\ Cardinality(s) \in Nat
    BY FS_Subset, FS_CardinalityType
  <1>1. 0 \in Good
    BY <1>0, FS_EmptySet
  <1>2. ASSUME NEW n \in Nat, n \in Good PROVE n + 1 \in Good
    <2> SUFFICES ASSUME NEW s \in SUBSET D, Cardinality(s) = n + 1 PROVE s \in P
      OBVIOUS
    <2>1. s # {}
      <3> SUFFICES ASSUME s = {} PROVE FALSE
        OBVIOUS
      <3>1. Cardinality(s) = 0
        BY FS_EmptySet
      <3> QED BY <3>1
    <2>2. ASSUME NEW x \in s PROVE s \ {x} \in P
      <3>1. Cardinality(s \ {x}) = Cardinality(s) - 1
        BY <1>0, FS_RemoveElement
      <3>2. s \ {x} \in SUBSET D /\ Cardinality(s \ {x}) = n
        BY <3>1
      <3> QED BY <1>2, <3>2
    <2> QED BY <2>1, <2>2
  <1>3. Nat \subseteq Good
    <2> HIDE DEF Good
    <2> QED BY <1>1, <1>2, SetInduction
  <1> QED BY <1>0, <1>3

One(s) == CHOOSE x \in s : TRUE

LEMMA OneIsIn == \A s : s # {} => One(s) \in s
  BY DEF One

\* The sums of f over the subsets of D, as MapThenFoldSet takes them.
AddsUp(h, f, D) == h = [s \in SUBSET D |-> IF s = {} THEN 0 ELSE f[One(s)] + h[s \ {One(s)}]]

LEMMA SumsExist ==
  ASSUME NEW D, IsFiniteSet(D), NEW f \in [D -> Int]
  PROVE  \E h : AddsUp(h, f, D)
  <1> DEFINE eq(h, s) == h[s] = IF s = {} THEN 0 ELSE f[One(s)] + h[s \ {One(s)}]
             Good == {n \in Nat : \E h : \A s \in SUBSET D : Cardinality(s) <= n => eq(h, s)}
  <1>0. \A s \in SUBSET D : IsFiniteSet(s) /\ Cardinality(s) \in Nat
    BY FS_Subset, FS_CardinalityType
  <1>1. 0 \in Good
    <2>1. PICK h : h = [s \in SUBSET D |-> 0]
      OBVIOUS
    <2>2. ASSUME NEW s \in SUBSET D, Cardinality(s) <= 0 PROVE eq(h, s)
      <3>1. s = {}
        BY <1>0, <2>2, FS_EmptySet
      <3> QED BY <2>1, <3>1
    <2> QED BY <2>2
  <1>2. ASSUME NEW n \in Nat, n \in Good PROVE n + 1 \in Good
    <2>1. PICK h : \A s \in SUBSET D : Cardinality(s) <= n => eq(h, s)
      BY <1>2
    <2>2. PICK g : g = [s \in SUBSET D |-> IF s = {} THEN 0 ELSE f[One(s)] + h[s \ {One(s)}]]
      OBVIOUS
    <2>3. ASSUME NEW s \in SUBSET D, Cardinality(s) <= n PROVE g[s] = h[s]
      BY <2>1, <2>2, <2>3
    <2>4. ASSUME NEW s \in SUBSET D, Cardinality(s) <= n + 1 PROVE eq(g, s)
      <3>1. CASE s = {}
        BY <2>2, <3>1
      <3>2. CASE s # {}
        <4>1. One(s) \in s
          BY <3>2, OneIsIn
        <4>2. Cardinality(s \ {One(s)}) = Cardinality(s) - 1
          BY <1>0, <4>1, FS_RemoveElement
        <4>3. PICK t \in SUBSET D : t = s \ {One(s)}
          OBVIOUS
        <4>4. Cardinality(t) <= n
          BY <1>0, <2>4, <4>2, <4>3
        <4>5. g[t] = h[t]
          BY <2>3, <4>4
        <4> QED BY <2>2, <3>2, <4>3, <4>5
      <3> QED BY <3>1, <3>2
    <2> HIDE DEF eq
    <2> QED BY <2>4
  <1>3. Nat \subseteq Good
    <2> HIDE DEF Good
    <2> QED BY <1>1, <1>2, SetInduction
  <1>4. PICK h : \A s \in SUBSET D : eq(h, s)
    <2>1. Cardinality(D) \in Good
      <3> HIDE DEF Good
      <3> QED BY <1>0, <1>3
    <2>2. PICK h : \A s \in SUBSET D : Cardinality(s) <= Cardinality(D) => eq(h, s)
      BY <2>1
    <2>3. \A s \in SUBSET D : Cardinality(s) <= Cardinality(D)
      BY FS_Subset
    <2> HIDE DEF eq
    <2> QED BY <2>2, <2>3
  <1>5. PICK g : g = [s \in SUBSET D |-> h[s]]
    OBVIOUS
  <1>6. ASSUME NEW s \in SUBSET D PROVE g[s] = IF s = {} THEN 0 ELSE f[One(s)] + g[s \ {One(s)}]
    <2>1. s \ {One(s)} \in SUBSET D
      OBVIOUS
    <2> QED BY <1>4, <1>5, <2>1
  <1>7. g = [s \in SUBSET D |-> IF s = {} THEN 0 ELSE f[One(s)] + g[s \ {One(s)}]]
    BY <1>5, <1>6
  <1> QED BY <1>7 DEF AddsUp

Sums(h, f, D) ==
  /\ h[{}] = 0
  /\ \A s \in SUBSET D : h[s] \in Int
  /\ \A s \in SUBSET D : \A x \in s : h[s] = f[x] + h[s \ {x}]

\* A sum is an integer, and any element may be taken out of it first.
LEMMA SumRules ==
  ASSUME NEW D, IsFiniteSet(D), NEW f \in [D -> Int], NEW h, AddsUp(h, f, D)
  PROVE  Sums(h, f, D)
  <1>0. /\ \A s \in SUBSET D : h[s] = IF s = {} THEN 0 ELSE f[One(s)] + h[s \ {One(s)}]
        /\ h[{}] = 0
    <2>1. \A s \in SUBSET D : h[s] = IF s = {} THEN 0 ELSE f[One(s)] + h[s \ {One(s)}]
      BY DEF AddsUp
    <2> QED BY <2>1
  <1>1. \A s \in SUBSET D : h[s] \in Int
    <2> DEFINE P == {s \in SUBSET D : h[s] \in Int}
    <2>1. {} \in P
      BY <1>0
    <2>2. ASSUME NEW s \in SUBSET D, s # {}, \A x \in s : s \ {x} \in P PROVE s \in P
      <3>1. One(s) \in s
        BY <2>2, OneIsIn
      <3>2. PICK t \in SUBSET D : t = s \ {One(s)}
        OBVIOUS
      <3>3. h[t] \in Int /\ f[One(s)] \in Int
        BY <2>2, <3>1, <3>2
      <3>4. h[s] = f[One(s)] + h[t]
        BY <1>0, <2>2, <3>2
      <3> QED BY <3>3, <3>4
    <2>3. SUBSET D \subseteq P
      <3> HIDE DEF P
      <3> QED BY <2>1, <2>2, SubsetInduction
    <2> QED BY <2>3
  <1>2. \A s \in SUBSET D : \A x \in s : h[s] = f[x] + h[s \ {x}]
    <2> DEFINE P == {s \in SUBSET D : \A x \in s : h[s] = f[x] + h[s \ {x}]}
    <2>1. {} \in P
      OBVIOUS
    <2>2. ASSUME NEW s \in SUBSET D, s # {}, \A x \in s : s \ {x} \in P PROVE s \in P
      <3> SUFFICES ASSUME NEW x \in s PROVE h[s] = f[x] + h[s \ {x}]
        OBVIOUS
      <3>1. PICK y \in s : y = One(s)
        BY <2>2, OneIsIn
      <3>2. h[s] = f[y] + h[s \ {y}]
        BY <1>0, <2>2, <3>1
      <3>3. CASE x = y
        BY <3>2, <3>3
      <3>4. CASE x # y
        <4>1. PICK t \in SUBSET D : t = (s \ {x}) \ {y}
          OBVIOUS
        <4>2. t = (s \ {y}) \ {x}
          BY <4>1
        <4>3. h[s \ {y}] = f[x] + h[t]
          <5>1. s \ {y} \in P /\ x \in s \ {y}
            BY <2>2, <3>4
          <5> QED BY <4>2, <5>1
        <4>4. h[s \ {x}] = f[y] + h[t]
          <5>1. s \ {x} \in P /\ y \in s \ {x}
            BY <2>2, <3>4
          <5> QED BY <4>1, <5>1
        <4>5. h[t] \in Int /\ f[x] \in Int /\ f[y] \in Int
          BY <1>1
        <4> HIDE DEF P
        <4> QED BY <3>2, <4>3, <4>4, <4>5
      <3> QED BY <3>3, <3>4
    <2>3. SUBSET D \subseteq P
      <3> HIDE DEF P
      <3> QED BY <2>1, <2>2, SubsetInduction
    <2> QED BY <2>3
  <1> QED BY <1>0, <1>1, <1>2 DEF Sums

\* What functions that differ in a set of places differ by in sum: those places'
\* differences, which may have names of their own.
LEMMA SumOfChanges ==
  ASSUME NEW D, IsFiniteSet(D), NEW I, IsFiniteSet(I), NEW f \in [D -> Int], NEW e \in [D -> Int],
         NEW a \in [I -> Int], NEW m \in [I -> D],
         \A i, j \in I : m[i] = m[j] => i = j,
         \A i \in I : a[i] = f[m[i]] - e[m[i]],
         \A x \in D : (\A i \in I : m[i] # x) => f[x] = e[x],
         NEW h, AddsUp(h, f, D), NEW g, AddsUp(g, e, D), NEW k, AddsUp(k, a, I)
  PROVE  k[I] = h[D] - g[D]
  <1> DEFINE Places(s) == {m[i] : i \in s}
  <1>s. Sums(h, f, D) /\ Sums(g, e, D) /\ Sums(k, a, I)
    BY SumRules
  <1>0. /\ \A s \in SUBSET D : h[s] \in Int /\ g[s] \in Int
        /\ \A s \in SUBSET I : k[s] \in Int
        /\ h[{}] = 0 /\ g[{}] = 0 /\ k[{}] = 0
    BY <1>s DEF Sums
  <1>h. \A s \in SUBSET D : \A x \in s : h[s] = f[x] + h[s \ {x}]
    BY <1>s DEF Sums
  <1>g. \A s \in SUBSET D : \A x \in s : g[s] = e[x] + g[s \ {x}]
    BY <1>s DEF Sums
  <1>k. \A s \in SUBSET I : \A i \in s : k[s] = a[i] + k[s \ {i}]
    BY <1>s DEF Sums
  <1>1. \A s \in SUBSET I : Places(s) \in SUBSET D
    OBVIOUS
  <1>p. /\ Places({}) = {}
        /\ \A s \in SUBSET I : \A i \in s : Places(s \ {i}) = Places(s) \ {m[i]} /\ m[i] \in Places(s)
    OBVIOUS
  <1>3. PICK T \in SUBSET D : T = Places(I)
    BY <1>1
  <1>4. \A x \in D \ T : f[x] = e[x]
    BY <1>3
  <1> HIDE DEF Places
  <1>2. \A s \in SUBSET I : k[s] = h[Places(s)] - g[Places(s)]
    <2> DEFINE P == {s \in SUBSET I : k[s] = h[Places(s)] - g[Places(s)]}
    <2>1. {} \in P
      <3>1. k[{}] = h[{}] - g[{}]
        BY <1>0
      <3> QED BY <1>p, <3>1
    <2>2. ASSUME NEW s \in SUBSET I, s # {}, \A i \in s : s \ {i} \in P PROVE s \in P
      <3>1. PICK i \in s : TRUE
        BY <2>2
      <3>2. Places(s \ {i}) = Places(s) \ {m[i]} /\ m[i] \in Places(s)
        BY <1>p
      <3>3. PICK t \in SUBSET D, u \in SUBSET D : t = Places(s) /\ u = Places(s \ {i})
        BY <1>1
      <3>4. h[t] = f[m[i]] + h[u] /\ g[t] = e[m[i]] + g[u]
        <4>1. m[i] \in t /\ u = t \ {m[i]}
          BY <3>2, <3>3
        <4> QED BY <1>h, <1>g, <4>1
      <3>5. k[s] = a[i] + k[s \ {i}] /\ k[s \ {i}] = h[u] - g[u]
        <4>1. s \ {i} \in P
          BY <2>2
        <4> QED BY <1>k, <3>3, <4>1
      <3>6. f[m[i]] \in Int /\ e[m[i]] \in Int /\ h[u] \in Int /\ g[u] \in Int /\ a[i] = f[m[i]] - e[m[i]]
        BY <1>0
      <3>7. k[s] = h[t] - g[t]
        BY <3>4, <3>5, <3>6
      <3> QED BY <3>3, <3>7
    <2>3. SUBSET I \subseteq P
      <3> HIDE DEF P
      <3> QED BY <2>1, <2>2, SubsetInduction
    <2> QED BY <2>3
  <1>5. \A s \in SUBSET (D \ T) : h[T \cup s] - g[T \cup s] = h[T] - g[T]
    <2> DEFINE P == {s \in SUBSET (D \ T) : h[T \cup s] - g[T \cup s] = h[T] - g[T]}
    <2>0. IsFiniteSet(D \ T)
      BY FS_Subset
    <2>1. {} \in P
      <3>1. T \cup {} = T
        OBVIOUS
      <3> QED BY <3>1
    <2>2. ASSUME NEW s \in SUBSET (D \ T), s # {}, \A x \in s : s \ {x} \in P PROVE s \in P
      <3>1. PICK x \in s : TRUE
        BY <2>2
      <3>2. PICK t \in SUBSET D, u \in SUBSET D : t = T \cup s /\ u = T \cup (s \ {x})
        OBVIOUS
      <3>3. x \in t /\ u = t \ {x} /\ x \in D \ T
        BY <3>2
      <3>4. h[t] = f[x] + h[u] /\ g[t] = e[x] + g[u] /\ f[x] = e[x]
        BY <1>h, <1>g, <1>4, <3>3
      <3>5. h[u] - g[u] = h[T] - g[T]
        <4>1. s \ {x} \in P
          BY <2>2
        <4> QED BY <3>2, <4>1
      <3>6. f[x] \in Int /\ h[u] \in Int /\ g[u] \in Int
        BY <1>0, <3>3
      <3>7. h[t] - g[t] = h[T] - g[T]
        BY <3>4, <3>5, <3>6
      <3> QED BY <3>2, <3>7
    <2>3. SUBSET (D \ T) \subseteq P
      <3> HIDE DEF P
      <3> QED BY <2>0, <2>1, <2>2, SubsetInduction
    <2> QED BY <2>3
  <1>7. h[D] - g[D] = h[T] - g[T]
    <2>1. PICK s \in SUBSET (D \ T) : s = D \ T
      OBVIOUS
    <2>2. T \cup s = D
      BY <2>1
    <2> QED BY <1>5, <2>2
  <1>8. k[I] = h[T] - g[T]
    BY <1>2, <1>3
  <1> QED BY <1>7, <1>8

LEMMA SumOverAdds ==
  ASSUME IsFiniteSet(States), NEW f \in [States -> Int]
  PROVE  \E h : AddsUp(h, f, States) /\ SumOver(f) = h[States]
  <1>1. \E h : AddsUp(h, f, States)
    BY SumsExist
  <1>2. PICK h : h = CHOOSE g : g = [s \in SUBSET States |->
                     IF s = {} THEN 0 ELSE f[One(s)] + g[s \ {One(s)}]]
    OBVIOUS
  <1>3. AddsUp(h, f, States)
    BY <1>1, <1>2 DEF AddsUp
  <1>4. SumOver(f) = h[States]
    BY <1>2 DEF SumOver, MapThenSumSet, MapThenFoldSet, One
  <1> QED BY <1>3, <1>4

\* Discarded adds in the other order.
LEMMA DiscardedAdds ==
  ASSUME NEW states, IsFiniteSet(DOMAIN states), NEW a \in [DOMAIN states -> Int],
         \A i \in DOMAIN states : a[i] = states[i].interest
  PROVE  \E k : AddsUp(k, a, DOMAIN states) /\ Discarded(states) = k[DOMAIN states]
  <1> DEFINE D == DOMAIN states
             eq(h) == h = [s \in SUBSET D |->
                             IF s = {} THEN 0 ELSE h[s \ {One(s)}] + states[One(s)].interest]
  <1>1. PICK j : AddsUp(j, a, D)
    BY SumsExist
  <1>2. eq(j)
    <2>1. \A s \in SUBSET D : j[s] \in Int
      BY <1>1, SumRules DEF Sums
    <2>2. j = [s \in SUBSET D |-> IF s = {} THEN 0 ELSE a[One(s)] + j[s \ {One(s)}]]
      BY <1>1 DEF AddsUp
    <2>3. ASSUME NEW s \in SUBSET D
          PROVE  j[s] = IF s = {} THEN 0 ELSE j[s \ {One(s)}] + states[One(s)].interest
      <3>1. CASE s = {}
        BY <2>2, <3>1
      <3>2. CASE s # {}
        <4>1. One(s) \in s
          BY <3>2, OneIsIn
        <4>2. PICK t \in SUBSET D : t = s \ {One(s)}
          OBVIOUS
        <4>3. j[t] \in Int /\ a[One(s)] \in Int /\ a[One(s)] = states[One(s)].interest
          BY <2>1, <4>1
        <4>4. j[s] = a[One(s)] + j[t]
          BY <2>2, <3>2, <4>2
        <4> QED BY <3>2, <4>2, <4>3, <4>4
      <3> QED BY <3>1, <3>2
    <2>4. j = [s \in SUBSET D |-> j[s]]
      BY <2>2
    <2> QED BY <2>3, <2>4
  <1>3. PICK k : k = CHOOSE h : eq(h)
    OBVIOUS
  <1>4. eq(k)
    <2> HIDE DEF eq
    <2> QED BY <1>2, <1>3
  <1>5. \A s \in SUBSET D : k[s] = j[s]
    <2> DEFINE P == {s \in SUBSET D : k[s] = j[s]}
    <2>1. {} \in P
      <3>1. {} \in SUBSET D
        OBVIOUS
      <3>2. k[{}] = 0
        BY <1>4, <3>1
      <3>3. j[{}] = 0
        BY <1>1, SumRules DEF Sums
      <3> QED BY <3>2, <3>3
    <2>2. ASSUME NEW s \in SUBSET D, s # {}, \A x \in s : s \ {x} \in P PROVE s \in P
      <3>1. One(s) \in s
        BY <2>2, OneIsIn
      <3>2. PICK t \in SUBSET D : t = s \ {One(s)}
        OBVIOUS
      <3>3. k[t] = j[t]
        BY <2>2, <3>1, <3>2
      <3>4. k[s] = k[t] + states[One(s)].interest /\ j[s] = j[t] + states[One(s)].interest
        BY <1>2, <1>4, <2>2, <3>2
      <3> QED BY <3>3, <3>4
    <2>3. SUBSET D \subseteq P
      <3> HIDE DEF P
      <3> QED BY <2>1, <2>2, SubsetInduction
    <2> QED BY <2>3
  <1>6. k[D] = j[D]
    BY <1>5
  <1>7. Discarded(states) = k[D]
    BY <1>3 DEF Discarded, FoldSeq, FoldFunction, FoldFunctionOnSet, MapThenFoldSet, One
  <1> QED BY <1>1, <1>6, <1>7

-----------------------------------------------------------------------------
(* What a collection returns.                                              *)

\* The states a country lists; country 0 lists none.
LEMMA ListedIs ==
  ASSUME heap \in Worlds, NEW c \in 0 .. heap.countries - 1
  PROVE  Listed(c) \in Seq(States) /\ (c = 0 => Listed(c) = <<>>)
  <1>1. IsGame(heap)
    BY FixAssumption
  <1>2. heap.states[c].nodes \in Seq([data : States \cup {None}, deleted : BOOLEAN])
    BY <1>1 DEF IsGame
  <1>3. PICK ns \in Seq([data : States \cup {None}, deleted : BOOLEAN]) : ns = heap.states[c].nodes
    BY <1>2
  <1>4. PICK ss : ss = [i \in DOMAIN ns |-> IF ns[i].deleted \/ ns[i].data = None THEN <<>> ELSE <<ns[i].data>>]
    OBVIOUS
  <1>5. ss \in Seq(Seq(States)) /\ Len(ss) = Len(ns)
    <2>1. DOMAIN ns = 1 .. Len(ns) /\ Len(ns) \in Nat
      BY LenProperties
    <2>2. ASSUME NEW i \in 1 .. Len(ns) PROVE ss[i] \in Seq(States)
      <3>1. ns[i].data \in States \cup {None}
        <4>1. ns[i] \in [data : States \cup {None}, deleted : BOOLEAN]
          BY ElementOfSeq
        <4> QED BY <4>1
      <3>2. CASE ns[i].deleted \/ ns[i].data = None
        BY <1>4, <2>1, <3>2
      <3>3. CASE ~(ns[i].deleted \/ ns[i].data = None)
        BY <1>4, <2>1, <3>1, <3>3
      <3> QED BY <3>2, <3>3
    <2> QED BY <1>4, <2>1, <2>2
  <1>6. Listed(c) = FlattenSeq(ss)
    BY <1>3, <1>4 DEF Listed
  <1>7. Listed(c) \in Seq(States)
    BY <1>5, <1>6, FlattenPlaces
  <1>8. c = 0 => Listed(c) = <<>>
    <2> SUFFICES ASSUME c = 0 PROVE Listed(c) = <<>>
      OBVIOUS
    <2>1. heap.states[0].nodes = <<>>
      BY <1>1 DEF IsGame
    <2>2. ns = <<>>
      BY <1>3, <2>1
    <2>3. ss = <<>>
      BY <1>5, <2>2
    <2> QED BY <1>6, <2>3 DEF FlattenSeq
  <1> QED BY <1>7, <1>8

\* The POPs of a state, one province after the other and one list after the other.
LEMMA PopsAreSeq ==
  ASSUME heap \in Worlds, NEW s \in States
  PROVE  PopsIn(s) \in Seq(Pops)
  <1>1. IsGame(heap)
    BY FixAssumption
  <1>2. ASSUME NEW p \in DOMAIN heap.lists PROVE PopsOf(p) \in Seq(Pops)
    <2>1. PICK cs : cs = [i \in DOMAIN heap.lists[p] |-> heap.lists[p][i].chain]
      OBVIOUS
    <2>2. /\ DOMAIN heap.lists[p] = 1 .. Len(heap.lists[p]) /\ Len(heap.lists[p]) \in Nat
          /\ \A i \in DOMAIN heap.lists[p] : heap.lists[p][i].chain \in Seq(Pops)
      BY <1>1 DEF IsGame
    <2>3. cs \in Seq(Seq(Pops))
      BY <2>1, <2>2
    <2>4. PopsOf(p) = FlattenSeq(cs)
      BY <2>1 DEF PopsOf
    <2> QED BY <2>3, <2>4, FlattenPlaces
  <1>3. heap.provinces[s] \in Seq(Provinces)
    BY <1>1 DEF IsGame
  <1>4. PICK ps \in Seq(Provinces) : ps = heap.provinces[s]
    BY <1>3
  <1>5. PICK cs : cs = [i \in DOMAIN ps |-> IF ps[i] \in DOMAIN heap.lists THEN PopsOf(ps[i]) ELSE <<>>]
    OBVIOUS
  <1>6. cs \in Seq(Seq(Pops))
    <2>1. DOMAIN ps = 1 .. Len(ps) /\ Len(ps) \in Nat
      BY LenProperties
    <2>2. \A i \in DOMAIN ps : cs[i] \in Seq(Pops)
      BY <1>2, <1>5
    <2> QED BY <1>5, <2>1, <2>2
  <1>7. PopsIn(s) = FlattenSeq(cs)
    BY <1>4, <1>5 DEF PopsIn
  <1> QED BY <1>6, <1>7, FlattenPlaces

\* A collection that succeeds is of a country, and has what its states hold.
Collects(found, c) ==
  /\ DOMAIN found.states = 1 .. Len(Listed(c)) /\ found.states \in Seq(ToSet(found.states))
  /\ \A i \in 1 .. Len(Listed(c)) :
       /\ found.states[i].state = Listed(c)[i] /\ found.states[i].interest = pool[Listed(c)[i]]
       /\ found.states[i].count \in Nat
  /\ IsInjective(Listed(c))

LEMMA CollectIs ==
  ASSUME heap \in Worlds, NEW c \in 0 .. heap.countries - 1, NEW capacity, NEW withPops \in BOOLEAN, NEW maxRaw,
         CollectCountryStateInterest(c, capacity, withPops, maxRaw).ok
  PROVE  Collects(CollectCountryStateInterest(c, capacity, withPops, maxRaw), c)
  <1>1. PICK states \in Seq(States) : states = Listed(c)
    BY ListedIs
  <1>2. DOMAIN states = 1 .. Len(states) /\ Len(states) \in Nat /\ \A i \in 1 .. Len(states) : states[i] \in States
    BY LenProperties
  <1>3. PICK found : found = CollectCountryStateInterest(c, capacity, withPops, maxRaw)
    OBVIOUS
  <1>4. CollectionIsWhole(c, capacity, withPops, maxRaw)
    BY DEF CollectCountryStateInterest, NoCollection
  <1>5. IsInjective(states)
    BY <1>1, <1>4 DEF CollectionIsWhole
  <1>6. /\ DOMAIN found.states = DOMAIN states /\ found.states = [i \in DOMAIN states |-> found.states[i]]
        /\ \A i \in DOMAIN states :
             /\ found.states[i].state = states[i] /\ found.states[i].interest = pool[states[i]]
             /\ found.states[i].count = IF withPops /\ pool[states[i]] > 0 THEN Len(PopsIn(states[i])) ELSE 0
    <2>1. PICK all : all = [i \in DOMAIN Listed(c) |->
              [state |-> Listed(c)[i], interest |-> pool[Listed(c)[i]],
               first |-> Len(PopsAsked(SubSeq(Listed(c), 1, i - 1), withPops)),
               count |-> IF withPops /\ pool[Listed(c)[i]] > 0 THEN Len(PopsIn(Listed(c)[i])) ELSE 0]]
      OBVIOUS
    <2>2. found = [ok |-> TRUE, states |-> all, pops |-> PopsAsked(Listed(c), withPops)]
      BY <1>3, <1>4, <2>1, Zenon DEF CollectCountryStateInterest
    <2>3. found.states = all
      BY <2>2
    <2> QED BY <1>1, <2>1, <2>3
  <1>7. ASSUME NEW i \in 1 .. Len(states) PROVE found.states[i].count \in Nat
    <2>1. Len(PopsIn(states[i])) \in Nat
      BY <1>2, PopsAreSeq, LenProperties
    <2> QED BY <1>2, <1>6, <2>1
  <1>8. found.states \in Seq(ToSet(found.states))
    <2>1. PICK t : t = found.states
      OBVIOUS
    <2>2. t = [i \in 1 .. Len(states) |-> t[i]]
      BY <1>2, <1>6, <2>1
    <2>3. t \in [1 .. Len(states) -> ToSet(t)]
      BY <2>2 DEF ToSet
    <2> QED BY <1>2, <2>1, <2>3
  <1> QED BY <1>1, <1>2, <1>3, <1>5, <1>6, <1>7, <1>8 DEF Collects

LEMMA ResolvedIs ==
  ASSUME NEW c, NEW capacity, NEW withPops, NEW maxRaw,
         CollectCountryStateInterest(ResolveCountry(c), capacity, withPops, maxRaw).ok
  PROVE  ResolveCountry(c) = c
  <1>1. ResolveCountry(c) # None
    BY DEF CollectCountryStateInterest, NoCollection, CollectionIsWhole
  <1> QED BY <1>1 DEF ResolveCountry

\* A campaign whose countries were all collected, without a state seen twice,
\* has every state that a country lists; so no two countries list the same one.
CampaignHolds ==
  /\ DOMAIN Campaign = 1 .. Len(Campaign) /\ Len(Campaign) \in Nat
  /\ \A i \in DOMAIN Campaign :
       Campaign[i].state \in States /\ Campaign[i].interest = pool[Campaign[i].state]
  /\ \A i, j \in DOMAIN Campaign : Campaign[i].state = Campaign[j].state => i = j
  /\ \A c \in 1 .. heap.countries - 1 : \A s \in ToSet(Listed(c)) :
       \E i \in DOMAIN Campaign : Campaign[i].state = s
  /\ \A c, d \in 0 .. heap.countries - 1 : c # d => ToSet(Listed(c)) \cap ToSet(Listed(d)) = {}

LEMMA CampaignIs ==
  ASSUME heap \in Worlds,
         \A c \in 1 .. heap.countries - 1 :
             CollectCountryStateInterest(ResolveCountry(c), MaxStates, FALSE, MaxRaw).ok,
         IsInjective([i \in DOMAIN Campaign |-> Campaign[i].state])
  PROVE  CampaignHolds
  <1>1. PICK n \in Nat : n = heap.countries - 1
    <2>1. IsGame(heap)
      BY FixAssumption
    <2>2. heap.countries - 1 \in Nat
      BY <2>1 DEF IsGame
    <2> QED BY <2>2
  <1>2. PICK ss : ss = [c \in 1 .. heap.countries - 1 |->
                          CollectCountryStateInterest(ResolveCountry(c), MaxStates, FALSE, MaxRaw).states]
    OBVIOUS
  <1>3. DOMAIN ss = 1 .. n
    BY <1>1, <1>2
  <1>4. ASSUME NEW c \in 1 .. n
        PROVE  /\ ss[c] \in Seq(ToSet(ss[c])) /\ DOMAIN ss[c] = 1 .. Len(Listed(c)) /\ Len(ss[c]) = Len(Listed(c))
               /\ Len(Listed(c)) \in Nat /\ DOMAIN Listed(c) = 1 .. Len(Listed(c)) /\ Listed(c) \in Seq(States)
               /\ \A i \in 1 .. Len(Listed(c)) :
                    ss[c][i].state = Listed(c)[i] /\ ss[c][i].interest = pool[Listed(c)[i]]
    <2>1. c \in 0 .. heap.countries - 1 /\ c \in 1 .. heap.countries - 1
      BY <1>1
    <2>2. ResolveCountry(c) = c
      BY <2>1, ResolvedIs
    <2>3. CollectCountryStateInterest(c, MaxStates, FALSE, MaxRaw).ok
      BY <2>1, <2>2
    <2>4. ss[c] = CollectCountryStateInterest(c, MaxStates, FALSE, MaxRaw).states
      BY <1>2, <2>1, <2>2
    <2>5. PICK found : found = CollectCountryStateInterest(c, MaxStates, FALSE, MaxRaw)
      OBVIOUS
    <2>6. Collects(found, c)
      BY <2>1, <2>3, <2>5, CollectIs
    <2>7. ss[c] = found.states
      BY <2>4, <2>5
    <2>8. Listed(c) \in Seq(States) /\ Len(Listed(c)) \in Nat /\ DOMAIN Listed(c) = 1 .. Len(Listed(c))
      BY <2>1, ListedIs, LenProperties
    <2>9. ss[c] \in Seq(ToSet(ss[c])) /\ DOMAIN ss[c] = 1 .. Len(Listed(c))
      BY <2>6, <2>7 DEF Collects
    <2>10. Len(ss[c]) = Len(Listed(c))
      <3>1. Len(ss[c]) \in Nat /\ DOMAIN ss[c] = 1 .. Len(ss[c])
        BY <2>9, LenProperties
      <3> QED BY <2>8, <2>9, <3>1
    <2> QED BY <2>6, <2>7, <2>8, <2>9, <2>10 DEF Collects
  <1> DEFINE R == UNION {ToSet(ss[c]) : c \in 1 .. n}
  <1>5. ss \in Seq(Seq(R)) /\ Len(ss) = n
    <2>1. ASSUME NEW c \in 1 .. n PROVE ss[c] \in Seq(R)
      <3>1. ToSet(ss[c]) \subseteq R
        OBVIOUS
      <3>2. ss[c] \in Seq(ToSet(ss[c]))
        BY <1>4
      <3> HIDE DEF R
      <3> QED BY <3>1, <3>2, SeqMonotonic
    <2> HIDE DEF R
    <2>2. ss = [c \in 1 .. n |-> ss[c]]
      BY <1>1, <1>2
    <2> QED BY <2>1, <2>2
  <1>6. \A x \in R : \E c \in 1 .. n : \E i \in 1 .. Len(Listed(c)) : x = ss[c][i]
    <2>1. ASSUME NEW x \in R PROVE \E c \in 1 .. n : x \in ToSet(ss[c])
      BY <2>1
    <2>2. ASSUME NEW c \in 1 .. n, NEW x \in ToSet(ss[c]) PROVE \E i \in 1 .. Len(Listed(c)) : x = ss[c][i]
      BY <1>4, <2>2 DEF ToSet
    <2> HIDE DEF R
    <2> QED BY <2>1, <2>2
  <1> HIDE DEF R
  <1>7. Campaign = FlattenSeq(ss)
    BY <1>2 DEF Campaign
  <1>8. Campaign \in Seq(R)
    BY <1>5, <1>7, FlattenPlaces
  <1>p. PICK start \in [1 .. n -> Nat] : InPlace(Campaign, ss, start)
    <2>1. ss \in Seq(Seq(R))
      BY <1>5
    <2>2. \E start \in [1 .. Len(ss) -> Nat] : InPlace(FlattenSeq(ss), ss, start)
      BY <2>1, FlattenPlaces
    <2> QED BY <1>5, <1>7, <2>2
  <1>9. /\ \A c \in 1 .. n : \A i \in 1 .. Len(ss[c]) :
             start[c] + i \in 1 .. Len(Campaign) /\ Campaign[start[c] + i] = ss[c][i]
        /\ \A c, d \in 1 .. n : c < d => start[c] + Len(ss[c]) <= start[d]
    BY <1>5, <1>p DEF InPlace
  <1>10. DOMAIN Campaign = 1 .. Len(Campaign) /\ Len(Campaign) \in Nat
    BY <1>8, LenProperties
  <1>11. ASSUME NEW i \in DOMAIN Campaign
         PROVE  Campaign[i].state \in States /\ Campaign[i].interest = pool[Campaign[i].state]
    <2>1. PICK c \in 1 .. n : \E j \in 1 .. Len(Listed(c)) : Campaign[i] = ss[c][j]
      <3>1. Campaign[i] \in R
        BY <1>8, <1>10, ElementOfSeq
      <3> QED BY <1>6, <3>1
    <2>2. PICK j \in 1 .. Len(Listed(c)) : Campaign[i] = ss[c][j]
      BY <2>1
    <2>3. Listed(c)[j] \in States
      BY <1>4, ElementOfSeq
    <2> QED BY <1>4, <2>2, <2>3
  <1>12. ASSUME NEW c \in 1 .. n, NEW i \in DOMAIN Listed(c)
         PROVE  start[c] + i \in DOMAIN Campaign /\ Campaign[start[c] + i].state = Listed(c)[i]
    <2>1. i \in 1 .. Len(ss[c]) /\ i \in 1 .. Len(Listed(c))
      BY <1>4
    <2> QED BY <1>4, <1>9, <1>10, <2>1
  <1>13. ASSUME NEW c \in 1 .. n, NEW s \in ToSet(Listed(c)) PROVE \E i \in DOMAIN Campaign : Campaign[i].state = s
    BY <1>12 DEF ToSet
  <1>14. ASSUME NEW c \in 1 .. n, NEW d \in 1 .. n, c < d PROVE ToSet(Listed(c)) \cap ToSet(Listed(d)) = {}
    <2> SUFFICES ASSUME NEW i \in DOMAIN Listed(c), NEW j \in DOMAIN Listed(d), Listed(c)[i] = Listed(d)[j]
                 PROVE  FALSE
      BY DEF ToSet
    <2>1. start[c] + i = start[d] + j
      BY <1>12 DEF IsInjective
    <2>2. /\ start[c] + Len(ss[c]) <= start[d] /\ start[c] \in Nat /\ start[d] \in Nat
          /\ i \in 1 .. Len(ss[c]) /\ j \in Nat /\ j >= 1 /\ Len(ss[c]) \in Nat
      BY <1>4, <1>9, <1>14
    <2> QED BY <2>1, <2>2
  <1>15. ASSUME NEW c \in 0 .. n, NEW d \in 0 .. n, c # d PROVE ToSet(Listed(c)) \cap ToSet(Listed(d)) = {}
    <2>1. CASE c = 0 \/ d = 0
      <3>1. 0 \in 0 .. heap.countries - 1
        BY <1>1
      <3>2. Listed(0) = <<>>
        BY <3>1, ListedIs
      <3>3. ToSet(Listed(0)) = {}
        BY <3>2 DEF ToSet
      <3> QED BY <2>1, <3>3
    <2>2. CASE c # 0 /\ d # 0
      <3>1. c \in 1 .. n /\ d \in 1 .. n /\ (c < d \/ d < c)
        BY <1>15, <2>2
      <3> QED BY <1>14, <3>1
    <2> QED BY <2>1, <2>2
  <1>16. \A i, j \in DOMAIN Campaign : Campaign[i].state = Campaign[j].state => i = j
    BY DEF IsInjective
  <1> QED BY <1>1, <1>10, <1>11, <1>13, <1>15, <1>16 DEF CampaignHolds

\* What a cleanup leaves: nothing changed, an outcome that owns up to a partial
\* change, or every country's pools empty and their sum reported.
LEMMA DiscardOutcomes ==
  ASSUME NEW o \in DiscardStateInterestPools
  PROVE  \/ o.status # "success" /\ o.emptied = {}
         \/ o.status = "postcondition_failed"
         \/ /\ o.status = "success" /\ o.emptied = Emptied(Campaign) /\ o.discarded = Discarded(Campaign)
            /\ ReadCountryCount # None
            /\ \A c \in 1 .. ReadCountryCount - 1 :
                   CollectCountryStateInterest(ResolveCountry(c), MaxStates, FALSE, MaxRaw).ok
            /\ IsInjective([i \in DOMAIN Campaign |-> Campaign[i].state])
  <1> DEFINE success == [status |-> "success", emptied |-> Emptied(Campaign),
                         cleared |-> Cardinality(Emptied(Campaign)),
                         discarded |-> Discarded(Campaign), fault |-> FALSE]
             before(i) == Emptied(SubSeq(Campaign, 1, i - 1))
             failing(i) == {[status |-> "postcondition_failed", emptied |-> e,
                             cleared |-> Cardinality(before(i)),
                             discarded |-> Discarded(Campaign), fault |-> TRUE] :
                                e \in {before(i), before(i) \cup {Campaign[i].state}}}
             partial == UNION {failing(i) : i \in {k \in DOMAIN Campaign : Campaign[k].interest # 0}}
             refused == ReadCountryCount = None
             uncollected == \E c \in 1 .. ReadCountryCount - 1 :
                              ~CollectCountryStateInterest(ResolveCountry(c), MaxStates, FALSE, MaxRaw).ok
             injective == IsInjective([i \in DOMAIN Campaign |-> Campaign[i].state])
             stale == \E i \in DOMAIN Campaign : ~ValidateStatePool(Campaign[i].state, Campaign[i].interest)
  <1>0. DiscardStateInterestPools =
          IF CheckMutationAccess(FALSE) # "success" THEN {Refusal(CheckMutationAccess(FALSE))}
          ELSE IF \/ refused
                  \/ uncollected
                  \/ Len(Campaign) > MaxCampaignStates
               THEN {Refusal("unavailable")}
          ELSE IF ~injective THEN {Refusal("state_changed")}
          ELSE IF stale THEN {Refusal("not_writable")}
          ELSE IF Discarded(Campaign) > MaxRaw THEN {Refusal("balance_overflow")}
          ELSE {success} \cup partial
    BY Zenon DEF DiscardStateInterestPools
  <1> HIDE DEF success, failing, partial, refused, uncollected, injective, stale
  <1>1. \/ \E status : o = Refusal(status) /\ status # "success"
        \/ o \in partial
        \/ o = success /\ ~refused /\ ~uncollected /\ injective
    <2>1. \/ CheckMutationAccess(FALSE) # "success" /\ o = Refusal(CheckMutationAccess(FALSE))
          \/ o = Refusal("unavailable")
          \/ o = Refusal("state_changed")
          \/ o = Refusal("not_writable")
          \/ o = Refusal("balance_overflow")
          \/ o \in partial
          \/ o = success /\ ~refused /\ ~uncollected /\ injective
      BY <1>0
    <2>2. /\ "unavailable" # "success" /\ "state_changed" # "success" /\ "not_writable" # "success"
          /\ "balance_overflow" # "success"
      OBVIOUS
    <2> QED BY <2>1, <2>2
  <1>2. ASSUME NEW status, o = Refusal(status), status # "success" PROVE o.status # "success" /\ o.emptied = {}
    BY <1>2 DEF Refusal
  <1>3. ASSUME o \in partial PROVE o.status = "postcondition_failed"
    BY <1>3 DEF partial, failing
  <1>4. ASSUME o = success
        PROVE  o.status = "success" /\ o.emptied = Emptied(Campaign) /\ o.discarded = Discarded(Campaign)
    BY <1>4 DEF success
  <1> QED BY <1>1, <1>2, <1>3, <1>4 DEF refused, uncollected, injective

LEMMA DiscardIs ==
  ASSUME heap \in Worlds, NEW o \in DiscardStateInterestPools
  PROVE  /\ DiscardInterestPools(o) = "success" =>
              CampaignHolds /\ o.emptied = Emptied(Campaign) /\ o.discarded = Discarded(Campaign)
         /\ DiscardInterestPools(o) # "success" =>
              /\ MutationFixStatus(DiscardInterestPools(o), o.cleared # 0) \notin {"initialized", "paid"}
              /\ \/ o.emptied = {}
                 \/ MutationFixStatus(DiscardInterestPools(o), o.cleared # 0) = "partial_mutation"
  <1>1. DiscardInterestPools(o) = "success" <=> o.status = "success"
    BY DEF DiscardInterestPools, InterestResult
  <1>2. ASSUME o.status = "success"
        PROVE  CampaignHolds /\ o.emptied = Emptied(Campaign) /\ o.discarded = Discarded(Campaign)
    <2>1. /\ ReadCountryCount # None /\ IsInjective([i \in DOMAIN Campaign |-> Campaign[i].state])
          /\ \A c \in 1 .. ReadCountryCount - 1 :
                 CollectCountryStateInterest(ResolveCountry(c), MaxStates, FALSE, MaxRaw).ok
          /\ o.emptied = Emptied(Campaign) /\ o.discarded = Discarded(Campaign)
      BY <1>2, DiscardOutcomes
    <2>2. ReadCountryCount = heap.countries
      BY <2>1 DEF ReadCountryCount
    <2>3. CampaignHolds
      BY <2>1, <2>2, CampaignIs
    <2> QED BY <2>1, <2>3
  <1>3. ASSUME NEW result, NEW part \in BOOLEAN
        PROVE MutationFixStatus(result, part) \notin {"initialized", "paid"}
    BY DEF MutationFixStatus
  <1>4. o.status = "postcondition_failed" =>
          MutationFixStatus(DiscardInterestPools(o), o.cleared # 0) = "partial_mutation"
    BY DEF DiscardInterestPools, InterestResult, MutationFixStatus
  <1>5. o.status # "success" => o.emptied = {} \/ o.status = "postcondition_failed"
    BY DiscardOutcomes
  <1> QED BY <1>1, <1>2, <1>3, <1>4, <1>5

LEMMA NothingIsZero == Total(<<>>) = 0
  <1>1. DOMAIN <<>> = {}
    OBVIOUS
  <1>2. PICK h : h = [s \in SUBSET {} |-> 0]
    OBVIOUS
  <1> DEFINE eq(f) == f = [s \in SUBSET {} |-> IF s = {} THEN 0
                              ELSE f[s \ {CHOOSE x \in s : TRUE}] + <<>>[CHOOSE x \in s : TRUE].amount]
  <1>3. eq(h)
    <2>1. \A s \in SUBSET {} : s = {}
      OBVIOUS
    <2> QED BY <1>2, <2>1
  <1>4. PICK k : k = CHOOSE f : eq(f)
    OBVIOUS
  <1>5. eq(k)
    <2> HIDE DEF eq
    <2> QED BY <1>3, <1>4
  <1>6. k[{}] = 0
    <2>1. {} \in SUBSET {}
      OBVIOUS
    <2> QED BY <1>5, <2>1
  <1>7. Total(<<>>) = k[{}]
    BY <1>1, <1>4 DEF Total, FoldSeq, FoldFunction, FoldFunctionOnSet, MapThenFoldSet
  <1> QED BY <1>6, <1>7

\* The payments of a state are a sequence.
LEMMA EntriesAreSeq ==
  ASSUME NEW state, state.count \in Nat, NEW payout
  PROVE  \E R : Entries(state, payout) \in Seq(R)
  <1>1. PICK n \in Nat : n = state.count
    OBVIOUS
  <1>2. PICK ss : ss = [i \in 1 .. n |-> IF payout[i] = 0 THEN <<>>
                           ELSE <<[pop |-> call.pops[state.first + i], amount |-> payout[i]]>>]
    OBVIOUS
  <1>3. PICK R : R = {[pop |-> call.pops[state.first + i], amount |-> payout[i]] : i \in 1 .. n}
    OBVIOUS
  <1>4. \A i \in 1 .. n : ss[i] \in Seq(R)
    <2> SUFFICES ASSUME NEW i \in 1 .. n PROVE ss[i] \in Seq(R)
      OBVIOUS
    <2>1. PICK e \in R : e = [pop |-> call.pops[state.first + i], amount |-> payout[i]]
      BY <1>3
    <2>2. ss[i] = <<>> \/ ss[i] = <<e>>
      BY <1>2, <2>1
    <2>3. <<>> \in Seq(R) /\ <<e>> \in Seq(R)
      OBVIOUS
    <2> QED BY <2>2, <2>3
  <1>5. ss \in Seq(Seq(R))
    BY <1>2, <1>4
  <1>6. Entries(state, payout) = FlattenSeq(ss)
    BY <1>1, <1>2 DEF Entries
  <1> QED BY <1>5, <1>6, FlattenPlaces

\* What a payment leaves: paid in full, verified, and the pool empty; or
\* nothing changed; or an outcome that owns up to a partial change.
LEMMA PaymentOutcomes ==
  ASSUME NEW state, NEW entries, Len(entries) \in Nat, DOMAIN entries = 1 .. Len(entries),
         NEW o \in ApplyStateInterestPayout(state, entries)
  PROVE  /\ o.written \in Nat /\ o.emptied \in BOOLEAN
         /\ \/ o.status # "success" /\ o.written = 0 /\ ~o.emptied
            \/ o.status = "postcondition_failed"
            \/ /\ o.status = "success" /\ o.emptied /\ o.written = Len(entries) /\ o.verified = Len(entries)
               /\ pool[state.state] = state.interest
  <1> DEFINE failed == {[status |-> "postcondition_failed", written |-> n, verified |-> n - 1, emptied |-> FALSE,
                         fault |-> TRUE] : n \in DOMAIN entries}
             paid == [status |-> "success", written |-> Len(entries), verified |-> Len(entries),
                      emptied |-> FALSE, fault |-> FALSE]
  <1>1. ASSUME NEW b \in ApplyPopInterestBatch(entries)
        PROVE  \/ \E status : b = Unpaid(status) /\ status # "success"
               \/ b \in failed
               \/ b = paid
    <2> HIDE DEF failed, paid
    <2>1. \/ b = Unpaid("invalid_amount")
          \/ b = Unpaid("state_changed")
          \/ b = Unpaid(CheckSignature) /\ CheckSignature # "success"
          \/ b = Unpaid("balance_unreadable")
          \/ b = Unpaid("not_writable")
          \/ b \in failed
          \/ b = paid
      BY DEF ApplyPopInterestBatch, failed, paid
    <2>2. /\ "invalid_amount" # "success" /\ "state_changed" # "success" /\ "balance_unreadable" # "success"
          /\ "not_writable" # "success"
      OBVIOUS
    <2> QED BY <2>1, <2>2
  <1>2. \/ \E status : o = Unpaid(status) /\ status # "success"
        \/ /\ pool[state.state] = state.interest
           /\ \E b \in ApplyPopInterestBatch(entries) :
                \/ b.status # "success" /\ o = b
                \/ b.status = "success" /\ o = [b EXCEPT !.emptied = TRUE]
                \/ /\ b.status = "success"
                   /\ \E e, f \in BOOLEAN :
                        o = [b EXCEPT !.status = "postcondition_failed", !.emptied = e, !.fault = f]
    <2> DEFINE access == CheckMutationAccess(TRUE) = "success"
               applied(b) == IF b.status # "success" THEN {b}
                             ELSE (IF access THEN {[b EXCEPT !.emptied = TRUE]} ELSE {})
                                  \cup {[b EXCEPT !.status = "postcondition_failed", !.emptied = e, !.fault = access] :
                                           e \in IF access THEN BOOLEAN ELSE {FALSE}}
               stale == ~ValidateStatePool(state.state, state.interest) \/ state.state \notin auth.prepared
    <2>1. ApplyStateInterestPayout(state, entries) =
            IF CheckPreparedMutationAccess # "success" THEN {Unpaid(CheckPreparedMutationAccess)}
            ELSE IF state.interest <= 0 THEN {Unpaid("invalid_amount")}
            ELSE IF stale THEN {Unpaid("state_changed")}
            ELSE UNION {applied(b) : b \in ApplyPopInterestBatch(entries)}
      BY Zenon DEF ApplyStateInterestPayout
    <2>2. ~stale => pool[state.state] = state.interest
      BY DEF ValidateStatePool
    <2>3. ASSUME NEW b, o \in applied(b)
          PROVE  \/ b.status # "success" /\ o = b
                 \/ b.status = "success" /\ o = [b EXCEPT !.emptied = TRUE]
                 \/ /\ b.status = "success"
                    /\ \E e, f \in BOOLEAN :
                         o = [b EXCEPT !.status = "postcondition_failed", !.emptied = e, !.fault = f]
      <3>1. access \in BOOLEAN
        OBVIOUS
      <3> HIDE DEF access
      <3> QED BY <2>3, <3>1
    <2> HIDE DEF access, applied, stale
    <2>4. \/ CheckPreparedMutationAccess # "success" /\ o = Unpaid(CheckPreparedMutationAccess)
          \/ o = Unpaid("invalid_amount")
          \/ o = Unpaid("state_changed")
          \/ ~stale /\ \E b \in ApplyPopInterestBatch(entries) : o \in applied(b)
      BY <2>1
    <2>5. "invalid_amount" # "success" /\ "state_changed" # "success"
      OBVIOUS
    <2> QED BY <2>2, <2>3, <2>4, <2>5
  <1>3. ASSUME NEW status, o = Unpaid(status), status # "success"
        PROVE  o.status # "success" /\ o.written = 0 /\ ~o.emptied /\ o.emptied \in BOOLEAN
    BY <1>3 DEF Unpaid
  <1>4. ASSUME pool[state.state] = state.interest, NEW b \in ApplyPopInterestBatch(entries),
               \/ b.status # "success" /\ o = b
               \/ b.status = "success" /\ o = [b EXCEPT !.emptied = TRUE]
               \/ /\ b.status = "success"
                  /\ \E e, f \in BOOLEAN :
                       o = [b EXCEPT !.status = "postcondition_failed", !.emptied = e, !.fault = f]
        PROVE  /\ o.written \in Nat /\ o.emptied \in BOOLEAN
               /\ \/ o.status # "success" /\ o.written = 0 /\ ~o.emptied
                  \/ o.status = "postcondition_failed"
                  \/ /\ o.status = "success" /\ o.emptied /\ o.written = Len(entries)
                     /\ o.verified = Len(entries)
    <2>1. CASE \E status : b = Unpaid(status) /\ status # "success"
      <3>1. b.status # "success" /\ b.written = 0 /\ ~b.emptied /\ b.emptied \in BOOLEAN
        BY <2>1 DEF Unpaid
      <3>2. o = b
        BY <1>4, <3>1
      <3> QED BY <3>1, <3>2
    <2>2. CASE b \in failed
      <3>1. PICK n \in DOMAIN entries :
               b = [status |-> "postcondition_failed", written |-> n, verified |-> n - 1, emptied |-> FALSE,
                    fault |-> TRUE]
        BY <2>2
      <3>2. b.status = "postcondition_failed" /\ b.written = n /\ b.emptied = FALSE /\ b.status # "success"
        BY <3>1
      <3>3. o = b
        BY <1>4, <3>2
      <3>4. n \in Nat
        OBVIOUS
      <3>5. o.written = n /\ o.emptied = FALSE /\ o.status = "postcondition_failed"
        BY <3>2, <3>3
      <3> QED BY <3>4, <3>5
    <2>3. CASE b = paid
      <3>1. o = [b EXCEPT !.emptied = TRUE] \/ \E e, f \in BOOLEAN :
                       o = [b EXCEPT !.status = "postcondition_failed", !.emptied = e, !.fault = f]
        BY <1>4, <2>3
      <3>2. CASE o = [b EXCEPT !.emptied = TRUE]
        BY <2>3, <3>2
      <3>3. CASE \E e, f \in BOOLEAN :
                       o = [b EXCEPT !.status = "postcondition_failed", !.emptied = e, !.fault = f]
        BY <2>3, <3>3
      <3> QED BY <3>1, <3>2, <3>3
    <2> QED BY <1>1, <2>1, <2>2, <2>3
  <1> HIDE DEF failed, paid
  <1>5. CASE \E status : o = Unpaid(status) /\ status # "success"
    <2>1. o.written \in Nat
      BY <1>5 DEF Unpaid
    <2> QED BY <1>3, <1>5, <2>1
  <1> QED BY <1>2, <1>4, <1>5

-----------------------------------------------------------------------------
(* The invariant of the money, step by step.                               *)

\* A game that is not replaced lists what it listed.
LEMMA StillListed == heap' = heap => \A c : Listed(c)' = Listed(c)
  BY DEF Listed

\* Steps of the loader, of loading and unloading, and of the worker: the
\* bank pass, its callback and the money are left alone.
LEMMA MoneyIsLeft ==
  ASSUME MoneyInv, heap' = heap, pool' = pool, fresh' = fresh, given' = given, pass' = pass, call' = call,
         auth' = auth, queue' \in Seq(ToSet(queue')), fix' \in [initialized : BOOLEAN, disabled : BOOLEAN],
         fix'.initialized =>
            /\ fix.initialized /\ ~(worker' = "none" /\ slot' = "free") /\ hooks' # {}
            /\ slot' = "active" => slot = "active",
         call.at # "idle" => hooks' # {}
  PROVE  MoneyInv'
  <1>1. PassTypes'
    BY DEF MoneyInv, PassTypes
  <1>2. CallInOrder'
    BY DEF MoneyInv, CallInOrder
  <1>3. PassBegins'
    BY DEF MoneyInv, PassBegins
  <1>4. \A c : Listed(c)' = Listed(c)
    BY StillListed
  <1>5. PoolsAreSwept'
    <2>1. Swept' => Swept
      BY DEF Swept
    <2> QED BY <1>4, <2>1 DEF MoneyInv, PoolsAreSwept, Pending, Untouched
  <1>6. PayingInOrder'
    BY <1>4 DEF MoneyInv, PayingInOrder, Untouched
  <1> QED BY <1>1, <1>2, <1>3, <1>5, <1>6 DEF MoneyInv

LEMMA PluginSideKeepsMoney ==
  ASSUME FixInv, MoneyInv,
         \/ AcquireServices \/ StartWorker \/ LoadDone \/ Unregister \/ Join \/ OthersReturn
         \/ WriteResults \/ LoaderActs \/ Damage
  PROVE  MoneyInv'
  <1>0. /\ fix \in [initialized : BOOLEAN, disabled : BOOLEAN] /\ queue \in Seq(ToSet(queue))
        /\ (fix.initialized => ~(worker = "none" /\ slot = "free"))
        /\ (fix.initialized \/ call.at # "idle" => hooks # {})
        /\ (call.at # "idle" => slot # "free")
    BY DEF MoneyInv, PassTypes, CallInOrder, FixInv, WorkerInOrder
  <1>1. CASE AcquireServices
    <2>1. /\ heap' = heap /\ pool' = pool /\ fresh' = fresh /\ given' = given /\ pass' = pass /\ call' = call
          /\ auth' = auth /\ queue' = queue /\ fix' = fix
      BY <1>1 DEF AcquireServices, gameVars, ghostVars, resultVars
    <2>2. worker = "none" /\ slot = "free"
      BY <1>1 DEF AcquireServices
    <2> QED BY <1>0, <2>1, <2>2, MoneyIsLeft
  <1>2. CASE StartWorker
    <2>1. /\ heap' = heap /\ pool' = pool /\ fresh' = fresh /\ given' = given /\ pass' = pass /\ call' = call
          /\ auth' = auth /\ queue' = queue /\ fix' = [initialized |-> FALSE, disabled |-> FALSE] /\ hooks' = hooks
      BY <1>2 DEF StartWorker, gameVars, ghostVars, loaderVars
    <2> QED BY <1>0, <2>1, MoneyIsLeft
  <1>3. CASE LoadDone
    <2>1. /\ heap' = heap /\ pool' = pool /\ fresh' = fresh /\ given' = given /\ pass' = pass /\ call' = call
          /\ auth' = auth /\ queue' = queue /\ fix' = fix /\ slot' = slot /\ worker' = worker
      BY <1>3 DEF LoadDone, gameVars, ghostVars, resultVars, pluginVars
    <2>2. hooks' = hooks
      BY <1>3 DEF LoadDone, LoadReturns
    <2> QED BY <1>0, <2>1, <2>2, MoneyIsLeft
  <1>4. CASE Unregister
    <2>1. /\ heap' = heap /\ pool' = pool /\ fresh' = fresh /\ given' = given /\ pass' = pass /\ call' = call
          /\ auth' = auth /\ queue' = queue /\ fix' = fix /\ worker' = worker /\ hooks' = hooks
          /\ slot' \in {"removing", "free"}
      BY <1>4 DEF Unregister, gameVars, ghostVars, resultVars, loaderVars
    <2>2. worker # "none"
      BY <1>4 DEF Unregister, Unloading, FixInv, FixInOrder
    <2> QED BY <1>0, <2>1, <2>2, MoneyIsLeft
  <1>5. CASE Join
    <2>1. /\ heap' = heap /\ pool' = pool /\ fresh' = fresh /\ given' = given /\ pass' = pass /\ call' = call
          /\ auth' = auth /\ queue' = queue /\ fix' = fix /\ slot' = slot
      BY <1>5 DEF Join, gameVars, ghostVars, pluginVars
    <2>2. hooks' = hooks /\ (worker' = "none" => worker = "none")
      BY <1>5 DEF Join, loaderVars, UnloadReturns
    <2> QED BY <1>0, <2>1, <2>2, MoneyIsLeft
  <1>6. CASE OthersReturn
    <2>1. /\ heap' = heap /\ pool' = pool /\ fresh' = fresh /\ given' = given /\ pass' = pass /\ call' = call
          /\ auth' = auth /\ queue' = queue /\ fix' = fix /\ slot' = slot /\ worker' = worker
      BY <1>6 DEF OthersReturn, gameVars, ghostVars, pluginVars, resultVars
    <2>2. hooks' = hooks
      BY <1>6 DEF OthersReturn, LoadReturns, UnloadReturns
    <2> QED BY <1>0, <2>1, <2>2, MoneyIsLeft
  <1>7. CASE WriteResults
    <2>1. /\ heap' = heap /\ pool' = pool /\ fresh' = fresh /\ given' = given /\ pass' = pass /\ call' = call
          /\ auth' = auth /\ fix' = fix /\ slot' = slot /\ hooks' = hooks
      BY <1>7 DEF WriteResults, gameVars, ghostVars, pluginVars, loaderVars
    <2>2. worker' \in {"runs", "ended"}
      BY <1>7 DEF WriteResults
    <2>3. queue' \in Seq(ToSet(queue'))
      <3>1. CASE queue' = queue
        BY <1>0, <3>1
      <3>2. CASE queue # <<>> /\ queue' = Tail(queue)
        <4>1. PICK q : q = queue'
          OBVIOUS
        <4>2. q \in Seq(ToSet(queue))
          BY <1>0, <3>2, <4>1, HeadTailProperties
        <4>3. q \in Seq(ToSet(q))
          BY <4>2, LenProperties DEF ToSet
        <4> QED BY <4>1, <4>3
      <3> QED BY <1>7, <3>1, <3>2 DEF WriteResults
    <2> QED BY <1>0, <2>1, <2>2, <2>3, MoneyIsLeft
  <1>8. CASE LoaderActs
    <2>1. /\ heap' = heap /\ pool' = pool /\ fresh' = fresh /\ given' = given /\ pass' = pass /\ call' = call
          /\ auth' = auth /\ queue' = queue /\ fix' = fix /\ slot' = slot /\ worker' = worker
      BY <1>8 DEF LoaderActs, gameVars, ghostVars, pluginVars, resultVars
    <2>2. CASE InstallHooks
      <3>1. plug[Fix] = "absent"
        <4>1. PICK i \in DOMAIN Plugins : Fix = Plugins[i]
          BY Line, FixAssumption
        <4>2. i > 0
          BY Line
        <4> QED BY <2>2, <4>1, <4>2 DEF InstallHooks, FixInv, LoaderInOrder, Ahead
      <3>2. slot = "free" /\ worker = "none"
        BY <3>1 DEF FixInv, FixInOrder
      <3> QED BY <1>0, <2>1, <3>2, MoneyIsLeft
    <2>3. CASE ~InstallHooks
      <3>1. hooks' = hooks
        BY <1>8, <2>3 DEF LoaderActs, LoaderStep, Validate, ReadPluginManifests, Discover, Create, Stop
      <3> QED BY <1>0, <2>1, <3>1, MoneyIsLeft
    <2> QED BY <2>2, <2>3
  <1>9. CASE Damage
    <2>1. /\ heap' = heap /\ pool' = pool /\ fresh' = fresh /\ given' = given /\ pass' = pass /\ call' = call
          /\ auth' = auth /\ queue' = queue /\ fix' = fix /\ slot' = slot /\ worker' = worker /\ hooks' = hooks
      BY <1>9 DEF Damage, ghostVars, pluginVars, resultVars, loaderVars
    <2> QED BY <1>0, <2>1, MoneyIsLeft
  <1> QED BY <1>1, <1>2, <1>3, <1>4, <1>5, <1>6, <1>7, <1>8, <1>9

LEMMA StartPassKeepsMoney == ASSUME MoneyInv, StartPass PROVE MoneyInv'
  <1>1. /\ heap' = heap /\ pool' = pool /\ fresh' = fresh /\ given' = given /\ call' = call /\ auth' = auth
        /\ queue' = queue /\ fix' = fix /\ slot' = slot /\ worker' = worker /\ hooks' = hooks
        /\ pass.at = "idle" /\ pass' = [at |-> "before", country |-> 0]
    BY DEF StartPass, gameVars, pluginVars, resultVars, ghostVars, loaderVars
  <1>2. call.at = "idle"
    BY <1>1 DEF MoneyInv, CallInOrder
  <1>3. heap.countries \in Nat /\ 0 < heap.countries
    <2>1. IsGame(heap)
      BY FixAssumption DEF MoneyInv, PassTypes
    <2> QED BY <2>1 DEF IsGame
  <1>4. PassTypes'
    BY <1>1, <1>3 DEF MoneyInv, PassTypes
  <1>5. CallInOrder'
    BY <1>1, <1>2 DEF MoneyInv, CallInOrder
  <1>6. PassBegins'
    BY <1>1 DEF MoneyInv, PassBegins
  <1>7. PoolsAreSwept'
    BY <1>1 DEF PoolsAreSwept, Swept
  <1>8. PayingInOrder'
    BY <1>1, <1>2 DEF PayingInOrder
  <1> QED BY <1>4, <1>5, <1>6, <1>7, <1>8 DEF MoneyInv

\* A dispatch calls the plugin, under an authority of its own, or does nothing.
LEMMA Dispatched ==
  ASSUME NEW after, NEW first, Dispatch(after, first)
  PROVE  \/ /\ slot = "active" /\ hooks # {}
            /\ call'.at = first /\ DOMAIN call' = {"at", "after", "states", "pops", "next"} /\ call'.next = 0
            /\ DOMAIN auth' = {"country", "bank", "after", "states", "pops", "prepared", "checked"}
            /\ auth'.country \in {pass.country, None}
         \/ ~(slot = "active" /\ hooks # {}) /\ call' = call /\ auth' = auth
  <1>1. CASE slot = "active" /\ hooks # {}
    <2>1. Bind(pass.country, after) /\ call' = [Idle EXCEPT !.at = first, !.after = after]
      BY <1>1 DEF Dispatch
    <2>2. call' = [at |-> first, after |-> after, states |-> <<>>, pops |-> <<>>, next |-> 0]
      BY <2>1 DEF Idle
    <2>3. /\ DOMAIN auth' = {"country", "bank", "after", "states", "pops", "prepared", "checked"}
          /\ auth'.country \in {pass.country, None}
      BY <2>1 DEF Bind
    <2>4. call'.at = first /\ DOMAIN call' = {"at", "after", "states", "pops", "next"} /\ call'.next = 0
      BY <2>2
    <2> QED BY <1>1, <2>3, <2>4
  <1>2. CASE ~(slot = "active" /\ hooks # {})
    BY <1>2 DEF Dispatch
  <1> QED BY <1>1, <1>2

LEMMA DispatchBeforeKeepsMoney == ASSUME MoneyInv, DispatchBefore PROVE MoneyInv'
  <1>1. /\ heap' = heap /\ pool' = pool /\ fresh' = fresh /\ given' = given
        /\ queue' = queue /\ fix' = fix /\ slot' = slot /\ worker' = worker /\ hooks' = hooks
        /\ pass.at = "before" /\ pass' = [pass EXCEPT !.at = "distribute"]
    BY DEF DispatchBefore, gameVars, resultVars, ghostVars, loaderVars
  <1>2. call.at = "idle" /\ pass.country \in Nat /\ pass.country < heap.countries
    BY <1>1 DEF MoneyInv, CallInOrder, PassTypes
  <1>3. pass'.at = "distribute" /\ pass'.country = pass.country /\ pass' = [at |-> "distribute", country |-> pass.country]
    BY <1>1 DEF MoneyInv, PassTypes
  <1>4. \/ /\ pass.country = 0 /\ slot = "active" /\ hooks # {}
           /\ call'.at = "initialize" /\ DOMAIN call' = {"at", "after", "states", "pops", "next"} /\ call'.next = 0
           /\ DOMAIN auth' = {"country", "bank", "after", "states", "pops", "prepared", "checked"}
           /\ auth'.country \in {pass.country, None}
        \/ ~(pass.country = 0 /\ slot = "active" /\ hooks # {}) /\ call' = call /\ auth' = auth
    BY Dispatched DEF DispatchBefore
  <1>5. PassTypes'
    <2>1. DOMAIN call' = {"at", "after", "states", "pops", "next"} /\ call'.next \in Nat
      BY <1>4 DEF MoneyInv, PassTypes
    <2> QED BY <1>1, <1>2, <1>3, <2>1 DEF MoneyInv, PassTypes
  <1>6. CallInOrder'
    BY <1>1, <1>2, <1>3, <1>4 DEF MoneyInv, CallInOrder
  <1>7. PassBegins'
    BY <1>1, <1>3 DEF MoneyInv, PassBegins
  <1>8. PoolsAreSwept'
    <2>0. \A c : Listed(c)' = Listed(c)
      BY <1>1, StillListed
    <2>1. Swept' => Swept
      BY <1>1, <1>2, <1>3, <1>4 DEF Swept, MoneyInv, CallInOrder
    <2>2. \A c \in 0 .. heap.countries - 1 : Pending(c)' = Pending(c)
      BY <1>1, <1>3 DEF Pending
    <2> QED BY <1>1, <2>0, <2>1, <2>2 DEF MoneyInv, PoolsAreSwept, Untouched
  <1>9. PayingInOrder'
    BY <1>2, <1>4 DEF PayingInOrder
  <1> QED BY <1>5, <1>6, <1>7, <1>8, <1>9 DEF MoneyInv

LEMMA DispatchAfterKeepsMoney == ASSUME MoneyInv, DispatchAfter PROVE MoneyInv'
  <1>1. /\ heap' = heap /\ pool' = pool /\ fresh' = fresh /\ given' = given
        /\ queue' = queue /\ fix' = fix /\ slot' = slot /\ worker' = worker /\ hooks' = hooks
        /\ pass.at \in {"after", "after_nothing"} /\ pass' = [pass EXCEPT !.at = "next"]
    BY DEF DispatchAfter, gameVars, resultVars, ghostVars, loaderVars
  <1>2. call.at = "idle" /\ pass.country \in Nat /\ pass.country < heap.countries
    BY <1>1 DEF MoneyInv, CallInOrder, PassTypes
  <1>3. pass'.at = "next" /\ pass'.country = pass.country /\ pass' = [at |-> "next", country |-> pass.country]
    BY <1>1 DEF MoneyInv, PassTypes
  <1>4. \/ /\ fix.initialized /\ slot = "active" /\ hooks # {}
           /\ call'.at = "collect" /\ DOMAIN call' = {"at", "after", "states", "pops", "next"} /\ call'.next = 0
           /\ DOMAIN auth' = {"country", "bank", "after", "states", "pops", "prepared", "checked"}
           /\ auth'.country \in {pass.country, None}
        \/ call' = call /\ auth' = auth
    BY Dispatched DEF DispatchAfter
  <1>5. PassTypes'
    <2>1. DOMAIN call' = {"at", "after", "states", "pops", "next"} /\ call'.next \in Nat
      BY <1>4 DEF MoneyInv, PassTypes
    <2> QED BY <1>1, <1>2, <1>3, <2>1 DEF MoneyInv, PassTypes
  <1>6. CallInOrder'
    BY <1>1, <1>2, <1>3, <1>4 DEF MoneyInv, CallInOrder
  <1>7. PassBegins'
    BY <1>1, <1>3 DEF MoneyInv, PassBegins
  <1>a. \A c : Listed(c)' = Listed(c)
    BY <1>1, StillListed
  <1>8. PoolsAreSwept'
    <2>1. Swept' => Swept
      BY <1>1, <1>2, <1>3, <1>4 DEF Swept
    <2>2. \A c \in 0 .. heap.countries - 1 : Pending(c)' => Pending(c)
      BY <1>1, <1>3 DEF Pending
    <2> QED BY <1>1, <1>a, <2>1, <2>2 DEF MoneyInv, PoolsAreSwept, Untouched
  <1>9. PayingInOrder'
    <2>1. CASE call'.at = "collect" /\ fix.initialized /\ slot = "active"
      <3>1. Swept
        BY <1>1, <1>2, <2>1 DEF Swept
      <3>2. pass.country \in 0 .. heap.countries - 1 /\ Pending(pass.country)
        <4>1. heap.countries \in Nat
          <5>1. IsGame(heap)
            BY FixAssumption DEF MoneyInv, PassTypes
          <5> QED BY <5>1 DEF IsGame
        <4> QED BY <1>1, <1>2, <4>1 DEF Pending
      <3>3. \A s \in ToSet(Listed(pass.country)) : Untouched(s)
        BY <3>1, <3>2 DEF MoneyInv, PoolsAreSwept
      <3>4. Listed(pass.country)' = Listed(pass.country)
        BY <1>1, <1>3 DEF Listed
      <3> QED BY <1>1, <1>3, <2>1, <3>3, <3>4 DEF PayingInOrder, Untouched
    <2>2. CASE call'.at = "idle"
      BY <2>2 DEF PayingInOrder
    <2> QED BY <1>2, <1>4, <2>1, <2>2
  <1> QED BY <1>5, <1>6, <1>7, <1>8, <1>9 DEF MoneyInv

LEMMA DistributeKeepsMoney == ASSUME MoneyInv, Distribute PROVE MoneyInv'
  <1>1. /\ heap' = heap /\ given' = given /\ call' = call /\ auth' = auth
        /\ queue' = queue /\ fix' = fix /\ slot' = slot /\ worker' = worker /\ hooks' = hooks
        /\ pass.at = "distribute" /\ call.at = "idle"
    BY DEF Distribute, pluginVars, resultVars, loaderVars
  <1>2. pass.country \in Nat /\ pass.country < heap.countries /\ IsGame(heap)
    BY <1>1, FixAssumption DEF MoneyInv, PassTypes
  <1>3. /\ pass'.at \in {"next", "after_nothing", "after"} /\ pass'.country = pass.country
        /\ pass' = [at |-> pass'.at, country |-> pass.country]
    BY DEF Distribute, MoneyInv, PassTypes
  <1>4. pool \in [States -> Nat] /\ fresh \in [States -> Nat]
    BY DEF MoneyInv, PassTypes
  <1>5. /\ pool' \in [States -> Nat] /\ fresh' \in [States -> Nat]
        /\ \A s \in States : pool[s] = fresh[s] => pool'[s] = fresh'[s]
    <2>1. CASE pool' = pool /\ fresh' = fresh
      BY <1>4, <2>1
    <2>2. CASE \E share \in [ToSet(Listed(pass.country)) -> 0 .. MaxShare] :
                 /\ pool' = [s \in States |-> IF s \in DOMAIN share THEN pool[s] + share[s] ELSE pool[s]]
                 /\ fresh' = [s \in States |-> IF s \in DOMAIN share THEN fresh[s] + share[s] ELSE fresh[s]]
      <3>1. PICK share \in [ToSet(Listed(pass.country)) -> 0 .. MaxShare] :
                 /\ pool' = [s \in States |-> IF s \in DOMAIN share THEN pool[s] + share[s] ELSE pool[s]]
                 /\ fresh' = [s \in States |-> IF s \in DOMAIN share THEN fresh[s] + share[s] ELSE fresh[s]]
        BY <2>2
      <3>2. MaxShare \in Nat
        BY FixAssumption
      <3>3. \A s \in DOMAIN share : share[s] \in Nat
        BY <3>2
      <3> QED BY <1>4, <3>1, <3>3
    <2> QED BY <2>1, <2>2 DEF Distribute
  <1>6. PassTypes'
    BY <1>1, <1>2, <1>3, <1>5 DEF MoneyInv, PassTypes
  <1>7. CallInOrder'
    BY <1>1, <1>3 DEF MoneyInv, CallInOrder
  <1>8. PassBegins'
    BY <1>1, <1>3 DEF MoneyInv, PassBegins
  <1>9. PoolsAreSwept'
    <2>0. \A c : Listed(c)' = Listed(c)
      BY <1>1, StillListed
    <2>1. Swept' => Swept
      BY <1>1, <1>3 DEF Swept
    <2>2. \A c \in 0 .. heap.countries - 1 : Pending(c)' => Pending(c)
      BY <1>1, <1>3 DEF Pending
    <2>3. ASSUME NEW c \in 0 .. heap.countries - 1, NEW s \in ToSet(Listed(c)), Untouched(s) PROVE Untouched(s)'
      <3>1. s \in States
        <4>1. Listed(c) \in Seq(States)
          BY ListedIs DEF MoneyInv, PassTypes
        <4> QED BY <4>1, LenProperties DEF ToSet
      <3> QED BY <1>1, <1>5, <2>3, <3>1 DEF Untouched
    <2> QED BY <1>1, <2>0, <2>1, <2>2, <2>3 DEF MoneyInv, PoolsAreSwept
  <1>10. PayingInOrder'
    BY <1>1 DEF PayingInOrder
  <1> QED BY <1>6, <1>7, <1>8, <1>9, <1>10 DEF MoneyInv

LEMMA NextCountryKeepsMoney == ASSUME MoneyInv, NextCountry PROVE MoneyInv'
  <1>1. /\ heap' = heap /\ pool' = pool /\ call' = call /\ auth' = auth
        /\ queue' = queue /\ fix' = fix /\ slot' = slot /\ worker' = worker /\ hooks' = hooks
        /\ pass.at = "next" /\ call.at = "idle"
    BY DEF NextCountry, gameVars, pluginVars, resultVars, loaderVars
  <1>2. pass.country \in Nat /\ pass.country < heap.countries /\ IsGame(heap)
    BY <1>1, FixAssumption DEF MoneyInv, PassTypes
  <1>3. PayingInOrder'
    BY <1>1 DEF PayingInOrder
  <1>4. CASE /\ pass.country + 1 < heap.countries /\ pass' = [at |-> "before", country |-> pass.country + 1]
             /\ fresh' = fresh /\ given' = given
    <2>1. PassTypes'
      BY <1>1, <1>2, <1>4 DEF MoneyInv, PassTypes
    <2>2. CallInOrder'
      BY <1>1, <1>4 DEF MoneyInv, CallInOrder
    <2>3. PassBegins'
      BY <1>2, <1>4 DEF PassBegins
    <2>4. PoolsAreSwept'
      <3>0. \A c : Listed(c)' = Listed(c)
        BY <1>1, StillListed
      <3>1. Swept' => Swept
        BY <1>1, <1>4 DEF Swept
      <3>2. \A c \in 0 .. heap.countries - 1 : Pending(c)' => Pending(c)
        <4>1. heap.countries \in Nat
          BY <1>2 DEF IsGame
        <4> QED BY <1>1, <1>2, <1>4, <4>1 DEF Pending
      <3> QED BY <1>1, <1>4, <3>0, <3>1, <3>2 DEF MoneyInv, PoolsAreSwept, Untouched
    <2> QED BY <1>3, <2>1, <2>2, <2>3, <2>4 DEF MoneyInv
  <1>5. CASE pass' = NotPassing /\ fresh' = Zero /\ given' = Zero
    <2>1. PassTypes'
      BY <1>1, <1>5 DEF MoneyInv, PassTypes, NotPassing, Zero
    <2>2. CallInOrder'
      BY <1>1, <1>5 DEF MoneyInv, CallInOrder
    <2>3. PassBegins'
      BY <1>5 DEF PassBegins
    <2>4. PoolsAreSwept'
      BY <1>5 DEF PoolsAreSwept, Swept, NotPassing
    <2> QED BY <1>3, <2>1, <2>2, <2>3, <2>4 DEF MoneyInv
  <1> QED BY <1>4, <1>5 DEF NextCountry, ghostVars

LEMMA LoadSaveKeepsMoney == ASSUME MoneyInv, LoadSave PROVE MoneyInv'
  <1>1. /\ heap' \in Worlds /\ pool' \in SavedPools /\ fresh' = fresh /\ given' = given /\ pass' = pass
        /\ call' = call /\ auth' = auth /\ queue' = queue /\ fix' = fix /\ slot' = slot /\ worker' = worker
        /\ hooks' = hooks /\ pass.at = "idle"
    BY DEF LoadSave, pluginVars, resultVars, ghostVars, loaderVars
  <1>2. call.at = "idle"
    BY <1>1 DEF MoneyInv, CallInOrder
  <1>3. pool' \in [States -> Nat]
    BY <1>1, FixAssumption DEF SavedPools
  <1>4. PassTypes'
    BY <1>1, <1>3 DEF MoneyInv, PassTypes
  <1>5. CallInOrder'
    BY <1>1, <1>2 DEF MoneyInv, CallInOrder
  <1>6. PassBegins'
    BY <1>1 DEF MoneyInv, PassBegins
  <1>7. PoolsAreSwept'
    BY <1>1 DEF PoolsAreSwept, Swept
  <1>8. PayingInOrder'
    BY <1>1, <1>2 DEF PayingInOrder
  <1> QED BY <1>4, <1>5, <1>6, <1>7, <1>8 DEF MoneyInv

\* What a result does to the queue: it is the last one there, or was lost.
LEMMA Published ==
  ASSUME MoneyInv, NEW result, Publish(result)
  PROVE  /\ queue' \in Seq(ToSet(queue'))
         /\ Len(queue') > Len(queue) => Last(queue') = result
  <1>1. queue \in Seq(ToSet(queue))
    BY DEF MoneyInv, PassTypes
  <1>2. CASE queue' = queue
    <2>1. Len(queue) \in Nat
      BY <1>1, LenProperties
    <2> QED BY <1>1, <1>2, <2>1
  <1>3. CASE queue' = Append(queue, result)
    <2>1. PICK q : q = queue'
      OBVIOUS
    <2>2. PICK T : T = ToSet(queue) \cup {result}
      OBVIOUS
    <2>3. queue \in Seq(T) /\ result \in T
      BY <1>1, <2>2, SeqMonotonic
    <2>4. q \in Seq(T) /\ Len(q) = Len(queue) + 1 /\ q[Len(queue) + 1] = result
      BY <1>3, <2>1, <2>3
    <2>5. q \in Seq(ToSet(q))
      BY <2>4, LenProperties DEF ToSet
    <2>6. Last(q) = result
      BY <2>4 DEF Last
    <2> QED BY <2>1, <2>5, <2>6
  <1> QED BY <1>2, <1>3 DEF Publish

LEMMA Returned == Return => /\ call' = Idle /\ call'.at = "idle" /\ call'.next = 0
                            /\ DOMAIN call' = {"at", "after", "states", "pops", "next"}
  BY DEF Return, Idle

LEMMA InitializeKeepsMoney == ASSUME FixInv, MoneyInv, Initialize PROVE MoneyInv'
  <1>1. /\ heap' = heap /\ fresh' = fresh /\ given' = given /\ pass' = pass /\ slot' = slot /\ worker' = worker
        /\ hooks' = hooks /\ call.at = "initialize" /\ Return
    BY DEF Initialize, ghostVars, loaderVars
  <1>2. PICK o \in DiscardStateInterestPools :
          /\ pool' = [s \in States |-> IF s \in o.emptied THEN 0 ELSE pool[s]]
          /\ Publish(Result(IF DiscardInterestPools(o) = "success" THEN "initialized"
                            ELSE MutationFixStatus(DiscardInterestPools(o), o.cleared # 0), None, o.discarded, 0, 0))
          /\ fix' = [initialized |-> DiscardInterestPools(o) = "success", disabled |-> DiscardInterestPools(o) # "success"]
    BY DEF Initialize
  <1>3. /\ heap \in Worlds /\ pool \in [States -> Nat] /\ pass = [at |-> "distribute", country |-> 0]
        /\ slot # "free" /\ hooks # {}
    BY <1>1 DEF MoneyInv, PassTypes, CallInOrder, FixInv, WorkerInOrder
  <1>4. /\ call'.at = "idle" /\ call'.next = 0 /\ DOMAIN call' = {"at", "after", "states", "pops", "next"}
    BY <1>1, Returned
  <1>5. queue' \in Seq(ToSet(queue'))
    BY <1>2, Published
  <1>6. pool' \in [States -> Nat] /\ fix' \in [initialized : BOOLEAN, disabled : BOOLEAN]
    BY <1>2, <1>3
  <1>7. PassTypes'
    BY <1>1, <1>4, <1>5, <1>6 DEF MoneyInv, PassTypes
  <1>8. CallInOrder'
    BY <1>1, <1>3, <1>4 DEF MoneyInv, CallInOrder
  <1>9. PassBegins'
    BY <1>1 DEF MoneyInv, PassBegins
  <1>10. PayingInOrder'
    BY <1>4 DEF PayingInOrder
  <1>11. PoolsAreSwept'
    <2> SUFFICES ASSUME Swept' PROVE PoolsAreSwept'
      BY DEF PoolsAreSwept
    <2>1. DiscardInterestPools(o) = "success"
      BY <1>2 DEF Swept
    <2>2. CampaignHolds /\ o.emptied = Emptied(Campaign)
      BY <1>3, <2>1, DiscardIs
    <2>3. \A s \in States : fresh[s] = 0 /\ given[s] = 0
      BY <1>3 DEF MoneyInv, PassBegins, Zero
    <2>4. ASSUME NEW c \in 0 .. heap.countries - 1, NEW s \in ToSet(Listed(c)) PROVE Untouched(s)'
      <3>0. Listed(c) \in Seq(States) /\ (c = 0 => Listed(c) = <<>>)
        BY <1>3, ListedIs
      <3>1. s \in States /\ c # 0
        BY <3>0, LenProperties DEF ToSet
      <3>2. c \in 1 .. heap.countries - 1
        <4>1. heap.countries \in Nat
          <5>1. IsGame(heap)
            BY <1>3, FixAssumption
          <5> QED BY <5>1 DEF IsGame
        <4> QED BY <3>1, <4>1
      <3>3. PICK i \in DOMAIN Campaign : Campaign[i].state = s
        BY <2>2, <3>2 DEF CampaignHolds
      <3>4. Campaign[i].interest = pool[s]
        BY <2>2, <3>3 DEF CampaignHolds
      <3>5. pool[s] # 0 => s \in o.emptied
        BY <2>2, <3>3, <3>4 DEF Emptied
      <3>6. pool'[s] = 0
        BY <1>2, <3>1, <3>5
      <3> QED BY <1>1, <2>3, <3>1, <3>6 DEF Untouched
    <2>5. \A c : Listed(c)' = Listed(c)
      BY <1>1, StillListed
    <2> QED BY <1>1, <2>2, <2>4, <2>5 DEF PoolsAreSwept, CampaignHolds
  <1> QED BY <1>7, <1>8, <1>9, <1>10, <1>11 DEF MoneyInv

\* A callback collects the country whose turn it is.
LEMMA CollectedIs ==
  ASSUME MoneyInv, call.at \in {"collect", "collect_pops"}, NEW withPops \in BOOLEAN,
         CollectInterestPools(withPops).result = "success"
  PROVE  Collects(CollectInterestPools(withPops), pass.country) /\ pass.country \in 0 .. heap.countries - 1
  <1>1. PICK found : found = CollectCountryStateInterest(auth.country, MaxStates, withPops, MaxRaw)
    OBVIOUS
  <1>2. found.ok /\ CollectInterestPools(withPops).states = found.states
    BY <1>1 DEF CollectInterestPools
  <1>3. auth.country # None
    BY <1>1, <1>2 DEF CollectCountryStateInterest, NoCollection, CollectionIsWhole
  <1>4. auth.country = pass.country
    BY <1>3 DEF MoneyInv, CallInOrder
  <1>5. heap \in Worlds /\ pass.country \in 0 .. heap.countries - 1
    <2>1. heap \in Worlds /\ pass.country \in Nat /\ pass.country < heap.countries
      BY DEF MoneyInv, PassTypes, CallInOrder
    <2>2. heap.countries \in Nat
      <3>1. IsGame(heap)
        BY <2>1, FixAssumption
      <3> QED BY <3>1 DEF IsGame
    <2> QED BY <2>1, <2>2
  <1>6. Collects(found, pass.country)
    BY <1>1, <1>2, <1>4, <1>5, CollectIs
  <1> QED BY <1>2, <1>5, <1>6 DEF Collects

\* Steps of the callback up to the payments: only the call and its authority
\* change, and what it may publish.
LEMMA CallGoesOn ==
  ASSUME MoneyInv, heap' = heap, pool' = pool, fresh' = fresh, given' = given, pass' = pass, fix' = fix,
         slot' = slot, worker' = worker, hooks' = hooks, queue' \in Seq(ToSet(queue')),
         call.at \in {"collect", "collect_pops", "prepare"},
         call'.at \in {"idle", "collect_pops", "prepare", "pay"}, call'.next \in Nat, call'.at # "pay" => call'.next = 0,
         DOMAIN call' = {"at", "after", "states", "pops", "next"},
         call'.at # "idle" =>
            /\ DOMAIN auth' = {"country", "bank", "after", "states", "pops", "prepared", "checked"}
            /\ auth'.country \in {pass.country, None},
         PayingInOrder'
  PROVE  MoneyInv'
  <1>1. PassTypes'
    BY DEF MoneyInv, PassTypes
  <1>2. CallInOrder'
    BY DEF MoneyInv, CallInOrder
  <1>3. PassBegins'
    BY DEF MoneyInv, PassBegins
  <1>4. \A c : Listed(c)' = Listed(c)
    BY StillListed
  <1>5. PoolsAreSwept'
    <2>1. Swept' => Swept
      BY DEF Swept
    <2> QED BY <1>4, <2>1 DEF MoneyInv, PoolsAreSwept, Pending, Untouched
  <1> QED BY <1>1, <1>2, <1>3, <1>5 DEF MoneyInv

LEMMA CollectStatesKeepsMoney == ASSUME MoneyInv, CollectStates PROVE MoneyInv'
  <1>1. /\ heap' = heap /\ pool' = pool /\ fresh' = fresh /\ given' = given /\ pass' = pass /\ fix' = fix
        /\ slot' = slot /\ worker' = worker /\ hooks' = hooks /\ call.at \in {"collect", "collect_pops"}
    BY DEF CollectStates, gameVars, ghostVars, loaderVars
  <1>2. /\ DOMAIN call = {"at", "after", "states", "pops", "next"} /\ call.next = 0
        /\ DOMAIN auth = {"country", "bank", "after", "states", "pops", "prepared", "checked"}
        /\ auth.country \in {pass.country, None} /\ queue \in Seq(ToSet(queue))
    BY <1>1 DEF MoneyInv, PassTypes, CallInOrder
  <1>3. Listed(pass.country)' = Listed(pass.country) /\ \A s \in ToSet(Listed(pass.country)) : Untouched(s)
    BY <1>1 DEF Listed, MoneyInv, PayingInOrder
  <1> DEFINE withPops == call.at = "collect_pops"
             found == CollectInterestPools(withPops)
  <1>4. \/ PublishFailure(found.result)
        \/ Return /\ queue' = queue
        \/ /\ found.result = "success" /\ call.at = "collect" /\ queue' = queue
           /\ call' = [call EXCEPT !.at = "collect_pops"] /\ Collected(found)
        \/ /\ found.result = "success" /\ call.at = "collect_pops" /\ queue' = queue
           /\ call' = [call EXCEPT !.at = "prepare", !.states = found.states, !.pops = found.pops]
           /\ Collected(found)
    BY DEF CollectStates
  <1>5. withPops \in BOOLEAN
    OBVIOUS
  <1> HIDE DEF withPops, found
  <1>6. CASE Return /\ queue' \in Seq(ToSet(queue'))
    <2>1. PayingInOrder'
      BY <1>6, Returned DEF PayingInOrder
    <2> QED BY <1>1, <1>6, <2>1, Returned, CallGoesOn
  <1>7. CASE PublishFailure(found.result)
    BY <1>6, <1>7, Published DEF PublishFailure
  <1>8. CASE /\ call.at = "collect" /\ queue' = queue
             /\ call' = [call EXCEPT !.at = "collect_pops"] /\ Collected(found)
    <2>1. /\ call'.at = "collect_pops" /\ call'.next = 0
          /\ DOMAIN call' = {"at", "after", "states", "pops", "next"}
      BY <1>2, <1>8
    <2>2. /\ DOMAIN auth' = {"country", "bank", "after", "states", "pops", "prepared", "checked"}
          /\ auth'.country \in {pass.country, None}
      BY <1>2, <1>8 DEF Collected
    <2>3. PayingInOrder'
      BY <1>1, <1>3, <2>1 DEF PayingInOrder, Untouched
    <2> QED BY <1>1, <1>2, <1>8, <2>1, <2>2, <2>3, CallGoesOn
  <1>9. CASE /\ found.result = "success" /\ call.at = "collect_pops" /\ queue' = queue
             /\ call' = [call EXCEPT !.at = "prepare", !.states = found.states, !.pops = found.pops]
             /\ Collected(found)
    <2>1. /\ call'.at = "prepare" /\ call'.next = 0 /\ call'.states = found.states
          /\ DOMAIN call' = {"at", "after", "states", "pops", "next"}
      BY <1>2, <1>9
    <2>2. /\ DOMAIN auth' = {"country", "bank", "after", "states", "pops", "prepared", "checked"}
          /\ auth'.country \in {pass.country, None}
      BY <1>2, <1>9 DEF Collected
    <2>3. Collects(found, pass.country) /\ pass.country \in 0 .. heap.countries - 1
      BY <1>1, <1>5, <1>9, CollectedIs DEF found
    <2>4. Listed(pass.country) \in Seq(States) /\ DOMAIN Listed(pass.country) = 1 .. Len(Listed(pass.country))
      <3>1. heap \in Worlds
        BY DEF MoneyInv, PassTypes
      <3> QED BY <2>3, <3>1, ListedIs, LenProperties
    <2>5. PayingInOrder'
      <3>1. ASSUME NEW i \in DOMAIN found.states
            PROVE  /\ found.states[i].state \in ToSet(Listed(pass.country)) /\ found.states[i].count \in Nat
                   /\ \A j \in DOMAIN found.states : found.states[i].state = found.states[j].state => i = j
        BY <2>3, <2>4 DEF Collects, ToSet, IsInjective
      <3>2. found.states \in Seq(ToSet(found.states))
        BY <2>3 DEF Collects
      <3>3. \A i \in DOMAIN found.states : /\ pool'[found.states[i].state] = fresh'[found.states[i].state]
                                          /\ given'[found.states[i].state] = 0
        BY <1>1, <1>3, <3>1 DEF Untouched
      <3>4. \A i \in DOMAIN call'.states : Untouched(call.states[i].state)'
        BY <2>1, <3>3 DEF Untouched
      <3> QED BY <1>1, <1>3, <2>1, <3>1, <3>2, <3>4 DEF PayingInOrder
    <2> QED BY <1>1, <1>2, <1>9, <2>1, <2>2, <2>5, CallGoesOn
  <1> QED BY <1>2, <1>4, <1>6, <1>7, <1>8, <1>9

LEMMA PrepareKeepsMoney == ASSUME MoneyInv, Prepare PROVE MoneyInv'
  <1>1. /\ heap' = heap /\ pool' = pool /\ fresh' = fresh /\ given' = given /\ pass' = pass /\ fix' = fix
        /\ slot' = slot /\ worker' = worker /\ hooks' = hooks /\ call.at = "prepare"
    BY DEF Prepare, gameVars, ghostVars, loaderVars
  <1>2. /\ DOMAIN call = {"at", "after", "states", "pops", "next"} /\ call.next = 0
        /\ DOMAIN auth = {"country", "bank", "after", "states", "pops", "prepared", "checked"}
        /\ auth.country \in {pass.country, None} /\ queue \in Seq(ToSet(queue))
    BY <1>1 DEF MoneyInv, PassTypes, CallInOrder
  <1> DEFINE status == PrepareCountryStateInterestPayouts(call.states)
  <1>3. \/ /\ status = "success" /\ call' = [call EXCEPT !.at = "pay", !.next = 1]
           /\ Prepared(call.states, status) /\ queue' = queue
        \/ PublishFailure(InterestResult(status, FALSE))
    BY DEF Prepare
  <1>4. status = "success" => call.states # <<>>
    BY DEF PrepareCountryStateInterestPayouts
  <1> HIDE DEF status
  <1>5. CASE PublishFailure(InterestResult(status, FALSE))
    <2>1. Return /\ queue' \in Seq(ToSet(queue'))
      BY <1>5, Published DEF PublishFailure
    <2>2. PayingInOrder'
      BY <2>1, Returned DEF PayingInOrder
    <2> QED BY <1>1, <2>1, <2>2, Returned, CallGoesOn
  <1>6. CASE /\ status = "success" /\ call' = [call EXCEPT !.at = "pay", !.next = 1]
             /\ Prepared(call.states, status) /\ queue' = queue
    <2>1. /\ call'.at = "pay" /\ call'.next = 1 /\ call'.states = call.states
          /\ DOMAIN call' = {"at", "after", "states", "pops", "next"}
      BY <1>2, <1>6
    <2>2. /\ DOMAIN auth' = {"country", "bank", "after", "states", "pops", "prepared", "checked"}
          /\ auth'.country \in {pass.country, None}
      BY <1>2, <1>6 DEF Prepared
    <2>3. PayingInOrder'
      <3>1. /\ call.states \in Seq(ToSet(call.states))
            /\ \A i \in DOMAIN call.states :
                  /\ call.states[i].state \in ToSet(Listed(pass.country)) /\ call.states[i].count \in Nat
                  /\ i >= call.next => Untouched(call.states[i].state)
                  /\ \A j \in DOMAIN call.states : call.states[i].state = call.states[j].state => i = j
        BY <1>1 DEF MoneyInv, PayingInOrder
      <3>2. call.states # <<>> /\ call.next = 0
        BY <1>1, <1>4, <1>6 DEF MoneyInv, CallInOrder
      <3>3. 1 \in DOMAIN call.states /\ \A i \in DOMAIN call.states : i >= 0
        <4>1. PICK q \in Seq(ToSet(call.states)) : q = call.states
          BY <3>1
        <4>2. Len(q) \in Nat \ {0} /\ DOMAIN q = 1 .. Len(q)
          BY <3>2, <4>1, EmptySeq, LenProperties
        <4> QED BY <4>1, <4>2
      <3>4. Listed(pass.country)' = Listed(pass.country)
        BY <1>1 DEF Listed
      <3>5. \A i \in DOMAIN call'.states : Untouched(call.states[i].state)'
        BY <1>1, <2>1, <3>1, <3>2, <3>3 DEF Untouched
      <3> QED BY <1>1, <2>1, <3>1, <3>3, <3>4, <3>5 DEF PayingInOrder
    <2> QED BY <1>1, <1>2, <1>6, <2>1, <2>2, <2>3, CallGoesOn
  <1> QED BY <1>3, <1>5, <1>6

\* What is known while a state is being paid.
LEMMA PayingIs ==
  ASSUME MoneyInv, call.at = "pay"
  PROVE  /\ pass.at = "next" /\ pass.country \in 0 .. heap.countries - 1 /\ heap \in Worlds
         /\ pool \in [States -> Nat] /\ given = [t \in States |-> given[t]]
         /\ call.next \in DOMAIN call.states /\ call.next \in Nat
         /\ call.states \in Seq(ToSet(call.states)) /\ DOMAIN call.states = 1 .. Len(call.states)
         /\ Len(call.states) \in Nat
         /\ call.states[call.next].state \in States /\ call.states[call.next].count \in Nat
         /\ call.states[call.next].state \in ToSet(Listed(pass.country))
         /\ Untouched(call.states[call.next].state)
         /\ \A c \in 0 .. heap.countries - 1 : Listed(c) \in Seq(States)
  <1>1. /\ pass.at = "next" /\ heap \in Worlds /\ pass.country \in Nat /\ pass.country < heap.countries
        /\ pool \in [States -> Nat] /\ given = [t \in States |-> given[t]]
    BY DEF MoneyInv, PassTypes, CallInOrder
  <1>2. pass.country \in 0 .. heap.countries - 1
    <2>1. heap.countries \in Nat
      <3>1. IsGame(heap)
        BY <1>1, FixAssumption
      <3> QED BY <3>1 DEF IsGame
    <2> QED BY <1>1, <2>1
  <1>3. /\ call.next \in DOMAIN call.states /\ call.next \in Nat /\ call.states \in Seq(ToSet(call.states))
        /\ call.states[call.next].count \in Nat /\ call.states[call.next].state \in ToSet(Listed(pass.country))
    BY DEF MoneyInv, PassTypes, PayingInOrder
  <1>4. DOMAIN call.states = 1 .. Len(call.states) /\ Len(call.states) \in Nat
    BY <1>3, LenProperties
  <1>5. Untouched(call.states[call.next].state)
    <2>1. call.next >= call.next
      BY <1>3
    <2> QED BY <1>3, <2>1 DEF MoneyInv, PayingInOrder
  <1>6. \A c \in 0 .. heap.countries - 1 : Listed(c) \in Seq(States)
    BY <1>1, ListedIs
  <1>7. call.states[call.next].state \in States
    <2>1. \A t \in ToSet(Listed(pass.country)) : t \in States
      BY <1>2, <1>6, LenProperties DEF ToSet
    <2> QED BY <1>3, <2>1
  <1> QED BY <1>1, <1>2, <1>3, <1>4, <1>5, <1>6, <1>7

LEMMA PaymentGoesOn ==
  ASSUME MoneyInv, call.at = "pay", heap' = heap, fresh' = fresh, pass' = pass, slot' = slot, worker' = worker,
         hooks' = hooks, queue' \in Seq(ToSet(queue')), fix' \in [initialized : BOOLEAN, disabled : BOOLEAN],
         fix'.initialized = fix.initialized, NEW disabled, NEW checked, Continue(disabled, checked),
         pool' \in [States -> Nat], given' = [t \in States |-> given'[t]],
         \A t \in States : t # call.states[call.next].state => pool'[t] = pool[t] /\ given'[t] = given[t]
  PROVE  MoneyInv'
  <1>0. /\ pass.at = "next" /\ pass.country \in 0 .. heap.countries - 1 /\ heap \in Worlds
        /\ call.next \in DOMAIN call.states /\ call.next \in Nat
        /\ call.states \in Seq(ToSet(call.states)) /\ DOMAIN call.states = 1 .. Len(call.states)
        /\ Len(call.states) \in Nat /\ call.states[call.next].state \in ToSet(Listed(pass.country))
        /\ \A c \in 0 .. heap.countries - 1 : Listed(c) \in Seq(States)
    BY PayingIs
  <1>1. /\ DOMAIN call = {"at", "after", "states", "pops", "next"}
        /\ DOMAIN auth = {"country", "bank", "after", "states", "pops", "prepared", "checked"}
        /\ auth.country \in {pass.country, None}
    BY DEF MoneyInv, PassTypes, CallInOrder
  <1>2. \/ /\ call'.at = "idle" /\ call'.next = 0 /\ DOMAIN call' = {"at", "after", "states", "pops", "next"}
        \/ /\ call'.at = "pay" /\ call'.next = call.next + 1 /\ call'.states = call.states
           /\ DOMAIN call' = {"at", "after", "states", "pops", "next"} /\ call.next # Len(call.states)
           /\ DOMAIN auth' = {"country", "bank", "after", "states", "pops", "prepared", "checked"}
           /\ auth'.country \in {pass.country, None}
    <2>1. CASE Return
      BY <2>1, Returned
    <2>2. CASE /\ call' = [call EXCEPT !.next = call.next + 1] /\ auth' = [auth EXCEPT !.checked = checked]
               /\ call.next # Len(call.states)
      <3>1. /\ call'.at = "pay" /\ call'.next = call.next + 1 /\ call'.states = call.states
            /\ DOMAIN call' = {"at", "after", "states", "pops", "next"}
        BY <1>1, <2>2
      <3>2. /\ DOMAIN auth' = {"country", "bank", "after", "states", "pops", "prepared", "checked"}
            /\ auth'.country \in {pass.country, None}
        BY <1>1, <2>2
      <3> QED BY <2>2, <3>1, <3>2
    <2> QED BY <2>1, <2>2 DEF Continue
  <1>3. call'.next \in Nat
    BY <1>0, <1>2
  <1>4. PassTypes'
    BY <1>2, <1>3 DEF MoneyInv, PassTypes
  <1>5. CallInOrder'
    BY <1>2 DEF MoneyInv, CallInOrder
  <1>6. PassBegins'
    BY <1>0 DEF PassBegins
  <1>a. \A c : Listed(c)' = Listed(c)
    BY StillListed
  <1>7. PoolsAreSwept'
    <2> SUFFICES ASSUME Swept' PROVE PoolsAreSwept'
      BY DEF PoolsAreSwept
    <2>1. Swept
      BY <1>0 DEF Swept
    <2>2. ASSUME NEW c \in 0 .. heap.countries - 1, Pending(c)', NEW t \in ToSet(Listed(c)) PROVE Untouched(t)'
      <3>1. Pending(c) /\ c # pass.country
        BY <1>0, <2>2 DEF Pending
      <3>2. Untouched(t)
        BY <2>1, <3>1 DEF MoneyInv, PoolsAreSwept
      <3>3. ToSet(Listed(c)) \cap ToSet(Listed(pass.country)) = {}
        BY <1>0, <2>1, <3>1 DEF MoneyInv, PoolsAreSwept
      <3>4. t \in States
        BY <1>0, LenProperties DEF ToSet
      <3>5. t # call.states[call.next].state
        BY <1>0, <3>3
      <3> QED BY <3>2, <3>4, <3>5 DEF Untouched
    <2> QED BY <1>a, <2>1, <2>2 DEF MoneyInv, PoolsAreSwept
  <1>8. PayingInOrder'
    <2>1. CASE call'.at = "idle"
      BY <2>1 DEF PayingInOrder
    <2>2. CASE /\ call'.at = "pay" /\ call'.next = call.next + 1 /\ call'.states = call.states
               /\ call.next # Len(call.states)
      <3>1. ASSUME NEW i \in DOMAIN call.states
            PROVE  /\ call.states[i].state \in ToSet(Listed(pass.country)) /\ call.states[i].count \in Nat
                   /\ i >= call.next => Untouched(call.states[i].state)
                   /\ \A j \in DOMAIN call.states : call.states[i].state = call.states[j].state => i = j
        BY DEF MoneyInv, PayingInOrder
      <3>2. ASSUME NEW i \in DOMAIN call.states, i >= call.next + 1 PROVE Untouched(call.states[i].state)'
        <4>1. i >= call.next /\ i # call.next
          BY <1>0, <3>2
        <4>2. call.states[i].state # call.states[call.next].state
          BY <1>0, <3>1, <4>1
        <4>3. call.states[i].state \in States
          <5>0. Listed(pass.country) \in Seq(States)
            BY <1>0
          <5>1. \A t \in ToSet(Listed(pass.country)) : t \in States
            BY <5>0, LenProperties DEF ToSet
          <5> QED BY <3>1, <5>1
        <4>4. \A t \in States : t # call.states[call.next].state /\ Untouched(t) =>
                pool'[t] = fresh'[t] /\ given'[t] = 0
          BY DEF Untouched
        <4>5. pool'[call.states[i].state] = fresh'[call.states[i].state] /\ given'[call.states[i].state] = 0
          BY <3>1, <4>1, <4>2, <4>3, <4>4
        <4> QED BY <2>2, <4>5 DEF Untouched
      <3>3. call.next + 1 \in DOMAIN call.states
        BY <1>0, <2>2
      <3> QED BY <1>0, <1>a, <2>2, <3>1, <3>2, <3>3 DEF PayingInOrder
    <2> QED BY <1>2, <2>1, <2>2
  <1> QED BY <1>4, <1>5, <1>6, <1>7, <1>8 DEF MoneyInv

\* A payment with an outcome of the service, and its report.
Pays(state, entries, o) ==
  /\ given' = [given EXCEPT ![state.state] = @ + Total(SubSeq(entries, 1, o.written))]
  /\ pool' = IF o.emptied THEN [pool EXCEPT ![state.state] = 0] ELSE pool
  /\ Publish(Result(IF ApplyInterestPayout(o) = "success" THEN "paid"
                    ELSE MutationFixStatus(ApplyInterestPayout(o), o.written # 0),
                    state.state, Total(entries), o.written, o.verified))
  /\ fix' = [fix EXCEPT !.disabled = @ \/ (/\ ApplyInterestPayout(o) # "success"
                                           /\ IsUnsafeAppliedPopInterestFailure(
                                                ApplyInterestPayout(o), o.written # 0))]
  /\ Continue(fix'.disabled, CheckSignature)

\* A state's turn: nothing but a word of why, or a payment and its report.
LEMMA PaymentIs ==
  ASSUME MoneyInv, PayStatePool
  PROVE  LET state == call.states[call.next] IN
         \/ /\ pool' = pool /\ given' = given /\ fix' = fix /\ Continue(FALSE, auth.checked)
            /\ \/ queue' = queue
               \/ \E status : /\ status \notin {"paid", "initialized", "partial_mutation"}
                              /\ Publish(Result(status, state.state, 0, 0, 0))
         \/ \E entries :
              /\ \E R : entries \in Seq(R)
              /\ Total(entries) = state.interest * PopMoneyScale
              /\ \E o \in ApplyStateInterestPayout(state, entries) : Pays(state, entries, o)
  <1> DEFINE state == call.states[call.next]
             division == AllocateInterest(state.interest, Savings(state))
             entries == Entries(state, division.payout)
             silent == Continue(FALSE, auth.checked) /\ UNCHANGED <<queue, pool, given, fix, faults>>
             unpaid(status) ==
                 /\ Publish(Result(status, state.state, 0, 0, 0)) /\ Continue(FALSE, auth.checked)
                 /\ UNCHANGED <<pool, given, fix, faults>>
             paid == \E o \in ApplyStateInterestPayout(state, entries) :
               LET result == ApplyInterestPayout(o)
                   disabled == IsUnsafeAppliedPopInterestFailure(result, o.written # 0)
               IN  /\ Faulty(o)
                   /\ given' = [given EXCEPT ![state.state] = @ + Total(SubSeq(entries, 1, o.written))]
                   /\ pool' = IF o.emptied THEN [pool EXCEPT ![state.state] = 0] ELSE pool
                   /\ Publish(Result(IF result = "success" THEN "paid"
                                     ELSE MutationFixStatus(result, o.written # 0),
                                     state.state, Total(entries), o.written, o.verified))
                   /\ fix' = [fix EXCEPT !.disabled = @ \/ (result # "success" /\ disabled)]
                   /\ Continue(fix'.disabled, CheckSignature)
  <1>1. IF state.interest <= 0 THEN silent
        ELSE IF state.count = 0 THEN unpaid("collection_failed")
        ELSE IF division.status = "no_eligible_savings" THEN unpaid("no_eligible_savings")
        ELSE IF division.status # "success" THEN unpaid("allocation_overflow")
        ELSE IF Total(entries) # state.interest * PopMoneyScale THEN unpaid("conservation_failed")
        ELSE paid
    BY Zenon DEF PayStatePool
  <1>2. \E R : entries \in Seq(R)
    <2>1. call.at = "pay"
      BY DEF PayStatePool
    <2>2. state.count \in Nat
      BY <2>1, PayingIs
    <2> HIDE DEF state
    <2> QED BY <2>2, EntriesAreSeq
  <1>3. CASE silent
    BY <1>3
  <1>4. CASE unpaid("collection_failed") \/ unpaid("no_eligible_savings") \/ unpaid("allocation_overflow")
             \/ unpaid("conservation_failed")
    <2>1. PICK status \in {"collection_failed", "no_eligible_savings", "allocation_overflow", "conservation_failed"} :
             unpaid(status)
      BY <1>4
    <2>2. status \notin {"paid", "initialized", "partial_mutation"}
      OBVIOUS
    <2> QED BY <2>1, <2>2
  <1>5. CASE paid /\ Total(entries) = state.interest * PopMoneyScale
    BY <1>2, <1>5 DEF Pays
  <1> HIDE DEF silent, unpaid, paid
  <1> QED BY <1>1, <1>3, <1>4, <1>5

LEMMA PayStatePoolKeepsMoney == ASSUME MoneyInv, PayStatePool PROVE MoneyInv'
  <1>1. /\ heap' = heap /\ fresh' = fresh /\ pass' = pass /\ slot' = slot /\ worker' = worker /\ hooks' = hooks
        /\ call.at = "pay"
    BY DEF PayStatePool, loaderVars
  <1>2. /\ pool \in [States -> Nat] /\ given = [t \in States |-> given[t]] /\ queue \in Seq(ToSet(queue))
        /\ fix \in [initialized : BOOLEAN, disabled : BOOLEAN]
    BY DEF MoneyInv, PassTypes
  <1>3. CASE /\ pool' = pool /\ given' = given /\ fix' = fix /\ Continue(FALSE, auth.checked)
             /\ queue' = queue \/ \E result : Publish(result)
    <2>1. queue' \in Seq(ToSet(queue'))
      BY <1>2, <1>3, Published
    <2> QED BY <1>1, <1>2, <1>3, <2>1, PaymentGoesOn
  <1>4. ASSUME NEW o, NEW result, NEW s \in States, s = call.states[call.next].state, NEW money, NEW unsafe \in BOOLEAN,
               given' = [given EXCEPT ![s] = money],
               pool' = IF o.emptied THEN [pool EXCEPT ![s] = 0] ELSE pool,
               Publish(result), fix' = [fix EXCEPT !.disabled = unsafe],
               Continue(fix'.disabled, CheckSignature)
        PROVE  MoneyInv'
    <2>1. queue' \in Seq(ToSet(queue'))
      BY <1>4, Published
    <2>2. pool' \in [States -> Nat] /\ \A t \in States : t # s => pool'[t] = pool[t]
      BY <1>2, <1>4
    <2>3. given' = [t \in States |-> given'[t]] /\ \A t \in States : t # s => given'[t] = given[t]
      BY <1>2, <1>4
    <2>4. fix' \in [initialized : BOOLEAN, disabled : BOOLEAN] /\ fix'.initialized = fix.initialized
      BY <1>2, <1>4
    <2> QED BY <1>1, <1>4, <2>1, <2>2, <2>3, <2>4, PaymentGoesOn
  <1>5. call.states[call.next].state \in States
    BY <1>1, PayingIs
  <1>6. ASSUME NEW entries, NEW o, Pays(call.states[call.next], entries, o) PROVE MoneyInv'
    <2>1. PICK s \in States : s = call.states[call.next].state
      BY <1>5
    <2>2. PICK unsafe \in BOOLEAN : unsafe = (fix.disabled \/ (/\ ApplyInterestPayout(o) # "success"
                                                      /\ IsUnsafeAppliedPopInterestFailure(
                                                           ApplyInterestPayout(o), o.written # 0)))
      OBVIOUS
    <2>3. PICK money : money = given[s] + Total(SubSeq(entries, 1, o.written))
      OBVIOUS
    <2>4. /\ given' = [given EXCEPT ![s] = money]
          /\ pool' = IF o.emptied THEN [pool EXCEPT ![s] = 0] ELSE pool
          /\ fix' = [fix EXCEPT !.disabled = unsafe] /\ Continue(fix'.disabled, CheckSignature)
      BY <1>6, <2>1, <2>2, <2>3 DEF Pays
    <2>5. \E result : Publish(result)
      BY <1>6 DEF Pays
    <2> QED BY <1>4, <2>1, <2>4, <2>5
  <1>7. \/ /\ pool' = pool /\ given' = given /\ fix' = fix /\ Continue(FALSE, auth.checked)
           /\ queue' = queue \/ \E result : Publish(result)
        \/ \E entries, o : Pays(call.states[call.next], entries, o)
    BY PaymentIs, Zenon
  <1> QED BY <1>3, <1>6, <1>7

\* What a payment does to the money, and what it says of it.
LEMMA PayStatePoolIsSound == ASSUME MoneyInv, PayStatePool PROVE OnlyFreshIsPaid /\ ReportIsTrue
  <1>0. call.at = "pay"
    BY DEF PayStatePool
  <1>a. PICK state : state = call.states[call.next]
    OBVIOUS
  <1>b. PICK s \in States : s = state.state
    BY <1>0, <1>a, PayingIs
  <1>1. state = call.states[call.next] /\ s = state.state
    BY <1>a, <1>b
  <1>2. /\ pool \in [States -> Nat] /\ given = [t \in States |-> given[t]] /\ Untouched(s)
    BY <1>0, <1>1, PayingIs
  <1>3. CASE /\ pool' = pool /\ given' = given
             /\ \/ queue' = queue
                \/ \E status : /\ status \notin {"paid", "initialized", "partial_mutation"}
                               /\ Publish(Result(status, s, 0, 0, 0))
    <2>1. OnlyFreshIsPaid
      BY <1>3 DEF OnlyFreshIsPaid
    <2>2. CASE queue' = queue
      <3>1. ~(Len(queue') > Len(queue))
        <4>1. Len(queue) \in Nat
          <5>1. queue \in Seq(ToSet(queue))
            BY DEF MoneyInv, PassTypes
          <5> QED BY <5>1, LenProperties
        <4> QED BY <2>2, <4>1
      <3> QED BY <2>1, <3>1 DEF ReportIsTrue
    <2>3. CASE \E status : /\ status \notin {"paid", "initialized", "partial_mutation"}
                           /\ Publish(Result(status, s, 0, 0, 0))
      <3>1. PICK status : /\ status \notin {"paid", "initialized", "partial_mutation"}
                          /\ Publish(Result(status, s, 0, 0, 0))
        BY <2>3
      <3>2. Len(queue') > Len(queue) => Last(queue').status = status
        BY <3>1, Published DEF Result
      <3> QED BY <1>3, <2>1, <3>1, <3>2 DEF ReportIsTrue
    <2> QED BY <1>3, <2>2, <2>3
  <1>4. ASSUME NEW entries, NEW R, entries \in Seq(R), Total(entries) = state.interest * PopMoneyScale,
               NEW o \in ApplyStateInterestPayout(state, entries), Pays(state, entries, o)
        PROVE  OnlyFreshIsPaid /\ ReportIsTrue
    <2>0. Len(entries) \in Nat /\ DOMAIN entries = 1 .. Len(entries)
      BY <1>4, LenProperties
    <2>1. /\ o.written \in Nat /\ o.emptied \in BOOLEAN
          /\ \/ o.status # "success" /\ o.written = 0 /\ ~o.emptied
             \/ o.status = "postcondition_failed"
             \/ /\ o.status = "success" /\ o.emptied /\ o.written = Len(entries) /\ o.verified = Len(entries)
                /\ pool[s] = state.interest
      BY <1>1, <1>4, <2>0, PaymentOutcomes
    <2>2. OnlyFreshIsPaid
      <3>1. \A t \in States : t # s => given'[t] = given[t]
        BY <1>1, <1>2, <1>4 DEF Pays
      <3> QED BY <1>2, <3>1 DEF OnlyFreshIsPaid, Untouched
    <2>3. ApplyInterestPayout(o) = "success" <=> o.status = "success"
      BY DEF ApplyInterestPayout, InterestResult
    <2> DEFINE status == IF ApplyInterestPayout(o) = "success" THEN "paid"
                         ELSE MutationFixStatus(ApplyInterestPayout(o), o.written # 0)
    <2>4. Len(queue') > Len(queue) => Last(queue') = Result(status, s, Total(entries), o.written, o.verified)
      BY <1>1, <1>4, Published DEF Pays
    <2>5. CASE o.status = "success"
      <3>1. o.emptied /\ o.written = Len(entries) /\ o.verified = Len(entries) /\ pool[s] = state.interest
        BY <2>1, <2>5
      <3>2. SubSeq(entries, 1, o.written) = entries
        BY <1>4, <3>1, SubSeqFull
      <3>3. given' = [given EXCEPT ![s] = @ + Total(entries)] /\ pool' = [pool EXCEPT ![s] = 0]
        BY <1>1, <1>4, <3>1, <3>2 DEF Pays
      <3>4. status = "paid" /\ Total(entries) = pool[s] * PopMoneyScale
        BY <1>4, <2>3, <2>5, <3>1
      <3>5. ASSUME Len(queue') > Len(queue)
            PROVE  /\ Last(queue').status = "paid" /\ Last(queue').state = s /\ Last(queue').payout = Total(entries)
                   /\ Last(queue').paid = Last(queue').verified
        BY <2>4, <3>1, <3>4, <3>5 DEF Result
      <3> HIDE DEF status
      <3>6. ReportIsTrue
        BY <3>3, <3>4, <3>5 DEF ReportIsTrue
      <3> QED BY <2>2, <3>6
    <2>6. CASE o.status = "postcondition_failed"
      <3>1. status = "partial_mutation"
        BY <2>6 DEF ApplyInterestPayout, InterestResult, MutationFixStatus
      <3>2. Len(queue') > Len(queue) => Last(queue').status = "partial_mutation"
        BY <2>4, <3>1 DEF Result
      <3> QED BY <2>2, <3>2 DEF ReportIsTrue
    <2>7. CASE o.status # "success" /\ o.written = 0 /\ ~o.emptied
      <3>1. SubSeq(entries, 1, o.written) = <<>>
        BY <2>7, SubSeqEmpty
      <3>2. given' = [given EXCEPT ![s] = @ + 0] /\ pool' = pool
        BY <1>1, <1>4, <2>7, <3>1, NothingIsZero DEF Pays
      <3>3. given' = given
        BY <1>2, <3>2 DEF Untouched
      <3>4. status \notin {"paid", "initialized"}
        BY <2>3, <2>7 DEF MutationFixStatus
      <3>5. Len(queue') > Len(queue) => Last(queue').status \notin {"paid", "initialized"}
        BY <2>4, <3>4 DEF Result
      <3> HIDE DEF status
      <3> QED BY <2>2, <3>2, <3>3, <3>5 DEF ReportIsTrue
    <2> QED BY <2>1, <2>5, <2>6, <2>7
  <1>5. \/ /\ pool' = pool /\ given' = given
           /\ \/ queue' = queue
              \/ \E status : /\ status \notin {"paid", "initialized", "partial_mutation"}
                             /\ Publish(Result(status, s, 0, 0, 0))
        \/ \E entries : /\ \E R : entries \in Seq(R)
                        /\ Total(entries) = state.interest * PopMoneyScale
                        /\ \E o \in ApplyStateInterestPayout(state, entries) : Pays(state, entries, o)
    BY <1>1, PaymentIs, Zenon
  <1> QED BY <1>3, <1>4, <1>5

\* Functions that differ only in the places m names, each of them once, by a.
ChangeIn(D, I, f, e, a, m) ==
  /\ IsFiniteSet(D) /\ IsFiniteSet(I) /\ f \in [D -> Int] /\ e \in [D -> Int]
  /\ a \in [I -> Int] /\ m \in [I -> D]
  /\ \A i, j \in I : m[i] = m[j] => i = j
  /\ \A i \in I : a[i] = f[m[i]] - e[m[i]]
  /\ \A x \in D : (\A i \in I : m[i] # x) => f[x] = e[x]

LEMMA ChangeAddsUp ==
  ASSUME NEW D, NEW I, NEW f, NEW e, NEW a, NEW m, ChangeIn(D, I, f, e, a, m),
         NEW h, AddsUp(h, f, D), NEW g, AddsUp(g, e, D), NEW k, AddsUp(k, a, I)
  PROVE  k[I] = h[D] - g[D]
  BY SumOfChanges DEF ChangeIn

\* What a cleanup empties is what it says it discarded.
LEMMA EmptiedIsDiscarded ==
  ASSUME CampaignHolds, NEW f, f = pool, f \in [States -> Nat],
         NEW e, e = [s \in States |-> IF s \in Emptied(Campaign) THEN 0 ELSE f[s]]
  PROVE  Discarded(Campaign) = SumOver(f) - SumOver(e)
  <1>1. IsFiniteSet(States)
    BY StateReaderAssumption
  <1>2. PICK I : I = DOMAIN Campaign
    OBVIOUS
  <1>3. IsFiniteSet(I)
    <2>1. I = 1 .. Len(Campaign) /\ Len(Campaign) \in Nat
      BY <1>2 DEF CampaignHolds
    <2> QED BY <2>1, FS_Interval
  <1>4. f \in [States -> Int] /\ e \in [States -> Int]
    OBVIOUS
  <1>5. PICK m : m = [i \in I |-> Campaign[i].state]
    OBVIOUS
  <1>6. PICK a : a = [i \in I |-> Campaign[i].interest]
    OBVIOUS
  <1>7. \A i \in I : m[i] \in States /\ m[i] = Campaign[i].state /\ a[i] = Campaign[i].interest /\ a[i] = f[m[i]]
    BY <1>2, <1>5, <1>6 DEF CampaignHolds
  <1>8. m \in [I -> States] /\ a \in [I -> Int]
    BY <1>4, <1>5, <1>6, <1>7
  <1>9. \A i, j \in I : m[i] = m[j] => i = j
    BY <1>2, <1>5 DEF CampaignHolds
  <1>10. \A s : s \in Emptied(Campaign) <=> \E i \in I : m[i] = s /\ a[i] # 0
    BY <1>2, <1>7 DEF Emptied
  <1>11. \A i \in I : e[m[i]] = 0 /\ a[i] = f[m[i]] - e[m[i]]
    BY <1>4, <1>7, <1>10
  <1>12. \A s \in States : (\A i \in I : m[i] # s) => f[s] = e[s]
    BY <1>10
  <1>13. PICK h : AddsUp(h, f, States) /\ SumOver(f) = h[States]
    BY <1>1, <1>4, SumOverAdds
  <1>14. PICK g : AddsUp(g, e, States) /\ SumOver(e) = g[States]
    BY <1>1, <1>4, SumOverAdds
  <1>15. PICK k : AddsUp(k, a, I) /\ Discarded(Campaign) = k[I]
    <2>1. \A i \in DOMAIN Campaign : a[i] = Campaign[i].interest
      BY <1>2, <1>7
    <2>2. PICK states : states = Campaign
      OBVIOUS
    <2>3. \E k : AddsUp(k, a, DOMAIN states) /\ Discarded(states) = k[DOMAIN states]
      BY <1>2, <1>3, <1>8, <2>1, <2>2, DiscardedAdds
    <2> QED BY <1>2, <2>2, <2>3
  <1>16. k[I] = h[States] - g[States]
    <2>1. ChangeIn(States, I, f, e, a, m)
      BY <1>1, <1>3, <1>4, <1>8, <1>9, <1>11, <1>12 DEF ChangeIn
    <2> QED BY <2>1, <1>13, <1>14, <1>15, ChangeAddsUp
  <1> QED BY <1>13, <1>14, <1>15, <1>16

\* A step that pays nobody and publishes nothing, or only that it failed and
\* touched nothing, is sound.
LEMMA QuietIsSound ==
  ASSUME MoneyInv, \A s \in States : given'[s] \in {0, given[s]},
         Len(queue') > Len(queue) =>
            given' = given /\ pool' = pool /\ Last(queue').status \notin {"paid", "initialized"}
  PROVE  OnlyFreshIsPaid /\ ReportIsTrue
  <1>1. OnlyFreshIsPaid
    BY DEF OnlyFreshIsPaid
  <1>2. ReportIsTrue
    BY DEF ReportIsTrue
  <1> QED BY <1>1, <1>2

LEMMA QueueIsLong == MoneyInv => Len(queue) \in Nat
  <1> SUFFICES ASSUME MoneyInv PROVE Len(queue) \in Nat
    OBVIOUS
  <1>1. queue \in Seq(ToSet(queue))
    BY DEF MoneyInv, PassTypes
  <1> QED BY <1>1, LenProperties

LEMMA SilentIsSound ==
  ASSUME MoneyInv, given' \in {given, Zero}, queue' = queue
  PROVE  OnlyFreshIsPaid /\ ReportIsTrue
  <1>1. ~(Len(queue') > Len(queue))
    BY QueueIsLong
  <1>2. \A s \in States : given'[s] \in {0, given[s]}
    BY DEF Zero
  <1> QED BY <1>1, <1>2, QuietIsSound

LEMMA WriteResultsIsSound == ASSUME MoneyInv, WriteResults PROVE OnlyFreshIsPaid /\ ReportIsTrue
  <1>1. given' = given
    BY DEF WriteResults, ghostVars
  <1>2. CASE queue' = queue
    BY <1>1, <1>2, SilentIsSound
  <1>3. CASE queue # <<>> /\ queue' = Tail(queue)
    <2>1. queue \in Seq(ToSet(queue))
      BY DEF MoneyInv, PassTypes
    <2>2. Len(queue') = Len(queue) - 1 /\ Len(queue) \in Nat
      BY <1>3, <2>1, HeadTailProperties, LenProperties
    <2> QED BY <1>1, <2>2, QuietIsSound
  <1> QED BY <1>2, <1>3 DEF WriteResults

LEMMA FailureIsSound ==
  ASSUME MoneyInv, given' = given, pool' = pool, NEW result, PublishFailure(result)
  PROVE  OnlyFreshIsPaid /\ ReportIsTrue
  <1>1. FailureStatus(result) \notin {"paid", "initialized"}
    BY DEF FailureStatus, MutationFixStatus
  <1>2. PICK r : r = Result(FailureStatus(result), None, 0, 0, 0)
    OBVIOUS
  <1>3. Publish(r) /\ r.status = FailureStatus(result)
    BY <1>2 DEF PublishFailure, Result
  <1>4. Len(queue') > Len(queue) => Last(queue') = r
    BY <1>3, Published
  <1> QED BY <1>1, <1>3, <1>4, QuietIsSound

LEMMA CollectStatesIsSound == ASSUME MoneyInv, CollectStates PROVE OnlyFreshIsPaid /\ ReportIsTrue
  <1>1. given' = given /\ pool' = pool
    BY DEF CollectStates, ghostVars, gameVars
  <1>2. queue' = queue \/ \E result : PublishFailure(result)
    BY DEF CollectStates
  <1> QED BY <1>1, <1>2, SilentIsSound, FailureIsSound

LEMMA PrepareIsSound == ASSUME MoneyInv, Prepare PROVE OnlyFreshIsPaid /\ ReportIsTrue
  <1>1. given' = given /\ pool' = pool
    BY DEF Prepare, ghostVars, gameVars
  <1>2. queue' = queue \/ \E result : PublishFailure(result)
    BY DEF Prepare
  <1> QED BY <1>1, <1>2, SilentIsSound, FailureIsSound

LEMMA InitializeIsSound == ASSUME FixInv, MoneyInv, Initialize PROVE OnlyFreshIsPaid /\ ReportIsTrue
  <1>1. given' = given /\ heap' = heap
    BY DEF Initialize, ghostVars
  <1>2. PICK o \in DiscardStateInterestPools :
          /\ pool' = [s \in States |-> IF s \in o.emptied THEN 0 ELSE pool[s]]
          /\ Publish(Result(IF DiscardInterestPools(o) = "success" THEN "initialized"
                            ELSE MutationFixStatus(DiscardInterestPools(o), o.cleared # 0), None, o.discarded, 0, 0))
    BY DEF Initialize
  <1>3. heap \in Worlds /\ pool \in [States -> Nat]
    BY DEF MoneyInv, PassTypes
  <1>4. PICK f : f = pool
    OBVIOUS
  <1>5. PICK e : e = pool'
    OBVIOUS
  <1>6. OnlyFreshIsPaid
    BY <1>1 DEF OnlyFreshIsPaid
  <1>7. CASE DiscardInterestPools(o) = "success"
    <2>1. CampaignHolds /\ o.emptied = Emptied(Campaign) /\ o.discarded = Discarded(Campaign)
      BY <1>3, <1>7, DiscardIs
    <2>2. PICK r : r = Result("initialized", None, o.discarded, 0, 0)
      OBVIOUS
    <2>3. Publish(r) /\ r.status = "initialized" /\ r.payout = o.discarded
      BY <1>2, <1>7, <2>2 DEF Result
    <2>4. Len(queue') > Len(queue) => Last(queue') = r
      BY <2>3, Published
    <2>5. r.payout = SumOver(pool) - SumOver(pool')
      <3>1. e = [s \in States |-> IF s \in Emptied(Campaign) THEN 0 ELSE f[s]]
        BY <1>2, <1>4, <1>5, <2>1
      <3>2. Discarded(Campaign) = SumOver(f) - SumOver(e)
        BY <1>3, <1>4, <2>1, <3>1, EmptiedIsDiscarded
      <3> QED BY <1>4, <1>5, <2>1, <2>3, <3>2
    <2>6. ASSUME NEW c \in 1 .. heap.countries - 1, NEW i \in DOMAIN Listed(c) PROVE pool'[Listed(c)[i]] = 0
      <3>1. PICK s : s = Listed(c)[i]
        OBVIOUS
      <3>2. s \in ToSet(Listed(c))
        BY <3>1 DEF ToSet
      <3>3. PICK j \in DOMAIN Campaign : Campaign[j].state = s
        BY <2>1, <3>2 DEF CampaignHolds
      <3>4. s \in States /\ Campaign[j].interest = pool[s]
        BY <2>1, <3>3 DEF CampaignHolds
      <3>5. pool[s] # 0 => s \in o.emptied
        BY <2>1, <3>3, <3>4 DEF Emptied
      <3> QED BY <1>2, <3>1, <3>4, <3>5
    <2>7. ReportIsTrue
      BY <1>1, <2>3, <2>4, <2>5, <2>6 DEF ReportIsTrue
    <2> QED BY <1>6, <2>7
  <1>8. CASE DiscardInterestPools(o) # "success"
    <2>1. PICK status : status = MutationFixStatus(DiscardInterestPools(o), o.cleared # 0)
      OBVIOUS
    <2>2. status \notin {"initialized", "paid"} /\ (o.emptied = {} \/ status = "partial_mutation")
      BY <1>3, <1>8, <2>1, DiscardIs
    <2>3. PICK r : r = Result(status, None, o.discarded, 0, 0)
      OBVIOUS
    <2>4. Publish(r) /\ r.status = status
      BY <1>2, <1>8, <2>1, <2>3 DEF Result
    <2>5. Len(queue') > Len(queue) => Last(queue') = r
      BY <2>4, Published
    <2>6. o.emptied = {} => pool' = pool
      BY <1>2, <1>3
    <2>7. ReportIsTrue
      BY <1>1, <2>2, <2>4, <2>5, <2>6 DEF ReportIsTrue
    <2> QED BY <1>6, <2>7
  <1> QED BY <1>7, <1>8

\* Every other step leaves the queue alone, and what was given too, but at the
\* end of a pass.
LEMMA OthersAreSound ==
  ASSUME MoneyInv,
         \/ StartPass \/ DispatchBefore \/ Distribute \/ DispatchAfter \/ NextCountry \/ LoadSave \/ Damage
         \/ AcquireServices \/ StartWorker \/ LoadDone \/ Unregister \/ Join \/ OthersReturn \/ LoaderActs
         \/ UNCHANGED fixVars
  PROVE  OnlyFreshIsPaid /\ ReportIsTrue
  <1>1. queue' = queue /\ given' \in {given, Zero}
    <2>1. CASE StartPass BY <2>1 DEF StartPass, resultVars, ghostVars
    <2>2. CASE DispatchBefore BY <2>2 DEF DispatchBefore, resultVars, ghostVars
    <2>3. CASE Distribute BY <2>3 DEF Distribute, resultVars
    <2>4. CASE DispatchAfter BY <2>4 DEF DispatchAfter, resultVars, ghostVars
    <2>5. CASE NextCountry BY <2>5 DEF NextCountry, resultVars, ghostVars
    <2>6. CASE LoadSave BY <2>6 DEF LoadSave, resultVars, ghostVars
    <2>7. CASE Damage BY <2>7 DEF Damage, resultVars, ghostVars
    <2>8. CASE AcquireServices BY <2>8 DEF AcquireServices, resultVars, ghostVars
    <2>9. CASE StartWorker BY <2>9 DEF StartWorker, ghostVars
    <2>10. CASE LoadDone BY <2>10 DEF LoadDone, resultVars, ghostVars
    <2>11. CASE Unregister BY <2>11 DEF Unregister, resultVars, ghostVars
    <2>12. CASE Join BY <2>12 DEF Join, ghostVars
    <2>13. CASE OthersReturn BY <2>13 DEF OthersReturn, resultVars, ghostVars
    <2>14. CASE LoaderActs BY <2>14 DEF LoaderActs, resultVars, ghostVars
    <2>15. CASE UNCHANGED fixVars BY <2>15 DEF fixVars, resultVars, ghostVars
    <2> QED BY <2>1, <2>2, <2>3, <2>4, <2>5, <2>6, <2>7, <2>8, <2>9, <2>10, <2>11, <2>12, <2>13, <2>14, <2>15
  <1> QED BY <1>1, SilentIsSound

-----------------------------------------------------------------------------
LEMMA MoneyInit == FixInit => MoneyInv
  <1> SUFFICES ASSUME FixInit PROVE MoneyInv
    OBVIOUS
  <1>1. /\ heap \in Worlds /\ pool \in SavedPools /\ fix = [initialized |-> FALSE, disabled |-> FALSE]
        /\ call = Idle /\ queue = <<>> /\ fresh = Zero /\ given = Zero /\ pass = NotPassing
    BY DEF FixInit
  <1>2. call.at = "idle" /\ call.next = 0 /\ DOMAIN call = {"at", "after", "states", "pops", "next"}
    BY <1>1 DEF Idle
  <1>3. pass.at = "idle" /\ pass.country = 0
    BY <1>1 DEF NotPassing
  <1>4. PassTypes
    <2>1. pool \in [States -> Nat]
      BY <1>1, FixAssumption DEF SavedPools
    <2>2. fresh \in [States -> Nat] /\ given = [s \in States |-> given[s]]
      BY <1>1 DEF Zero
    <2>3. queue \in Seq(ToSet(queue))
      BY <1>1
    <2>4. pass \in [at : {"idle", "before", "distribute", "after", "after_nothing", "next"}, country : Nat]
      BY <1>1 DEF NotPassing
    <2> QED BY <1>1, <1>2, <1>3, <2>1, <2>2, <2>3, <2>4 DEF PassTypes
  <1>5. CallInOrder
    BY <1>1, <1>2 DEF CallInOrder
  <1>6. PassBegins
    BY <1>1 DEF PassBegins
  <1>7. PoolsAreSwept
    BY <1>1 DEF PoolsAreSwept, Swept
  <1>8. PayingInOrder
    BY <1>2 DEF PayingInOrder
  <1> QED BY <1>4, <1>5, <1>6, <1>7, <1>8 DEF MoneyInv

LEMMA StutterKeepsMoney == ASSUME MoneyInv, UNCHANGED fixVars PROVE MoneyInv'
  <1>1. /\ heap' = heap /\ pool' = pool /\ fresh' = fresh /\ given' = given /\ pass' = pass /\ call' = call
        /\ auth' = auth /\ queue' = queue /\ fix' = fix /\ slot' = slot /\ worker' = worker /\ hooks' = hooks
    BY DEF fixVars, gameVars, pluginVars, resultVars, ghostVars, loaderVars
  <1>2. /\ queue \in Seq(ToSet(queue)) /\ fix \in [initialized : BOOLEAN, disabled : BOOLEAN]
        /\ (fix.initialized => ~(worker = "none" /\ slot = "free"))
        /\ (fix.initialized \/ call.at # "idle" => hooks # {})
    BY DEF MoneyInv, PassTypes, CallInOrder
  <1> QED BY <1>1, <1>2, MoneyIsLeft

LEMMA StepKeepsMoney == ASSUME FixInv, MoneyInv, FixNext PROVE MoneyInv'
  BY StartPassKeepsMoney, DispatchBeforeKeepsMoney, DistributeKeepsMoney, DispatchAfterKeepsMoney,
     NextCountryKeepsMoney, LoadSaveKeepsMoney, InitializeKeepsMoney, CollectStatesKeepsMoney,
     PrepareKeepsMoney, PayStatePoolKeepsMoney, PluginSideKeepsMoney DEF FixNext

LEMMA StepIsSound == ASSUME FixInv, MoneyInv, [FixNext]_fixVars PROVE OnlyFreshIsPaid /\ ReportIsTrue
  BY InitializeIsSound, CollectStatesIsSound, PrepareIsSound, PayStatePoolIsSound, WriteResultsIsSound,
     OthersAreSound DEF FixNext

(***************************************************************************)
(* In every game that can be loaded the plugin knows where it is in a bank *)
(* pass: once the old pools are emptied, the states still to be paid hold  *)
(* only what they were given in this pass, and none is listed twice        *)
(* (Initialize, Distribute, PayStatePool).                                 *)
(***************************************************************************)
THEOREM FixSpecMoneyInv == FixSpec => []MoneyInv
  <1>1. FixInit => MoneyInv
    BY MoneyInit
  <1>2. FixInv /\ MoneyInv /\ [FixNext]_fixVars => MoneyInv'
    BY StepKeepsMoney, StutterKeepsMoney
  <1> QED BY <1>1, <1>2, FixSpecFixInv, PTL DEF FixSpec

(***************************************************************************)
(* Money is paid only out of the pass's own interest and only once, and    *)
(* every result that is published says what was done to the pools and the  *)
(* POPs (Initialize, PayStatePool, MutationFixStatus), whatever the games, *)
(* the memory that changes, the writes that fail and the plugins beside.   *)
(***************************************************************************)
THEOREM FixSpecPaymentsAreSound == FixSpec => PaymentsAreSound
  <1>1. FixInv /\ MoneyInv /\ [FixNext]_fixVars => OnlyFreshIsPaid /\ ReportIsTrue
    BY StepIsSound
  <1>2. FixInv /\ MoneyInv /\ [FixNext]_fixVars => [OnlyFreshIsPaid /\ ReportIsTrue]_fixVars
    BY <1>1
  <1> QED BY <1>2, FixSpecFixInv, FixSpecMoneyInv, PTL DEF FixSpec, PaymentsAreSound

-----------------------------------------------------------------------------
(* Powers of two, which the prover knows as numbers of subsets only.       *)

LEMMA PowerOfTwo == \A n \in Nat : 2 ^ n = Cardinality(SUBSET (1 .. n)) /\ IsFiniteSet(SUBSET (1 .. n))
  <1> SUFFICES ASSUME NEW n \in Nat
               PROVE  2 ^ n = Cardinality(SUBSET (1 .. n)) /\ IsFiniteSet(SUBSET (1 .. n))
    OBVIOUS
  <1>1. IsFiniteSet(1 .. n) /\ Cardinality(1 .. n) = n
    BY FS_Interval
  <1>2. Cardinality(SUBSET (1 .. n)) = 2 ^ Cardinality(1 .. n) /\ IsFiniteSet(SUBSET (1 .. n))
    BY <1>1, FS_SUBSET
  <1> QED BY <1>1, <1>2

LEMMA PowerIsNat == \A n \in Nat : 2 ^ n \in Nat
  BY PowerOfTwo, FS_CardinalityType

LEMMA PowerOfZero == 2 ^ 0 = 1
  <1>1. SUBSET (1 .. 0) = {{}}
    <2>1. 1 .. 0 = {}
      OBVIOUS
    <2> QED BY <2>1
  <1>2. Cardinality({{}}) = 1
    BY FS_Singleton
  <1>3. 2 ^ 0 = Cardinality(SUBSET (1 .. 0))
    BY PowerOfTwo
  <1> QED BY <1>1, <1>2, <1>3

LEMMA PowerDoubles == \A n \in Nat : 2 ^ (n + 1) = 2 ^ n + 2 ^ n
  <1> SUFFICES ASSUME NEW n \in Nat PROVE 2 ^ (n + 1) = 2 ^ n + 2 ^ n
    OBVIOUS
  <1> DEFINE A == SUBSET (1 .. n)
             B == {s \cup {n + 1} : s \in A}
             f == [s \in A |-> s \cup {n + 1}]
  <1>1. SUBSET (1 .. n + 1) = A \cup B
    <2>1. ASSUME NEW t \in SUBSET (1 .. n + 1) PROVE t \in A \cup B
      <3>1. CASE n + 1 \in t
        <4>1. t \ {n + 1} \in A
          OBVIOUS
        <4>2. t = (t \ {n + 1}) \cup {n + 1}
          BY <3>1
        <4> QED BY <4>1, <4>2
      <3>2. CASE n + 1 \notin t
        BY <3>2
      <3> QED BY <3>1, <3>2
    <2>2. ASSUME NEW t \in A \cup B PROVE t \in SUBSET (1 .. n + 1)
      OBVIOUS
    <2> QED BY <2>1, <2>2
  <1>2. A \cap B = {}
    OBVIOUS
  <1>3. f \in Bijection(A, B)
    <2>1. ASSUME NEW s \in A, NEW t \in A, f[s] = f[t] PROVE s = t
      <3>1. s \cup {n + 1} = t \cup {n + 1} /\ n + 1 \notin s /\ n + 1 \notin t
        BY <2>1
      <3> QED BY <3>1
    <2>2. f \in [A -> B] /\ \A t \in B : \E s \in A : f[s] = t
      OBVIOUS
    <2> QED BY <2>1, <2>2 DEF Bijection, Injection, Surjection, IsInjective
  <1>4. IsFiniteSet(A) /\ Cardinality(A) = 2 ^ n
    BY PowerOfTwo
  <1>5. IsFiniteSet(B) /\ Cardinality(B) = Cardinality(A)
    <2>1. ExistsBijection(A, B)
      BY <1>3 DEF ExistsBijection
    <2> HIDE DEF A, B
    <2> QED BY <1>4, <2>1, FS_Bijection
  <1>6. Cardinality(A \cup B) = Cardinality(A) + Cardinality(B)
    <2>1. Cardinality(A \cap B) = 0
      BY <1>2, FS_EmptySet
    <2>2. Cardinality(A) \in Nat /\ Cardinality(B) \in Nat
      BY <1>4, <1>5, FS_CardinalityType
    <2>3. Cardinality(A \cup B) = Cardinality(A) + Cardinality(B) - Cardinality(A \cap B)
      <3> HIDE DEF A, B
      <3> QED BY <1>4, <1>5, FS_Union
    <2> HIDE DEF A, B
    <2> QED BY <2>1, <2>2, <2>3
  <1>7. 2 ^ (n + 1) = Cardinality(SUBSET (1 .. n + 1))
    BY PowerOfTwo
  <1> HIDE DEF A, B
  <1> QED BY <1>1, <1>4, <1>5, <1>6, <1>7

LEMMA PowerIsPositive == \A n \in Nat : 2 ^ n \in Nat \ {0}
  <1> DEFINE Good == {n \in Nat : 2 ^ n > 0}
  <1>1. 0 \in Good
    BY PowerOfZero
  <1>2. ASSUME NEW n \in Nat, n \in Good PROVE n + 1 \in Good
    BY <1>2, PowerDoubles, PowerIsNat
  <1>3. Nat \subseteq Good
    <2> HIDE DEF Good
    <2> QED BY <1>1, <1>2, SetInduction
  <1> QED BY <1>3, PowerIsNat

\* A quotient by a power of two is what is left of a number's bits.
LEMMA BitsLeft ==
  ASSUME NEW n \in Nat, NEW i \in Nat
  PROVE  /\ n \div 2 ^ i \in Nat /\ n \div 2 ^ i <= n
         /\ Bit(n, i) \in {0, 1}
         /\ n \div 2 ^ i = (n \div 2 ^ (i + 1)) + (n \div 2 ^ (i + 1)) + Bit(n, i)
  <1>1. PICK p \in Nat \ {0} : p = 2 ^ i /\ 2 ^ (i + 1) = p + p
    BY PowerIsPositive, PowerDoubles
  <1>2. PICK b \in Nat, r \in Nat : b = n \div p /\ r = n % p /\ r < p /\ n = p * b + r
    OBVIOUS
  <1>3. b <= n
    BY <1>2
  <1>4. PICK c \in Nat, e \in Nat : c = b \div 2 /\ e = b % 2 /\ e \in {0, 1} /\ b = c + c + e
    BY <1>2
  <1>5. n \div (p + p) = c
    <2>1. n = (p + p) * c + (p * e + r)
      <3>1. p * b = p * c + p * c + p * e
        BY <1>4
      <3>2. (p + p) * c = p * c + p * c
        OBVIOUS
      <3> QED BY <1>2, <3>1, <3>2
    <2>2. p * e + r \in Nat /\ p * e + r < p + p
      <3>1. p * e = 0 \/ p * e = p
        BY <1>4
      <3> QED BY <1>2, <3>1
    <2> QED BY <2>1, <2>2
  <1> QED BY <1>1, <1>2, <1>3, <1>4, <1>5 DEF Bit

-----------------------------------------------------------------------------
(* Folds that are not sums.                                                *)

FoldsTo(h, D, base, pick, step) ==
  h = [s \in SUBSET D |-> IF s = {} THEN base ELSE step[<<pick[s], h[s \ {pick[s]}]>>]]

\* What is folded: a step within a type, and one of the places that are left.
Folding(D, V, base, pick, step) ==
  /\ IsFiniteSet(D) /\ base \in V /\ step \in [D \X V -> V]
  /\ \A s \in SUBSET D : s # {} => pick[s] \in s

\* The values of a fold over the subsets of a finite set are there, and of the type of its step.
LEMMA FoldExists ==
  ASSUME NEW D, NEW V, NEW base, NEW pick, NEW step, Folding(D, V, base, pick, step)
  PROVE  \E h : FoldsTo(h, D, base, pick, step) /\ \A s \in SUBSET D : h[s] \in V
  <1> DEFINE eq(h, s) == h[s] = IF s = {} THEN base ELSE step[<<pick[s], h[s \ {pick[s]}]>>]
             Good == {n \in Nat : \E h : \A s \in SUBSET D : Cardinality(s) <= n => eq(h, s) /\ h[s] \in V}
  <1>f. /\ IsFiniteSet(D) /\ base \in V /\ step \in [D \X V -> V]
        /\ \A s \in SUBSET D : s # {} => pick[s] \in s
    BY DEF Folding
  <1>0. \A s \in SUBSET D : IsFiniteSet(s) /\ Cardinality(s) \in Nat
    BY <1>f, FS_Subset, FS_CardinalityType
  <1>1. 0 \in Good
    <2>1. PICK h : h = [s \in SUBSET D |-> base]
      OBVIOUS
    <2>2. ASSUME NEW s \in SUBSET D, Cardinality(s) <= 0 PROVE eq(h, s) /\ h[s] \in V
      <3>1. s = {}
        BY <1>0, <2>2, FS_EmptySet
      <3> QED BY <1>f, <2>1, <3>1
    <2> QED BY <2>2
  <1>2. ASSUME NEW n \in Nat, n \in Good PROVE n + 1 \in Good
    <2>1. PICK h : \A s \in SUBSET D : Cardinality(s) <= n => eq(h, s) /\ h[s] \in V
      BY <1>2
    <2>2. PICK g : g = [s \in SUBSET D |-> IF s = {} THEN base ELSE step[<<pick[s], h[s \ {pick[s]}]>>]]
      OBVIOUS
    <2>3. ASSUME NEW s \in SUBSET D, Cardinality(s) <= n PROVE g[s] = h[s]
      BY <2>1, <2>2, <2>3
    <2>4. ASSUME NEW s \in SUBSET D, Cardinality(s) <= n + 1 PROVE eq(g, s) /\ g[s] \in V
      <3>1. CASE s = {}
        BY <1>f, <2>2, <3>1
      <3>2. CASE s # {}
        <4>1. pick[s] \in s
          BY <1>f, <3>2
        <4>2. Cardinality(s \ {pick[s]}) = Cardinality(s) - 1
          BY <1>0, <4>1, FS_RemoveElement
        <4>3. PICK t \in SUBSET D : t = s \ {pick[s]}
          OBVIOUS
        <4>4. Cardinality(t) <= n
          BY <1>0, <2>4, <4>2, <4>3
        <4>5. g[t] = h[t] /\ h[t] \in V
          BY <2>1, <2>3, <4>4
        <4>6. g[s] = step[<<pick[s], h[t]>>]
          BY <2>2, <3>2, <4>3
        <4>7. g[s] \in V
          <5>1. <<pick[s], h[t]>> \in D \X V
            BY <4>1, <4>5
          <5> QED BY <1>f, <4>6, <5>1
        <4> QED BY <3>2, <4>3, <4>5, <4>6, <4>7
      <3> QED BY <3>1, <3>2
    <2> HIDE DEF eq
    <2> QED BY <2>4
  <1>3. Nat \subseteq Good
    <2> HIDE DEF Good
    <2> QED BY <1>1, <1>2, SetInduction
  <1>4. PICK h : \A s \in SUBSET D : eq(h, s) /\ h[s] \in V
    <2>1. Cardinality(D) \in Good
      <3> HIDE DEF Good
      <3> QED BY <1>0, <1>3
    <2>2. PICK h : \A s \in SUBSET D : Cardinality(s) <= Cardinality(D) => eq(h, s) /\ h[s] \in V
      BY <2>1
    <2>3. \A s \in SUBSET D : Cardinality(s) <= Cardinality(D)
      BY <1>f, FS_Subset
    <2> HIDE DEF eq
    <2> QED BY <2>2, <2>3
  <1>5. PICK g : g = [s \in SUBSET D |-> h[s]]
    OBVIOUS
  <1>6. ASSUME NEW s \in SUBSET D PROVE g[s] = IF s = {} THEN base ELSE step[<<pick[s], g[s \ {pick[s]}]>>]
    <2>1. s \ {pick[s]} \in SUBSET D
      OBVIOUS
    <2> QED BY <1>4, <1>5, <2>1
  <1>7. g = [s \in SUBSET D |-> IF s = {} THEN base ELSE step[<<pick[s], g[s \ {pick[s]}]>>]]
    BY <1>5, <1>6
  <1>8. FoldsTo(g, D, base, pick, step)
    BY <1>7 DEF FoldsTo
  <1>9. \A s \in SUBSET D : g[s] \in V
    <2> HIDE DEF eq
    <2>1. \A s \in SUBSET D : h[s] \in V
      BY <1>4
    <2> QED BY <1>5, <2>1
  <1> QED BY <1>8, <1>9

\* A set of places has a last one.
LEMMA LastPlace ==
  ASSUME NEW n \in Nat
  PROVE  /\ \A s \in SUBSET (1 .. n) : s # {} => Max(s) \in s
         /\ n > 0 => Max(1 .. n) = n
  <1> DEFINE Good == {m \in Nat : \A s \in SUBSET (1 .. m) : s # {} => \E x \in s : \A y \in s : x >= y}
  <1>1. 0 \in Good
    <2>1. 1 .. 0 = {}
      OBVIOUS
    <2> QED BY <2>1
  <1>2. ASSUME NEW m \in Nat, m \in Good PROVE m + 1 \in Good
    <2> SUFFICES ASSUME NEW s \in SUBSET (1 .. m + 1), s # {} PROVE \E x \in s : \A y \in s : x >= y
      OBVIOUS
    <2>1. CASE m + 1 \in s
      BY <2>1
    <2>2. CASE m + 1 \notin s
      <3>1. s \in SUBSET (1 .. m)
        BY <2>2
      <3> QED BY <1>2, <3>1
    <2> QED BY <2>1, <2>2
  <1>3. Nat \subseteq Good
    <2> HIDE DEF Good
    <2> QED BY <1>1, <1>2, SetInduction
  <1>4. \A s \in SUBSET (1 .. n) : s # {} => Max(s) \in s
    BY <1>3 DEF Max
  <1>5. ASSUME n > 0 PROVE Max(1 .. n) = n
    <2>1. n \in 1 .. n /\ \A y \in 1 .. n : n >= y
      BY <1>5
    <2>2. Max(1 .. n) \in 1 .. n /\ \A y \in 1 .. n : Max(1 .. n) >= y
      BY <2>1 DEF Max
    <2> QED BY <2>1, <2>2
  <1> QED BY <1>4, <1>5

-----------------------------------------------------------------------------
(* A division bit by bit.                                                  *)

\* A quotient by what is no less than the multiplier is no more than the multiplicand.
LEMMA QuotientIsBounded ==
  ASSUME NEW m \in Nat, NEW d \in Nat \ {0}, NEW b \in Nat, b <= d,
         NEW Q \in Nat, NEW R \in Nat, Q * d + R = m * b
  PROVE  Q <= m
  <1>1. m * b <= m * d
    OBVIOUS
  <1>2. Q * d <= m * d
    BY <1>1
  <1>3. ASSUME Q > m PROVE FALSE
    <2>1. Q * d >= (m + 1) * d
      BY <1>3
    <2>2. (m + 1) * d = m * d + d
      OBVIOUS
    <2> QED BY <1>2, <2>1, <2>2
  <1> QED BY <1>3

\* Words of Width bits.
LEMMA Words ==
  /\ MaxRaw \in Nat /\ MaxRaw >= 1 /\ MaxWord \in Nat /\ MaxWord = MaxRaw + MaxRaw + 1
  /\ MaxWord \div 2 = MaxRaw
  <1>1. Width - 1 \in Nat /\ Width - 2 \in Nat /\ Width = (Width - 1) + 1 /\ Width - 1 = (Width - 2) + 1
    BY AllocationAssumption
  <1>2. PICK p \in Nat \ {0} : p = 2 ^ (Width - 2) /\ 2 ^ (Width - 1) = p + p
    BY <1>1, PowerIsPositive, PowerDoubles
  <1>3. 2 ^ Width = 2 ^ (Width - 1) + 2 ^ (Width - 1)
    BY <1>1, PowerDoubles
  <1> QED BY <1>2, <1>3 DEF MaxRaw, MaxWord

\* The rounds of MultiplyDivide.
Doubled(d, x) ==
  LET carry == IF x.remainder >= d - x.remainder THEN 1 ELSE 0
  IN  [ok |-> x.ok /\ x.quotient <= MaxWord \div 2, quotient |-> 2 * x.quotient, carry |-> carry,
       remainder |-> 2 * x.remainder - carry * d]
Added(m, d, x) ==
  LET carry == IF m % d # 0 /\ x.remainder >= d - (m % d) THEN 1 ELSE 0
  IN  [ok |-> x.ok /\ x.quotient <= MaxWord - (m \div d), quotient |-> x.quotient + (m \div d),
       carry |-> x.carry + carry, remainder |-> x.remainder + (m % d) - carry * d]
Carried(x) == [ok |-> x.ok /\ x.quotient <= MaxWord - x.carry, quotient |-> x.quotient + x.carry,
               remainder |-> x.remainder]
Round(m, n, d, i, x) ==
  IF ~x.ok THEN Overflowed
  ELSE Carried(IF Bit(n, i) = 1 THEN Added(m, d, Doubled(d, x)) ELSE Doubled(d, x))
Start == [ok |-> TRUE, quotient |-> 0, remainder |-> 0]
Rounds == [i \in 1 .. Width |-> i]

\* What h says of the bits that a set of rounds has done.
Rounded(h, m, n, d) ==
  h = [s \in SUBSET (DOMAIN Rounds) |->
         IF s = {} THEN Start ELSE Round(m, n, d, Width - Rounds[Max(s)], h[s \ {Max(s)}])]

LEMMA MultiplyDivideIs ==
  ASSUME NEW m, NEW n, NEW d
  PROVE  MultiplyDivide(m, n, d) =
           IF d = 0 \/ n > d THEN Overflowed
           ELSE (CHOOSE h : Rounded(h, m, n, d))[DOMAIN Rounds]
  BY Zenon DEF MultiplyDivide, Rounded, Round, Carried, Added, Doubled, Start, Rounds, FoldLeft,
              MapThenFoldSet

Counts == [ok : BOOLEAN, quotient : Int, remainder : Int]

LEMMA RoundCounts ==
  ASSUME NEW m \in Nat, NEW n \in Nat, NEW d \in Nat \ {0}, NEW i \in Nat, NEW x \in Counts
  PROVE  Round(m, n, d, i, x) \in Counts
  <1>1. m % d \in Int /\ m \div d \in Int
    OBVIOUS
  <1>2. Doubled(d, x) \in [ok : BOOLEAN, quotient : Int, carry : {0, 1}, remainder : Int]
    BY Words DEF Doubled, Counts
  <1>3. Added(m, d, Doubled(d, x)) \in [ok : BOOLEAN, quotient : Int, carry : Int, remainder : Int]
    BY Words, <1>1, <1>2 DEF Added
  <1>4. ASSUME NEW y \in [ok : BOOLEAN, quotient : Int, carry : Int, remainder : Int]
        PROVE  Carried(y) \in Counts
    BY DEF Carried, Counts
  <1>5. Overflowed \in Counts
    BY DEF Overflowed, Counts
  <1> QED BY <1>2, <1>3, <1>4, <1>5 DEF Round

\* x is the product of m and b divided by d.
Divides(x, m, b, d) ==
  /\ x.ok = TRUE
  /\ x.quotient \in 0 .. m /\ x.remainder \in 0 .. d - 1
  /\ x.quotient * d + x.remainder = m * b

LEMMA QuotientAndRemainder ==
  ASSUME NEW a \in Nat, NEW d \in Nat \ {0}
  PROVE  a \div d \in Nat /\ a % d \in Nat /\ a % d < d /\ a = (a \div d) * d + (a % d)
  OBVIOUS

\* A round divides the product with one bit more, and does not overflow.
LEMMA RoundDivides ==
  ASSUME NEW m \in 0 .. MaxRaw, NEW n \in Nat, NEW d \in Nat \ {0}, n <= d, NEW i \in Nat,
         NEW x \in Counts, Divides(x, m, n \div 2 ^ (i + 1), d)
  PROVE  Divides(Round(m, n, d, i, x), m, n \div 2 ^ i, d)
  <1>0. m \in Nat /\ m <= MaxRaw /\ i + 1 \in Nat
    BY Words
  <1>1. PICK b \in Nat, e \in {0, 1} :
          /\ b = n \div 2 ^ (i + 1) /\ e = Bit(n, i) /\ n \div 2 ^ i = b + b + e /\ b + b + e <= d
    <2>1. n \div 2 ^ (i + 1) \in Nat 
      BY <1>0, BitsLeft
    <2>2. /\ n \div 2 ^ i \in Nat /\ n \div 2 ^ i <= n /\ Bit(n, i) \in {0, 1}
          /\ n \div 2 ^ i = (n \div 2 ^ (i + 1)) + (n \div 2 ^ (i + 1)) + Bit(n, i)
      BY BitsLeft
    <2> QED BY <2>1, <2>2
  <1>2. PICK Q \in Nat, R \in Nat :
          Q = x.quotient /\ R = x.remainder /\ R < d /\ Q * d + R = m * b /\ x.ok = TRUE
    <2>1. /\ x.ok = TRUE /\ x.quotient \in 0 .. m /\ x.remainder \in 0 .. d - 1
          /\ x.quotient * d + x.remainder = m * b
      BY <1>1 DEF Divides
    <2>2. x.quotient \in Nat /\ x.remainder \in Nat /\ x.remainder < d
      BY <1>0, <2>1
    <2> QED BY <2>1, <2>2
  <1>3. PICK q \in Nat, r \in Nat : q = m \div d /\ r = m % d /\ m = q * d + r /\ r < d
    BY <1>0, QuotientAndRemainder
  <1>4. PICK c : c = IF R >= d - R THEN 1 ELSE 0
    OBVIOUS
  <1>5. PICK k : k = IF r # 0 /\ R + R - c * d >= d - r THEN 1 ELSE 0
    OBVIOUS
  <1>6. c \in {0, 1} /\ k \in {0, 1}
    BY <1>4, <1>5
  <1>7. PICK S \in Nat, T \in Nat :
          /\ S = R + R - c * d /\ T = R + R - c * d + r - k * d
          /\ S < d /\ T < d
          /\ (Q + Q + c) * d + S = m * (b + b)
          /\ (Q + Q + q + (c + k)) * d + T = m * (b + b + 1)
    <2>1. /\ R + R - c * d \in Nat /\ R + R - c * d < d
          /\ (Q + Q + c) * d + (R + R - c * d) = m * (b + b)
          /\ R + R - c * d + r - k * d \in Nat /\ R + R - c * d + r - k * d < d
          /\ (Q + Q + q + (c + k)) * d + (R + R - c * d + r - k * d) = m * (b + b + 1)
      <3>2. c * d = (IF c = 1 THEN d ELSE 0) /\ k * d = (IF k = 1 THEN d ELSE 0)
        BY <1>6
      <3>3. R + R - c * d \in Nat /\ R + R - c * d < d
        BY <1>2, <1>4, <3>2
      <3>4. R + R - c * d + r - k * d \in Nat /\ R + R - c * d + r - k * d < d
        BY <1>3, <1>5, <3>2, <3>3
      <3>5. PICK u \in Int, y \in Int, z \in Int, w \in Int, v \in Int :
              u = Q * d /\ y = c * d /\ z = k * d /\ w = m * b /\ v = q * d
        BY <1>0, <1>6
      <3>6. (Q + Q + c) * d = u + u + y /\ (Q + Q + q + (c + k)) * d = u + u + v + y + z
        BY <1>6, <3>5
      <3>7. m * (b + b) = w + w /\ m * (b + b + 1) = w + w + m
        BY <1>0, <3>5
      <3>8. w = u + R /\ m = v + r
        BY <1>2, <1>3, <3>5
      <3>9. u + u + y + (R + R - y) = w + w /\ u + u + v + y + z + (R + R - y + r - z) = w + w + m
        BY <1>0, <3>8
      <3>10. (Q + Q + c) * d + (R + R - c * d) = m * (b + b)
        BY <3>5, <3>6, <3>7, <3>9
      <3>11. (Q + Q + q + (c + k)) * d + (R + R - c * d + r - k * d) = m * (b + b + 1)
        BY <3>5, <3>6, <3>7, <3>9
      <3> QED BY <3>3, <3>4, <3>10, <3>11
    <2> QED BY <2>1
  <1>8. Q <= MaxRaw => Doubled(d, x) = [ok |-> TRUE, quotient |-> Q + Q, carry |-> c, remainder |-> S]
    <2> SUFFICES ASSUME Q <= MaxRaw
                 PROVE  Doubled(d, x) = [ok |-> TRUE, quotient |-> Q + Q, carry |-> c, remainder |-> S]
      OBVIOUS
    <2>1. 2 * x.quotient = Q + Q /\ 2 * x.remainder - c * d = S
      <3>1. 2 * Q = Q + Q /\ 2 * R - c * d = S
        BY <1>6, <1>7
      <3> QED BY Zenon, <1>2, <3>1
    <2>3. (x.ok /\ x.quotient <= MaxWord \div 2) = TRUE
      <3>1. Q <= MaxWord \div 2
        BY Words
      <3> QED BY Zenon, <1>2, <3>1
    <2>2. c = IF x.remainder >= d - x.remainder THEN 1 ELSE 0
      BY <1>2, <1>4
    <2> QED BY Zenon, <2>1, <2>2, <2>3 DEF Doubled
  <1>9. CASE e = 0
    <2>1. Q + Q + c <= m
      <3>1. b + b \in Nat /\ b + b <= d /\ Q + Q + c \in Nat
        BY <1>1, <1>6, <1>9
      <3> QED BY <1>0, <1>7, <3>1, QuotientIsBounded
    <2>2. Q <= MaxRaw /\ Q + Q <= MaxWord - c
      BY <1>0, <1>6, <2>1, Words
    <2>3. Round(m, n, d, i, x) = Carried(Doubled(d, x))
      <3>1. ~(Bit(n, i) = 1)
        BY <1>1, <1>9
      <3> QED BY Zenon, <1>2, <3>1 DEF Round
    <2>4. Carried(Doubled(d, x)) = [ok |-> TRUE, quotient |-> Q + Q + c, remainder |-> S]
      <3>1. (TRUE /\ Q + Q <= MaxWord - c) = TRUE
        BY <2>2
      <3>2. PICK y : y = [ok |-> TRUE, quotient |-> Q + Q, carry |-> c, remainder |-> S]
        OBVIOUS
      <3>3. y.ok = TRUE /\ y.quotient = Q + Q /\ y.carry = c /\ y.remainder = S /\ Doubled(d, x) = y
        BY <1>8, <2>2, <3>2
      <3> QED BY Zenon, <3>1, <3>3 DEF Carried
    <2>5. Q + Q + c \in 0 .. m /\ S \in 0 .. d - 1 /\ (Q + Q + c) * d + S = m * (n \div 2 ^ i)
      <3>1. n \div 2 ^ i = b + b
        BY <1>1, <1>9
      <3>2. Q + Q + c \in 0 .. m /\ S \in 0 .. d - 1
        BY <1>6, <1>7, <2>1
      <3> QED BY <1>7, <3>1, <3>2
    <2>6. PICK y : y = [ok |-> TRUE, quotient |-> Q + Q + c, remainder |-> S]
      OBVIOUS
    <2>7. y.ok = TRUE /\ y.quotient = Q + Q + c /\ y.remainder = S /\ Round(m, n, d, i, x) = y
      BY <2>3, <2>4, <2>6
    <2> QED BY Zenon, <2>5, <2>7 DEF Divides
  <1>10. CASE e = 1
    <2>1. Q + Q + q + (c + k) <= m
      <3>1. b + b + 1 \in Nat /\ b + b + 1 <= d /\ Q + Q + q + (c + k) \in Nat
        BY <1>1, <1>6, <1>10
      <3> QED BY <1>0, <1>7, <3>1, QuotientIsBounded
    <2>2. Q <= MaxRaw /\ Q + Q <= MaxWord - q /\ Q + Q + q <= MaxWord - (c + k)
      BY <1>0, <1>6, <2>1, Words
    <2>3. Round(m, n, d, i, x) = Carried(Added(m, d, Doubled(d, x)))
      <3>1. Bit(n, i) = 1
        BY <1>1, <1>10
      <3> QED BY Zenon, <1>2, <3>1 DEF Round
    <2>4. Added(m, d, Doubled(d, x)) = [ok |-> TRUE, quotient |-> Q + Q + q, carry |-> c + k, remainder |-> T]
      <3>1. (TRUE /\ Q + Q <= MaxWord - q) = TRUE /\ S + r - k * d = T
        BY <1>7, <2>2
      <3>2. PICK y : y = [ok |-> TRUE, quotient |-> Q + Q, carry |-> c, remainder |-> S]
        OBVIOUS
      <3>3. y.ok = TRUE /\ y.quotient = Q + Q /\ y.carry = c /\ y.remainder = S /\ Doubled(d, x) = y
        BY <1>8, <2>2, <3>2
      <3>4. k = IF r # 0 /\ S >= d - r THEN 1 ELSE 0
        BY <1>5, <1>7
      <3> QED BY Zenon, <1>3, <3>1, <3>3, <3>4 DEF Added
    <2>5. Carried(Added(m, d, Doubled(d, x))) =
            [ok |-> TRUE, quotient |-> Q + Q + q + (c + k), remainder |-> T]
      <3>1. (TRUE /\ Q + Q + q <= MaxWord - (c + k)) = TRUE
        BY <2>2
      <3>2. PICK y : y = [ok |-> TRUE, quotient |-> Q + Q + q, carry |-> c + k, remainder |-> T]
        OBVIOUS
      <3>3. /\ y.ok = TRUE /\ y.quotient = Q + Q + q /\ y.carry = c + k /\ y.remainder = T
            /\ Added(m, d, Doubled(d, x)) = y
        BY <2>4, <3>2
      <3> QED BY Zenon, <3>1, <3>3 DEF Carried
    <2>6. /\ Q + Q + q + (c + k) \in 0 .. m /\ T \in 0 .. d - 1
          /\ (Q + Q + q + (c + k)) * d + T = m * (n \div 2 ^ i)
      <3>1. n \div 2 ^ i = b + b + 1
        BY <1>1, <1>10
      <3>2. Q + Q + q + (c + k) \in 0 .. m /\ T \in 0 .. d - 1
        BY <1>6, <1>7, <2>1
      <3> QED BY <1>7, <3>1, <3>2
    <2>7. PICK y : y = [ok |-> TRUE, quotient |-> Q + Q + q + (c + k), remainder |-> T]
      OBVIOUS
    <2>8. /\ y.ok = TRUE /\ y.quotient = Q + Q + q + (c + k) /\ y.remainder = T
          /\ Round(m, n, d, i, x) = y
      BY <2>3, <2>5, <2>7
    <2> QED BY Zenon, <2>6, <2>8 DEF Divides
  <1> QED BY <1>9, <1>10

\* FoldLeft goes through the rounds in their order.
LEMMA RoundedExists ==
  ASSUME NEW m \in Nat, NEW n \in Nat, NEW d \in Nat \ {0}
  PROVE  \E h : Rounded(h, m, n, d) /\ \A s \in SUBSET (1 .. Width) : h[s] \in Counts
  <1> DEFINE D == 1 .. Width
             pick == [s \in SUBSET D |-> Max(s)]
             step == [p \in D \X Counts |-> Round(m, n, d, Width - p[1], p[2])]
  <1>1. Width \in Nat /\ IsFiniteSet(D)
    BY AllocationAssumption, FS_Interval
  <1>2. Start \in Counts
    BY DEF Start, Counts
  <1>3. step \in [D \X Counts -> Counts]
    <2>1. ASSUME NEW p \in D \X Counts PROVE Round(m, n, d, Width - p[1], p[2]) \in Counts
      <3>1. Width - p[1] \in Nat /\ p[2] \in Counts
        BY <1>1
      <3> QED BY <3>1, RoundCounts
    <2> HIDE DEF D
    <2> QED BY <2>1
  <1>4. \A s \in SUBSET D : s # {} => pick[s] \in s
    BY <1>1, LastPlace
  <1>5. PICK h : FoldsTo(h, D, Start, pick, step) /\ \A s \in SUBSET D : h[s] \in Counts
    <2> HIDE DEF D, pick, step
    <2>1. Folding(D, Counts, Start, pick, step)
      BY <1>1, <1>2, <1>3, <1>4 DEF Folding
    <2> QED BY <2>1, FoldExists
  <1>6. ASSUME NEW s \in SUBSET D
        PROVE  h[s] = IF s = {} THEN Start ELSE Round(m, n, d, Width - Rounds[Max(s)], h[s \ {Max(s)}])
    <2>1. h[s] = IF s = {} THEN Start ELSE step[<<pick[s], h[s \ {pick[s]}]>>]
      <3> HIDE DEF D, pick, step
      <3> QED BY <1>5 DEF FoldsTo
    <2>2. CASE s # {}
      <3>1. PICK i \in D, t \in SUBSET D : i = Max(s) /\ i = pick[s] /\ t = s \ {i} /\ Rounds[i] = i
        <4>1. pick[s] \in s /\ pick[s] = Max(s)
          BY <1>4, <2>2
        <4>2. PICK i \in D : i = pick[s]
          BY <4>1
        <4>3. Rounds[i] = i
          BY DEF Rounds
        <4> QED BY <4>1, <4>2, <4>3
      <3>2. <<i, h[t]>> \in D \X Counts
        BY <1>5
      <3>3. step[<<i, h[t]>>] = Round(m, n, d, Width - i, h[t])
        BY <3>2
      <3> HIDE DEF step, pick, D
      <3> QED BY <2>1, <2>2, <3>1, <3>3
    <2>3. CASE s = {}
      <3> HIDE DEF step, pick, D
      <3> QED BY <2>1, <2>3
    <2> QED BY <2>2, <2>3
  <1>7. DOMAIN Rounds = D
    BY DEF Rounds
  <1>8. h = [s \in SUBSET D |-> h[s]]
    BY <1>5 DEF FoldsTo
  <1>9. Rounded(h, m, n, d)
    <2> HIDE DEF D
    <2> QED BY <1>6, <1>7, <1>8 DEF Rounded
  <1> QED BY <1>5, <1>9

\* MultiplyDivide is what it says, and never overflows.
LEMMA MultiplyDivideDivides ==
  ASSUME NEW m \in 0 .. MaxRaw, NEW n \in 0 .. MaxRaw, NEW d \in Nat \ {0}, n <= d
  PROVE  Divides(MultiplyDivide(m, n, d), m, n, d)
  <1>0. m \in Nat /\ n \in Nat /\ Width \in Nat /\ MaxRaw \in Nat
    BY Words, AllocationAssumption
  <1>1. PICK h : h = CHOOSE g : Rounded(g, m, n, d)
    OBVIOUS
  <1>2. Rounded(h, m, n, d)
    BY <1>0, <1>1, RoundedExists
  <1>3. DOMAIN Rounds = 1 .. Width
    BY DEF Rounds
  <1>4. MultiplyDivide(m, n, d) = h[1 .. Width]
    BY <1>0, <1>1, <1>3, MultiplyDivideIs
  <1>5. \A s \in SUBSET (1 .. Width) :
          h[s] = IF s = {} THEN Start ELSE Round(m, n, d, Width - Rounds[Max(s)], h[s \ {Max(s)}])
    BY <1>2, <1>3 DEF Rounded
  <1> DEFINE Good == {k \in Nat : k <= Width => /\ h[1 .. k] \in Counts
                                                /\ Divides(h[1 .. k], m, n \div 2 ^ (Width - k), d)}
  <1>6. 0 \in Good
    <2>1. 1 .. 0 = {} /\ Width - 0 = Width
      BY <1>0
    <2>2. h[1 .. 0] = Start
      BY <1>5, <2>1
    <2>3. n \div 2 ^ Width = 0
      <3>1. n < 2 ^ Width /\ 2 ^ Width \in Nat \ {0}
        BY <1>0, Words, PowerIsPositive DEF MaxWord
      <3> QED BY <1>0, <3>1
    <2>4. Start \in Counts /\ Divides(Start, m, 0, d)
      <3>1. m * 0 = 0 /\ 0 * d = 0 /\ 0 \in 0 .. m /\ 0 \in 0 .. d - 1
        BY <1>0
      <3> QED BY <3>1 DEF Start, Counts, Divides
    <2> QED BY <2>1, <2>2, <2>3, <2>4
  <1>7. ASSUME NEW k \in Nat, k \in Good PROVE k + 1 \in Good
    <2> SUFFICES ASSUME k + 1 <= Width
                 PROVE  /\ h[1 .. k + 1] \in Counts
                        /\ Divides(h[1 .. k + 1], m, n \div 2 ^ (Width - (k + 1)), d)
      OBVIOUS
    <2>1. PICK i \in Nat : i = Width - (k + 1) /\ Width - k = i + 1
      BY <1>0
    <2>2. h[1 .. k] \in Counts /\ Divides(h[1 .. k], m, n \div 2 ^ (i + 1), d)
      BY <1>0, <1>7, <2>1
    <2>3. /\ 1 .. k + 1 \in SUBSET (1 .. Width) /\ 1 .. k + 1 # {} /\ Max(1 .. k + 1) = k + 1
          /\ (1 .. k + 1) \ {k + 1} = 1 .. k /\ Rounds[k + 1] = k + 1
      <3>1. k + 1 \in Nat /\ k + 1 > 0 /\ k + 1 \in 1 .. k + 1 /\ k + 1 \in 1 .. Width
        BY <1>0
      <3>2. Max(1 .. k + 1) = k + 1
        BY <3>1, LastPlace
      <3> QED BY <1>0, <3>1, <3>2 DEF Rounds
    <2>4. h[1 .. k + 1] = Round(m, n, d, i, h[1 .. k])
      BY <1>5, <2>1, <2>3
    <2>5. PICK x \in Counts : x = h[1 .. k] /\ Divides(x, m, n \div 2 ^ (i + 1), d)
      BY <2>2
    <2>6. Divides(Round(m, n, d, i, x), m, n \div 2 ^ i, d)
      BY <1>0, <2>5, RoundDivides
    <2>7. Round(m, n, d, i, x) \in Counts
      <3>1. m \in Nat
        BY <1>0, Words
      <3> QED BY <1>0, <3>1, RoundCounts
    <2> QED BY <2>1, <2>4, <2>5, <2>6, <2>7
  <1>8. Nat \subseteq Good
    <2> HIDE DEF Good
    <2> QED BY <1>6, <1>7, SetInduction
  <1>9. Divides(h[1 .. Width], m, n \div 2 ^ (Width - Width), d)
    <2>1. Width \in Good /\ Width <= Width
      <3> HIDE DEF Good
      <3> QED BY <1>0, <1>8
    <2> QED BY <2>1
  <1>10. n \div 2 ^ (Width - Width) = n
    <2>1. Width - Width = 0
      BY <1>0
    <2>2. n \div 1 = n
      BY <1>0
    <2> QED BY <2>1, <2>2, PowerOfZero
  <1> QED BY <1>4, <1>9, <1>10

\* Share is its savings' share, whichever way it is divided.
LEMMA ShareDivides ==
  ASSUME NEW t \in 1 .. MaxRaw, NEW s \in 1 .. MaxRaw, NEW a \in 1 .. MaxRaw, s <= a
  PROVE  Divides(Share(t, s, a), t, s, a)
  <1>0. /\ t \in Nat /\ s \in Nat \ {0} /\ a \in Nat \ {0} /\ t <= MaxRaw /\ MaxRaw \in Nat
        /\ t \in 0 .. MaxRaw /\ s \in 0 .. MaxRaw
    BY Words
  <1>1. CASE t <= MaxRaw \div s
    <2>1. PICK p \in Nat : p = t * s
      BY <1>0
    <2>2. PICK q \in Nat, r \in Nat : q = p \div a /\ r = p % a /\ r < a /\ p = q * a + r
      BY <1>0, QuotientAndRemainder
    <2>3. q <= t
      BY <1>0, <2>1, <2>2, QuotientIsBounded
    <2>4. PICK y : y = [ok |-> TRUE, quotient |-> q, remainder |-> r]
      OBVIOUS
    <2>5. Share(t, s, a) = y
      BY <1>1, <2>1, <2>2, <2>4 DEF Share
    <2>6. y.ok = TRUE /\ y.quotient = q /\ y.remainder = r
      BY <2>4
    <2>7. q \in 0 .. t /\ r \in 0 .. a - 1 /\ q * a + r = t * s
      BY <1>0, <2>1, <2>2, <2>3
    <2> QED BY <2>5, <2>6, <2>7 DEF Divides
  <1>2. CASE ~(t <= MaxRaw \div s)
    <2>1. Divides(MultiplyDivide(t, s, a), t, s, a)
      BY <1>0, MultiplyDivideDivides
    <2>2. ~(MultiplyDivide(t, s, a).quotient > MaxRaw)
      <3>1. MultiplyDivide(t, s, a).quotient \in 0 .. t
        BY <2>1 DEF Divides
      <3> QED BY <1>0, <3>1
    <2>3. Share(t, s, a) = MultiplyDivide(t, s, a)
      BY <1>2, <2>2 DEF Share
    <2> QED BY <2>1, <2>3
  <1> QED BY <1>1, <1>2

-----------------------------------------------------------------------------
(* What FoldSeq adds.                                                      *)

Sum(f) == FoldSeq(+, 0, f)

LEMMA FoldSeqAdds ==
  ASSUME NEW D, IsFiniteSet(D), NEW f \in [D -> Int]
  PROVE  \E h : Sums(h, f, D) /\ Sum(f) = h[D]
  <1>1. \E h : AddsUp(h, f, D)
    BY SumsExist
  <1>2. PICK h : h = CHOOSE g : g = [s \in SUBSET D |-> IF s = {} THEN 0 ELSE f[One(s)] + g[s \ {One(s)}]]
    OBVIOUS
  <1>3. AddsUp(h, f, D)
    BY <1>1, <1>2 DEF AddsUp
  <1>4. Sum(f) = h[D]
    <2>1. DOMAIN f = D
      OBVIOUS
    <2> QED BY <1>2, <2>1 DEF Sum, FoldSeq, FoldFunction, FoldFunctionOnSet, MapThenFoldSet, One
  <1>5. Sums(h, f, D)
    BY <1>3, SumRules
  <1> QED BY <1>4, <1>5

\* Sums are linear, natural when what they add is, and count.
LEMMA SumIsInt == ASSUME NEW D, IsFiniteSet(D), NEW f \in [D -> Int] PROVE Sum(f) \in Int
  <1>1. PICK h : Sums(h, f, D) /\ Sum(f) = h[D]
    BY FoldSeqAdds
  <1>2. D \in SUBSET D
    OBVIOUS
  <1> QED BY <1>1, <1>2 DEF Sums

Combines(D, e, a, f, b, g) ==
  /\ IsFiniteSet(D) /\ a \in Int /\ b \in Int
  /\ e \in [D -> Int] /\ f \in [D -> Int] /\ g \in [D -> Int]
  /\ \A x \in D : e[x] = a * f[x] + b * g[x]

LEMMA SumCombines ==
  ASSUME NEW D, NEW e, NEW a, NEW f, NEW b, NEW g, Combines(D, e, a, f, b, g)
  PROVE  Sum(e) = a * Sum(f) + b * Sum(g)
  <1>0. /\ IsFiniteSet(D) /\ a \in Int /\ b \in Int
        /\ e \in [D -> Int] /\ f \in [D -> Int] /\ g \in [D -> Int]
        /\ \A x \in D : e[x] = a * f[x] + b * g[x]
    BY DEF Combines
  <1>1. PICK h : Sums(h, f, D) /\ Sum(f) = h[D]
    BY <1>0, FoldSeqAdds
  <1>2. PICK k : Sums(k, g, D) /\ Sum(g) = k[D]
    BY <1>0, FoldSeqAdds
  <1>3. PICK l : Sums(l, e, D) /\ Sum(e) = l[D]
    BY <1>0, FoldSeqAdds
  <1> DEFINE P == {s \in SUBSET D : l[s] = a * h[s] + b * k[s]}
  <1>4. {} \in P
    <2>1. h[{}] = 0 /\ k[{}] = 0 /\ l[{}] = 0 /\ a * 0 = 0 /\ b * 0 = 0
      BY <1>0, <1>1, <1>2, <1>3 DEF Sums
    <2> QED BY <2>1
  <1>5. ASSUME NEW s \in SUBSET D, s # {}, \A x \in s : s \ {x} \in P PROVE s \in P
    <2>1. PICK x \in s : TRUE
      BY <1>5
    <2>2. PICK t \in SUBSET D : t = s \ {x}
      OBVIOUS
    <2>3. h[s] = f[x] + h[t] /\ h[t] \in Int
      BY <1>1, <2>2 DEF Sums
    <2>4. k[s] = g[x] + k[t] /\ k[t] \in Int
      BY <1>2, <2>2 DEF Sums
    <2>5. l[s] = e[x] + l[t]
      BY <1>3, <2>2 DEF Sums
    <2>6. l[t] = a * h[t] + b * k[t]
      BY <1>5, <2>2
    <2>7. e[x] = a * f[x] + b * g[x] /\ f[x] \in Int /\ g[x] \in Int
      BY <1>0
    <2>8. PICK y1 \in Int, y2 \in Int, y3 \in Int, y4 \in Int :
            y1 = f[x] /\ y2 = h[t] /\ y3 = g[x] /\ y4 = k[t]
      BY <2>3, <2>4, <2>7
    <2>9. a * (y1 + y2) = a * y1 + a * y2 /\ b * (y3 + y4) = b * y3 + b * y4
      BY <1>0
    <2>10. PICK z1 \in Int, z2 \in Int, z3 \in Int, z4 \in Int :
             z1 = a * y1 /\ z2 = a * y2 /\ z3 = b * y3 /\ z4 = b * y4
      BY <1>0
    <2>11. l[s] = (z1 + z3) + (z2 + z4)
      BY <2>5, <2>6, <2>7, <2>8, <2>10
    <2>12. a * h[s] = z1 + z2 /\ b * k[s] = z3 + z4
      BY <2>3, <2>4, <2>8, <2>9, <2>10
    <2>13. l[s] = a * h[s] + b * k[s]
      BY <2>11, <2>12
    <2> QED BY <2>13
  <1>6. D \in P
    <2>1. SUBSET D \subseteq P
      <3> HIDE DEF P
      <3> QED BY <1>0, <1>4, <1>5, SubsetInduction
    <2> HIDE DEF P
    <2> QED BY <2>1
  <1> QED BY <1>1, <1>2, <1>3, <1>6

LEMMA SumIsNat ==
  ASSUME NEW D, IsFiniteSet(D), NEW f \in [D -> Nat]
  PROVE  Sum(f) \in Nat /\ \A x \in D : f[x] <= Sum(f)
  <1>0. f \in [D -> Int]
    OBVIOUS
  <1>1. PICK h : Sums(h, f, D) /\ Sum(f) = h[D]
    BY <1>0, FoldSeqAdds
  <1> DEFINE P == {s \in SUBSET D : h[s] \in Nat}
  <1>2. {} \in P
    BY <1>1 DEF Sums
  <1>3. ASSUME NEW s \in SUBSET D, s # {}, \A x \in s : s \ {x} \in P PROVE s \in P
    <2>1. PICK x \in s : TRUE
      BY <1>3
    <2>2. h[s] = f[x] + h[s \ {x}]
      BY <1>1 DEF Sums
    <2>3. h[s \ {x}] \in Nat /\ f[x] \in Nat
      BY <1>3
    <2> QED BY <2>2, <2>3
  <1>4. \A s \in SUBSET D : h[s] \in Nat
    <2>1. SUBSET D \subseteq P
      <3> HIDE DEF P
      <3> QED BY <1>2, <1>3, SubsetInduction
    <2> QED BY <2>1
  <1>5. ASSUME NEW x \in D PROVE f[x] <= Sum(f)
    <2>1. h[D] = f[x] + h[D \ {x}]
      BY <1>1 DEF Sums
    <2>2. h[D \ {x}] \in Nat
      BY <1>4
    <2> QED BY <1>1, <2>1, <2>2
  <1> QED BY <1>1, <1>4, <1>5

LEMMA SumCounts ==
  ASSUME NEW D, IsFiniteSet(D), NEW T \in SUBSET D, NEW f, f = [x \in D |-> IF x \in T THEN 1 ELSE 0]
  PROVE  f \in [D -> Int] /\ Sum(f) = Cardinality(T)
  <1>0. f \in [D -> Int]
    OBVIOUS
  <1>1. PICK h : Sums(h, f, D) /\ Sum(f) = h[D]
    BY <1>0, FoldSeqAdds
  <1> DEFINE P == {s \in SUBSET D : h[s] = Cardinality(s \cap T)}
  <1>2. {} \in P
    <2>1. h[{}] = 0 /\ {} \cap T = {}
      BY <1>1 DEF Sums
    <2> QED BY <2>1, FS_EmptySet
  <1>3. ASSUME NEW s \in SUBSET D, s # {}, \A x \in s : s \ {x} \in P PROVE s \in P
    <2>1. PICK x \in s : TRUE
      BY <1>3
    <2>2. h[s] = f[x] + h[s \ {x}]
      BY <1>1 DEF Sums
    <2>3. h[s \ {x}] = Cardinality((s \cap T) \ {x})
      <3>1. (s \ {x}) \cap T = (s \cap T) \ {x}
        OBVIOUS
      <3> QED BY <1>3, <3>1
    <2>4. IsFiniteSet(s \cap T) /\ Cardinality(s \cap T) \in Nat
      BY FS_Subset, FS_CardinalityType
    <2>5. Cardinality((s \cap T) \ {x}) =
            IF x \in s \cap T THEN Cardinality(s \cap T) - 1 ELSE Cardinality(s \cap T)
      BY <2>4, FS_RemoveElement
    <2>6. f[x] = IF x \in T THEN 1 ELSE 0
      OBVIOUS
    <2>7. h[s] = Cardinality(s \cap T)
      <3> QED BY <2>2, <2>3, <2>4, <2>5, <2>6
    <2> QED BY <2>7
  <1>4. D \in P
    <2>1. SUBSET D \subseteq P
      <3> HIDE DEF P
      <3> QED BY <1>2, <1>3, SubsetInduction
    <2> HIDE DEF P
    <2> QED BY <2>1
  <1>5. D \cap T = T
    OBVIOUS
  <1> QED BY <1>0, <1>1, <1>4, <1>5

-----------------------------------------------------------------------------
(* Who gets a unit more.                                                   *)

LargerRest(R, j, i) == R[j] > R[i] \/ (R[j] = R[i] /\ j < i)
Rank(E, R, i) == Cardinality({j \in E : LargerRest(R, j, i)})

LEMMA RankIsNat ==
  ASSUME NEW E, IsFiniteSet(E), NEW R, NEW i \in E
  PROVE  Rank(E, R, i) \in Nat
  BY FS_Subset, FS_CardinalityType DEF Rank

LEMMA LargerRestRanks ==
  ASSUME NEW E \in SUBSET Nat, IsFiniteSet(E), NEW R, (\A k \in E : R[k] \in Nat),
         NEW i \in E, NEW j \in E, LargerRest(R, i, j)
  PROVE  Rank(E, R, i) < Rank(E, R, j)
  <1>1. PICK A \in SUBSET E, B \in SUBSET E : A = {k \in E : LargerRest(R, k, i)} /\ B = {k \in E : LargerRest(R, k, j)}
    OBVIOUS
  <1>2. \A k \in E : R[k] \in Nat /\ k \in Nat
    OBVIOUS
  <1>3. i \notin A
    BY <1>1, <1>2 DEF LargerRest
  <1>4. A \cup {i} \in SUBSET B
    <2>1. ASSUME NEW k \in A PROVE k \in B
      <3>1. LargerRest(R, k, i) /\ k \in E
        BY <1>1
      <3>2. LargerRest(R, k, j)
        BY <1>2, <3>1 DEF LargerRest
      <3> QED BY <1>1, <3>1, <3>2
    <2>2. i \in B
      BY <1>1
    <2> QED BY <2>1, <2>2
  <1>5. IsFiniteSet(A) /\ IsFiniteSet(B) /\ Cardinality(A) \in Nat /\ Cardinality(B) \in Nat
    BY FS_Subset, FS_CardinalityType
  <1>6. Cardinality(A \cup {i}) = Cardinality(A) + 1
    BY <1>3, <1>5, FS_AddElement
  <1>7. Cardinality(A \cup {i}) <= Cardinality(B)
    BY <1>4, <1>5, FS_Subset
  <1>8. Cardinality(A) < Cardinality(B)
    BY <1>5, <1>6, <1>7
  <1> QED BY <1>1, <1>8 DEF Rank

\* As many come before the rank u as u says.
LEMMA RanksCount ==
  ASSUME NEW E \in SUBSET Nat, IsFiniteSet(E), NEW R, (\A k \in E : R[k] \in Nat),
         NEW u \in 0 .. Cardinality(E)
  PROVE  Cardinality({i \in E : Rank(E, R, i) < u}) = u
  <1> DEFINE f == [i \in E |-> Rank(E, R, i)]
  <1>0. PICK n \in Nat : n = Cardinality(E)
    BY FS_CardinalityType
  <1>1. ASSUME NEW i \in E PROVE Rank(E, R, i) \in 0 .. n - 1
    <2>1. PICK A \in SUBSET E : A = {k \in E : LargerRest(R, k, i)}
      OBVIOUS
    <2>2. i \notin A
      <3>1. R[i] \in Nat /\ i \in Nat
        OBVIOUS
      <3> QED BY <2>1, <3>1 DEF LargerRest
    <2>3. IsFiniteSet(A) /\ Cardinality(A) \in Nat
      BY FS_Subset, FS_CardinalityType
    <2>4. Cardinality(A \cup {i}) = Cardinality(A) + 1
      BY <2>2, <2>3, FS_AddElement
    <2>5. Cardinality(A \cup {i}) <= n
      <3>1. A \cup {i} \in SUBSET E
        OBVIOUS
      <3> QED BY <1>0, <3>1, FS_Subset
    <2>6. Cardinality(A) \in 0 .. n - 1
      BY <2>3, <2>4, <2>5
    <2> QED BY <2>1, <2>6 DEF Rank
  <1>2. f \in [E -> 0 .. n - 1]
    BY <1>1
  <1>3. ASSUME NEW i \in E, NEW j \in E, f[i] = f[j] PROVE i = j
    <2>1. i # j => LargerRest(R, i, j) \/ LargerRest(R, j, i)
      <3>1. PICK a \in Nat, b \in Nat, k \in Nat, l \in Nat : a = R[i] /\ b = R[j] /\ k = i /\ l = j
        OBVIOUS
      <3>2. k # l => (a > b \/ (a = b /\ k < l)) \/ (b > a \/ (b = a /\ l < k))
        OBVIOUS
      <3> QED BY Zenon, <3>1, <3>2 DEF LargerRest
    <2>2. Rank(E, R, i) = Rank(E, R, j) /\ Rank(E, R, i) \in Nat /\ Rank(E, R, j) \in Nat
      BY <1>3, RankIsNat
    <2>3. LargerRest(R, i, j) => Rank(E, R, i) < Rank(E, R, j)
      BY LargerRestRanks
    <2>4. LargerRest(R, j, i) => Rank(E, R, j) < Rank(E, R, i)
      BY LargerRestRanks
    <2> QED BY <2>1, <2>2, <2>3, <2>4
  <1>4. \A i \in E : f[i] = Rank(E, R, i)
    OBVIOUS
  <1> HIDE DEF f
  <1>5. f \in Injection(E, 0 .. n - 1)
    BY <1>2, <1>3 DEF Injection, IsInjective
  <1>6. IsFiniteSet(0 .. n - 1) /\ Cardinality(0 .. n - 1) = n
    BY FS_Interval
  <1>7. f \in Surjection(E, 0 .. n - 1)
    BY <1>0, <1>5, <1>6, FS_Injection
  <1>8. PICK W \in SUBSET E : W = {i \in E : Rank(E, R, i) < u}
    OBVIOUS
  <1>9. PICK g : g = [i \in W |-> f[i]]
    OBVIOUS
  <1>10. g \in Bijection(W, 0 .. u - 1)
    <2>1. ASSUME NEW i \in W PROVE g[i] \in 0 .. u - 1
      BY <1>0, <1>2, <1>4, <1>8, <1>9
    <2>2. ASSUME NEW i \in W, NEW j \in W, g[i] = g[j] PROVE i = j
      BY <1>3, <1>9, <2>2
    <2>3. ASSUME NEW k \in 0 .. u - 1 PROVE \E i \in W : g[i] = k
      <3>1. k \in 0 .. n - 1 /\ k < u
        BY <1>0
      <3>2. PICK i \in E : f[i] = k
        BY <1>7, <3>1 DEF Surjection
      <3>3. i \in W
        BY <1>4, <1>8, <3>1, <3>2
      <3> QED BY <1>9, <3>2, <3>3
    <2>4. g \in [W -> 0 .. u - 1]
      BY <1>9, <2>1
    <2> QED BY <2>2, <2>3, <2>4 DEF Bijection, Injection, Surjection, IsInjective
  <1>11. IsFiniteSet(W)
    BY FS_Subset
  <1>12. Cardinality(0 .. u - 1) = Cardinality(W)
    <2>1. ExistsBijection(W, 0 .. u - 1)
      BY <1>10 DEF ExistsBijection
    <2> QED BY <1>11, <2>1, FS_Bijection
  <1>13. Cardinality(0 .. u - 1) = u
    BY <1>0, FS_Interval
  <1> QED BY <1>8, <1>12, <1>13

\* No unit goes to a share without a remainder while those with one are enough.
LEMMA RemainderIsLeft ==
  ASSUME NEW E \in SUBSET Nat, IsFiniteSet(E), NEW R, (\A k \in E : R[k] \in Nat), NEW u \in Nat,
         u <= Cardinality({i \in E : R[i] > 0}), NEW i \in E, Rank(E, R, i) < u
  PROVE  R[i] > 0
  <1> SUFFICES ASSUME R[i] = 0 PROVE FALSE
    OBVIOUS
  <1>1. PICK P \in SUBSET E, A \in SUBSET E : P = {k \in E : R[k] > 0} /\ A = {k \in E : LargerRest(R, k, i)}
    OBVIOUS
  <1>2. P \in SUBSET A
    <2>1. ASSUME NEW k \in P PROVE k \in A
      <3>1. k \in E /\ R[k] > R[i]
        BY <1>1
      <3> QED BY <1>1, <3>1 DEF LargerRest
    <2> QED BY <2>1
  <1>3. IsFiniteSet(A) /\ Cardinality(A) \in Nat /\ Cardinality(P) \in Nat
    BY FS_Subset, FS_CardinalityType
  <1>4. Cardinality(P) <= Cardinality(A)
    BY <1>2, <1>3, FS_Subset
  <1>5. Rank(E, R, i) = Cardinality(A)
    BY <1>1 DEF Rank
  <1> QED BY <1>1, <1>3, <1>4, <1>5

-----------------------------------------------------------------------------
(* The savings that AllocateInterest divides by, which it stops to add when *)
(* they do not fit any more.                                               *)

SavedUp(savings) == FoldSeq(LAMBDA s, sum : IF s > 0 /\ sum <= MaxRaw THEN sum + s ELSE sum, 0, savings)
Kept(savings) == [i \in DOMAIN savings |-> IF savings[i] > 0 THEN savings[i] ELSE 0]

LEMMA SavedUpIs ==
  ASSUME NEW D, IsFiniteSet(D), NEW sv \in [D -> Int]
  PROVE  /\ SavedUp(sv) \in Nat
         /\ SavedUp(sv) <= MaxRaw => SavedUp(sv) = Sum(Kept(sv))
         /\ SavedUp(sv) > MaxRaw => Sum(Kept(sv)) > MaxRaw
  <1> DEFINE eq(h) == h = [s \in SUBSET D |->
                             IF s = {} THEN 0
                             ELSE IF sv[One(s)] > 0 /\ h[s \ {One(s)}] <= MaxRaw
                                  THEN h[s \ {One(s)}] + sv[One(s)] ELSE h[s \ {One(s)}]]
             pick == [s \in SUBSET D |-> One(s)]
             step == [p \in D \X Nat |-> IF sv[p[1]] > 0 /\ p[2] <= MaxRaw THEN p[2] + sv[p[1]] ELSE p[2]]
  <1>1. \E h : eq(h)
    <2>1. \A s \in SUBSET D : s # {} => pick[s] \in s
      BY OneIsIn
    <2>2. step \in [D \X Nat -> Nat]
      <3>1. ASSUME NEW p \in D \X Nat
            PROVE  (IF sv[p[1]] > 0 /\ p[2] <= MaxRaw THEN p[2] + sv[p[1]] ELSE p[2]) \in Nat
        <4>1. p[2] \in Nat /\ sv[p[1]] \in Int
          OBVIOUS
        <4> QED BY <4>1
      <3> QED BY <3>1
    <2>3. PICK h : FoldsTo(h, D, 0, pick, step) /\ \A s \in SUBSET D : h[s] \in Nat
      <3>1. 0 \in Nat
        OBVIOUS
      <3> HIDE DEF pick, step
      <3>2. Folding(D, Nat, 0, pick, step)
        BY <2>1, <2>2, <3>1 DEF Folding
      <3> QED BY <3>2, FoldExists
    <2>4. ASSUME NEW s \in SUBSET D
          PROVE  h[s] = IF s = {} THEN 0
                        ELSE IF sv[One(s)] > 0 /\ h[s \ {One(s)}] <= MaxRaw
                             THEN h[s \ {One(s)}] + sv[One(s)] ELSE h[s \ {One(s)}]
      <3>1. h[s] = IF s = {} THEN 0 ELSE step[<<pick[s], h[s \ {pick[s]}]>>]
        <4> HIDE DEF pick, step
        <4> QED BY <2>3 DEF FoldsTo
      <3>2. CASE s # {}
        <4>1. PICK x \in D, t \in SUBSET D : x = One(s) /\ x = pick[s] /\ t = s \ {x}
          BY <3>2, OneIsIn
        <4>2. h[t] \in Nat
          BY <2>3
        <4>3. PICK v \in Nat : v = h[t]
          BY <4>2
        <4>4. step[<<x, v>>] = IF sv[x] > 0 /\ v <= MaxRaw THEN v + sv[x] ELSE v
          OBVIOUS
        <4> HIDE DEF pick, step
        <4> QED BY Zenon, <3>1, <3>2, <4>1, <4>3, <4>4
      <3>3. CASE s = {}
        BY <3>1, <3>3
      <3> QED BY <3>2, <3>3
    <2>5. h = [s \in SUBSET D |-> h[s]]
      BY <2>3 DEF FoldsTo
    <2>6. eq(h)
      BY <2>4, <2>5
    <2> QED BY <2>6
  <1>2. PICK h : h = CHOOSE g : eq(g)
    OBVIOUS
  <1>3. eq(h)
    BY <1>1, <1>2
  <1>4. SavedUp(sv) = h[D]
    <2>1. DOMAIN sv = D
      OBVIOUS
    <2> QED BY <1>2, <2>1 DEF SavedUp, FoldSeq, FoldFunction, FoldFunctionOnSet, MapThenFoldSet, One
  <1>5. PICK k \in [D -> Int] : k = Kept(sv) /\ \A x \in D : k[x] = IF sv[x] > 0 THEN sv[x] ELSE 0
    <2>1. Kept(sv) = [x \in D |-> IF sv[x] > 0 THEN sv[x] ELSE 0]
      BY DEF Kept
    <2> QED BY <2>1
  <1>6. PICK H : Sums(H, k, D) /\ Sum(k) = H[D]
    BY FoldSeqAdds
  <1> DEFINE P == {s \in SUBSET D : /\ h[s] \in Nat
                                    /\ h[s] <= MaxRaw => h[s] = H[s]
                                    /\ h[s] > MaxRaw => H[s] > MaxRaw}
  <1>7. {} \in P
    <2>1. h[{}] = 0 /\ H[{}] = 0
      BY <1>3, <1>6 DEF Sums
    <2> QED BY <2>1, Words
  <1>8. ASSUME NEW s \in SUBSET D, s # {}, \A x \in s : s \ {x} \in P PROVE s \in P
    <2>1. PICK x \in D, t \in SUBSET D : x = One(s) /\ x \in s /\ t = s \ {x}
      BY <1>8, OneIsIn
    <2>2. h[s] = IF sv[x] > 0 /\ h[t] <= MaxRaw THEN h[t] + sv[x] ELSE h[t]
      BY <1>3, <1>8, <2>1
    <2>3. H[s] = k[x] + H[t] /\ H[t] \in Int
      BY <1>6, <2>1 DEF Sums
    <2>4. /\ h[t] \in Nat
          /\ h[t] <= MaxRaw => h[t] = H[t]
          /\ h[t] > MaxRaw => H[t] > MaxRaw
      BY <1>8, <2>1
    <2>5. k[x] = (IF sv[x] > 0 THEN sv[x] ELSE 0) /\ sv[x] \in Int
      BY <1>5
    <2> HIDE DEF eq
    <2>6. h[s] \in Nat /\ (h[s] <= MaxRaw => h[s] = H[s]) /\ (h[s] > MaxRaw => H[s] > MaxRaw)
      BY <2>2, <2>3, <2>4, <2>5, Words
    <2> QED BY <2>6
  <1>9. D \in P
    <2> HIDE DEF P, eq
    <2>1. SUBSET D \subseteq P
      BY <1>7, <1>8, SubsetInduction
    <2> QED BY <2>1
  <1> QED BY <1>4, <1>5, <1>6, <1>9

-----------------------------------------------------------------------------
(* The division.                                                           *)

Eligible(savings) == {i \in DOMAIN savings : savings[i] > 0}
Shares(t, savings) == [i \in Eligible(savings) |-> Share(t, savings[i], SavedUp(savings))]
Quotients(t, savings) ==
  [i \in DOMAIN savings |-> IF i \in Eligible(savings) THEN Shares(t, savings)[i].quotient ELSE 0]
Units(t, savings) == t - Sum(Quotients(t, savings))
Before(t, savings, j, i) ==
  \/ Shares(t, savings)[j].remainder > Shares(t, savings)[i].remainder
  \/ Shares(t, savings)[j].remainder = Shares(t, savings)[i].remainder /\ j < i
Extra(t, savings, i) ==
  IF Cardinality({j \in Eligible(savings) : Before(t, savings, j, i)}) < Units(t, savings) THEN 1 ELSE 0
Paid(t, savings) ==
  [i \in DOMAIN savings |->
     IF i \in Eligible(savings) THEN Shares(t, savings)[i].quotient + Extra(t, savings, i) ELSE 0]

\* AllocateInterest in terms of its parts.
LEMMA AllocateIs ==
  ASSUME NEW transfer, NEW sv
  PROVE  AllocateInterest(transfer, sv) =
           CASE transfer <= 0 -> Refused("no_payment", sv)
             [] transfer > 0 /\ sv = <<>> -> Refused("no_eligible_savings", sv)
             [] transfer > MaxRaw \div PopMoneyScale /\ sv # <<>> -> Refused("overflow", sv)
             [] OTHER ->
                  IF SavedUp(sv) > MaxRaw THEN Refused("overflow", sv)
                  ELSE IF Eligible(sv) = {} THEN Refused("no_eligible_savings", sv)
                  ELSE IF \/ \E i \in Eligible(sv) : ~Shares(transfer * PopMoneyScale, sv)[i].ok
                          \/ Units(transfer * PopMoneyScale, sv) < 0
                          \/ Units(transfer * PopMoneyScale, sv) > Cardinality(Eligible(sv))
                       THEN Refused("overflow", sv)
                  ELSE [status |-> "success", payout |-> Paid(transfer * PopMoneyScale, sv)]
  BY Zenon DEF AllocateInterest, SavedUp, Eligible, Shares, Quotients, Units, Before, Extra, Paid, Sum

\* A total t divided by savings K of the places D, of which E have some: the
\* quotients, and what is left of each.
Divided(D, E, K, Q, R, t, a) ==
  /\ D \in SUBSET Nat /\ IsFiniteSet(D) /\ E = {i \in D : K[i] > 0}
  /\ K \in [D -> Nat] /\ Q \in [D -> Nat] /\ R \in [D -> Nat]
  /\ t \in Nat \ {0} /\ a \in Nat \ {0} /\ a = Sum(K)
  /\ \A i \in D : R[i] < a /\ Q[i] * a + R[i] = t * K[i]
Unit(E, R, u, i) == IF Rank(E, R, i) < u THEN 1 ELSE 0
Payments(D, E, Q, R, t) == [i \in D |-> IF i \in E THEN Q[i] + Unit(E, R, t - Sum(Q), i) ELSE 0]

\* Rounding leaves no more units than there are shares with something left.
LEMMA UnitsAreLeft ==
  ASSUME NEW D, NEW E, NEW K, NEW Q, NEW R, NEW t, NEW a, Divided(D, E, K, Q, R, t, a)
  PROVE  t - Sum(Q) \in 0 .. Cardinality({i \in E : R[i] > 0})
  <1>0. /\ D \in SUBSET Nat /\ IsFiniteSet(D) /\ E = {i \in D : K[i] > 0}
        /\ K \in [D -> Nat] /\ Q \in [D -> Nat] /\ R \in [D -> Nat]
        /\ t \in Nat \ {0} /\ a \in Nat \ {0} /\ a = Sum(K)
        /\ \A i \in D : R[i] < a /\ Q[i] * a + R[i] = t * K[i]
    BY DEF Divided
  <1>1. K \in [D -> Int] /\ Q \in [D -> Int] /\ R \in [D -> Int]
    BY <1>0
  <1>2. PICK q \in Nat, r \in Nat : q = Sum(Q) /\ r = Sum(R)
    BY <1>0, SumIsNat
  <1>3. t * a = a * q + r
    <2> DEFINE e == [i \in D |-> t * K[i]]
    <2>1. e \in [D -> Int]
      BY <1>0, <1>1
    <2>2. \A i \in D : e[i] = t * K[i] + 0 * K[i]
      BY <1>0, <1>1
    <2>3. \A i \in D : e[i] = a * Q[i] + 1 * R[i]
      <3>1. ASSUME NEW i \in D PROVE e[i] = a * Q[i] + 1 * R[i]
        <4>1. e[i] = Q[i] * a + R[i] /\ Q[i] \in Nat /\ R[i] \in Nat
          BY <1>0
        <4>2. PICK x \in Nat, y \in Nat : x = Q[i] /\ y = R[i]
          BY <4>1
        <4>3. x * a = a * x /\ 1 * y = y
          BY <1>0
        <4> HIDE DEF e
        <4> QED BY <4>1, <4>2, <4>3
      <3> QED BY <3>1
    <2> HIDE DEF e
    <2>4. Sum(e) = t * Sum(K) + 0 * Sum(K)
      <3>1. 0 \in Int /\ t \in Int
        BY <1>0
      <3>2. Combines(D, e, t, K, 0, K)
        BY <1>0, <1>1, <2>1, <2>2, <3>1 DEF Combines
      <3> QED BY <3>2, SumCombines
    <2>5. Sum(e) = a * Sum(Q) + 1 * Sum(R)
      <3>1. 1 \in Int /\ a \in Int
        BY <1>0
      <3>2. Combines(D, e, a, Q, 1, R)
        BY <1>0, <1>1, <2>1, <2>3, <3>1 DEF Combines
      <3> QED BY <3>2, SumCombines
    <2> QED BY <1>0, <1>2, <2>4, <2>5
  <1>4. PICK u \in Int : u = t - q
    BY <1>0, <1>2
  <1>5. u * a = r
    <2>1. (t - q) * a = t * a - a * q
      BY <1>0, <1>2
    <2> QED BY <1>0, <1>2, <1>3, <1>4, <2>1
  <1>6. u >= 0
    <2> SUFFICES ASSUME u <= -1 PROVE FALSE
      OBVIOUS
    <2>1. u * a <= (-1) * a
      BY <1>0
    <2> QED BY <1>0, <1>2, <1>5, <2>1
  <1>7. PICK P \in SUBSET D : P = {i \in E : R[i] > 0}
    BY <1>0
  <1>8. PICK n \in Nat : n = Cardinality(P)
    BY <1>0, FS_Subset, FS_CardinalityType
  <1>9. a * n - r \in Nat
    <2>0. PICK f : f = [i \in D |-> IF i \in P THEN 1 ELSE 0]
      OBVIOUS
    <2> DEFINE e == [i \in D |-> a * f[i] + (-1) * R[i]]
    <2>1. f \in [D -> Int] /\ Sum(f) = n
      BY <1>0, <1>8, <2>0, SumCounts
    <2>2. \A i \in D : e[i] = a * f[i] + (-1) * R[i]
      OBVIOUS
    <2>3. e \in [D -> Nat]
      <3>1. ASSUME NEW i \in D PROVE e[i] \in Nat
        <4>1. R[i] \in Nat /\ R[i] < a
          BY <1>0
        <4>2. CASE i \in P
          <5>1. e[i] = a * 1 + (-1) * R[i]
            BY <2>0, <4>2
          <5> HIDE DEF e
          <5> QED BY <1>0, <4>1, <5>1
        <4>3. CASE i \notin P
          <5>1. e[i] = a * 0 + (-1) * R[i]
            BY <2>0, <4>3
          <5>2. R[i] = 0
            <6>1. CASE i \in E
              BY <1>7, <4>1, <4>3, <6>1
            <6>2. CASE i \notin E
              <7>1. K[i] = 0
                BY <1>0, <6>2
              <7>2. Q[i] * a + R[i] = 0 /\ Q[i] * a \in Nat
                BY <1>0, <7>1
              <7> QED BY <4>1, <7>2
            <6> QED BY <6>1, <6>2
          <5> HIDE DEF e
          <5> QED BY <1>0, <5>1, <5>2
        <4> QED BY <4>2, <4>3
      <3> QED BY <3>1
    <2> HIDE DEF e
    <2>4. e \in [D -> Int] /\ a \in Int /\ -1 \in Int
      BY <1>0, <2>3
    <2>5. Sum(e) = a * Sum(f) + (-1) * Sum(R)
      <3>1. Combines(D, e, a, f, -1, R)
        BY <1>0, <1>1, <2>1, <2>2, <2>4 DEF Combines
      <3> QED BY <3>1, SumCombines
    <2>6. Sum(e) \in Nat
      BY <1>0, <2>3, SumIsNat
    <2> QED BY <1>0, <1>2, <2>1, <2>5, <2>6
  <1>10. u <= n
    <2> SUFFICES ASSUME u >= n + 1 PROVE FALSE
      OBVIOUS
    <2>1. u * a >= (n + 1) * a
      BY <1>0
    <2>2. (n + 1) * a = a * n + a
      BY <1>0
    <2> QED BY <1>0, <1>2, <1>5, <1>9, <2>1, <2>2
  <1>11. u \in 0 .. n
    BY <1>6, <1>10
  <1> QED BY <1>2, <1>4, <1>7, <1>8, <1>11

\* With the units that rounding left the payments are the whole total.
LEMMA DivisionIsExact ==
  ASSUME NEW D, NEW E, NEW K, NEW Q, NEW R, NEW t, NEW a, Divided(D, E, K, Q, R, t, a)
  PROVE  Sum(Payments(D, E, Q, R, t)) = t
  <1>u. PICK u : u = t - Sum(Q)
    OBVIOUS
  <1>p. PICK pay : pay = [k \in D |-> IF k \in E THEN Q[k] + Unit(E, R, u, k) ELSE 0]
    OBVIOUS
  <1>q. pay = Payments(D, E, Q, R, t)
    BY <1>u, <1>p DEF Payments
  <1>0. /\ D \in SUBSET Nat /\ IsFiniteSet(D) /\ E = {i \in D : K[i] > 0}
        /\ K \in [D -> Nat] /\ Q \in [D -> Nat] /\ R \in [D -> Nat]
        /\ t \in Nat \ {0} /\ a \in Nat \ {0} /\ a = Sum(K)
        /\ \A i \in D : R[i] < a /\ Q[i] * a + R[i] = t * K[i]
    BY DEF Divided
  <1>1. E \in SUBSET D /\ E \in SUBSET Nat /\ IsFiniteSet(E) /\ Cardinality(E) \in Nat
        /\ \A k \in E : R[k] \in Nat
    BY <1>0, FS_Subset, FS_CardinalityType
  <1>2. u \in 0 .. Cardinality(E)
    <2>1. PICK P \in SUBSET E : P = {i \in E : R[i] > 0}
      OBVIOUS
    <2>2. Cardinality(P) \in Nat /\ Cardinality(P) <= Cardinality(E)
      BY <1>1, FS_Subset, FS_CardinalityType
    <2>3. u \in 0 .. Cardinality(P)
      BY <1>u, <2>1, UnitsAreLeft
    <2> QED BY <1>1, <2>2, <2>3
  <1>3. PICK W \in SUBSET D : W = {i \in E : Rank(E, R, i) < u}
    BY <1>1
  <1>4. Cardinality(W) = u
    BY <1>1, <1>2, <1>3, RanksCount
  <1>f. PICK f : f = [i \in D |-> IF i \in W THEN 1 ELSE 0]
    OBVIOUS
  <1>5. f \in [D -> Int] /\ Sum(f) = u
    BY <1>0, <1>4, <1>f, SumCounts
  <1>6. ASSUME NEW i \in D PROVE pay[i] \in Int /\ pay[i] = 1 * Q[i] + 1 * f[i]
    <2>1. Q[i] \in Nat
      BY <1>0
    <2>2. CASE i \in E
      <3>1. pay[i] = Q[i] + f[i] /\ f[i] \in {0, 1}
        BY <1>p, <1>3, <1>f, <2>2 DEF Unit
      <3> QED BY <2>1, <3>1
    <2>3. CASE i \notin E
      <3>1. pay[i] = 0 /\ f[i] = 0
        BY <1>p, <1>3, <1>f, <2>3
      <3>2. K[i] = 0 /\ R[i] \in Nat
        BY <1>0, <2>3
      <3>3. Q[i] * a + R[i] = 0
        BY <1>0, <3>2
      <3>4. Q[i] = 0
        <4> SUFFICES ASSUME Q[i] >= 1 PROVE FALSE
          BY <2>1
        <4>1. Q[i] * a >= 1 * a
          BY <1>0, <2>1
        <4> QED BY <1>0, <2>1, <3>2, <3>3, <4>1
      <3> QED BY <3>1, <3>4
    <2> QED BY <2>2, <2>3
  <1>7. pay \in [D -> Int] /\ Q \in [D -> Int]
    BY <1>0, <1>p, <1>6
  <1>8. Sum(pay) = 1 * Sum(Q) + 1 * Sum(f)
    <2>1. Combines(D, pay, 1, Q, 1, f)
      BY <1>0, <1>5, <1>6, <1>7 DEF Combines
    <2> QED BY <2>1, SumCombines
  <1>9. Sum(Q) \in Nat
    BY <1>0, SumIsNat
  <1>10. Sum(pay) = t
    BY <1>0, <1>u, <1>5, <1>8, <1>9
  <1> QED BY <1>q, <1>10

Near(pay, K, t, a, i) ==
  /\ K[i] = 0 => pay[i] = 0
  /\ pay[i] * a > K[i] * t - a /\ pay[i] * a < K[i] * t + a

\* A payment is the exact share rounded down, or up when something was left of it.
LEMMA PaymentIsNear ==
  ASSUME NEW D, NEW E, NEW K, NEW Q, NEW R, NEW t, NEW a, Divided(D, E, K, Q, R, t, a),
         NEW pay, pay = Payments(D, E, Q, R, t), NEW i \in D
  PROVE  Near(pay, K, t, a, i)
  <1>u. PICK u : u = t - Sum(Q)
    OBVIOUS
  <1>p. pay = [k \in D |-> IF k \in E THEN Q[k] + Unit(E, R, u, k) ELSE 0]
    BY <1>u DEF Payments
  <1>0. /\ D \in SUBSET Nat /\ IsFiniteSet(D) /\ E = {k \in D : K[k] > 0}
        /\ K \in [D -> Nat] /\ Q \in [D -> Nat] /\ R \in [D -> Nat]
        /\ t \in Nat \ {0} /\ a \in Nat \ {0}
        /\ \A k \in D : R[k] < a /\ Q[k] * a + R[k] = t * K[k]
    BY DEF Divided
  <1>1. PICK k \in Nat, q \in Nat, r \in Nat :
          k = K[i] /\ q = Q[i] /\ r = R[i] /\ r < a /\ q * a + r = t * k
    BY <1>0
  <1>2. CASE i \in E
    <2>1. PICK x \in {0, 1} : x = Unit(E, R, u, i)
      BY DEF Unit
    <2>2. pay[i] = q + x /\ k > 0
      BY <1>0, <1>p, <1>1, <1>2, <2>1
    <2>3. x = 1 => r > 0
      <3>1. /\ E \in SUBSET Nat /\ IsFiniteSet(E) /\ \A e \in E : R[e] \in Nat
        BY <1>0, FS_Subset
      <3>2. PICK P \in SUBSET E : P = {e \in E : R[e] > 0}
        OBVIOUS
      <3>3. u \in 0 .. Cardinality(P)
        BY <1>u, <3>2, UnitsAreLeft
      <3>4. Cardinality(P) \in Nat
        BY <3>1, FS_Subset, FS_CardinalityType
      <3>5. u \in Nat /\ u <= Cardinality({e \in E : R[e] > 0})
        BY <3>2, <3>3, <3>4
      <3>6. x = 1 => Rank(E, R, i) < u
        BY <2>1 DEF Unit
      <3> QED BY <1>1, <1>2, <3>1, <3>5, <3>6, RemainderIsLeft
    <2>4. PICK z \in Nat : z = q * a
      BY <1>0
    <2>5. (q + x) * a = z + (IF x = 1 THEN a ELSE 0)
      <3>1. (q + 1) * a = q * a + a /\ (q + 0) * a = q * a
        BY <1>0
      <3> QED BY <2>4, <3>1
    <2>6. k * t = z + r
      <3>1. t * k = k * t
        BY <1>0
      <3> QED BY <1>1, <2>4, <3>1
    <2>7. (q + x) * a > k * t - a /\ (q + x) * a < k * t + a
      BY <1>0, <1>1, <2>3, <2>4, <2>5, <2>6
    <2> QED BY <1>1, <2>2, <2>7 DEF Near
  <1>3. CASE i \notin E
    <2>1. pay[i] = 0 /\ k = 0
      BY <1>0, <1>p, <1>1, <1>3
    <2>2. 0 * a = 0 /\ 0 * t = 0
      BY <1>0
    <2> QED BY <1>0, <1>1, <2>1, <2>2 DEF Near
  <1> QED BY <1>2, <1>3

\* More savings get no less.
LEMMA PaymentsAreOrdered ==
  ASSUME NEW D, NEW E, NEW K, NEW Q, NEW R, NEW t, NEW a, Divided(D, E, K, Q, R, t, a),
         NEW pay, pay = Payments(D, E, Q, R, t), NEW i \in D, NEW j \in D, K[i] > K[j]
  PROVE  pay[i] >= pay[j]
  <1>u. PICK u : u = t - Sum(Q)
    OBVIOUS
  <1>p. pay = [k \in D |-> IF k \in E THEN Q[k] + Unit(E, R, u, k) ELSE 0]
    BY <1>u DEF Payments
  <1>0. /\ D \in SUBSET Nat /\ IsFiniteSet(D) /\ E = {k \in D : K[k] > 0}
        /\ K \in [D -> Nat] /\ Q \in [D -> Nat] /\ R \in [D -> Nat]
        /\ t \in Nat \ {0} /\ a \in Nat \ {0}
        /\ \A k \in D : R[k] < a /\ Q[k] * a + R[k] = t * K[k]
    BY DEF Divided
  <1>1. PICK k \in Nat, q \in Nat, r \in Nat :
          k = K[i] /\ q = Q[i] /\ r = R[i] /\ r < a /\ q * a + r = t * k
    BY <1>0
  <1>2. PICK l \in Nat, p \in Nat, s \in Nat :
          l = K[j] /\ p = Q[j] /\ s = R[j] /\ s < a /\ p * a + s = t * l
    BY <1>0
  <1>3. PICK x \in {0, 1}, y \in {0, 1} : x = Unit(E, R, u, i) /\ y = Unit(E, R, u, j)
    BY DEF Unit
  <1>4. i \in E /\ pay[i] = q + x /\ k > l
    BY <1>0, <1>p, <1>1, <1>2, <1>3
  <1>5. pay[j] = 0 \/ (j \in E /\ pay[j] = p + y)
    BY <1>p, <1>2, <1>3
  <1>6. q * a + r > p * a + s
    <2>1. t * k >= t * (l + 1)
      BY <1>0, <1>4
    <2>2. t * (l + 1) = t * l + t
      BY <1>0
    <2> QED BY <1>0, <1>1, <1>2, <2>1, <2>2
  <1>7. p <= q
    <2> SUFFICES ASSUME p >= q + 1 PROVE FALSE
      OBVIOUS
    <2>1. p * a >= (q + 1) * a
      BY <1>0
    <2>2. (q + 1) * a = q * a + a
      BY <1>0
    <2> QED BY <1>0, <1>1, <1>2, <1>6, <2>1, <2>2
  <1>8. CASE p < q
    BY <1>4, <1>5, <1>8
  <1>9. CASE p = q
    <2>1. r > s
      BY <1>0, <1>6, <1>9
    <2>2. j \in E /\ y = 1 => x = 1
      <3> SUFFICES ASSUME j \in E, y = 1 PROVE x = 1
        OBVIOUS
      <3>1. E \in SUBSET Nat /\ IsFiniteSet(E) /\ \A e \in E : R[e] \in Nat
        BY <1>0, FS_Subset
      <3>2. LargerRest(R, i, j)
        BY <1>1, <1>2, <2>1 DEF LargerRest
      <3>3. Rank(E, R, i) < Rank(E, R, j) /\ Rank(E, R, i) \in Nat /\ Rank(E, R, j) \in Nat
        BY <1>4, <3>1, <3>2, LargerRestRanks, RankIsNat
      <3>4. Rank(E, R, j) < u /\ u \in Int
        <4>1. Sum(Q) \in Nat
          BY <1>0, SumIsNat
        <4> QED BY <1>0, <1>u, <1>3, <4>1 DEF Unit
      <3>5. Rank(E, R, i) < u
        BY <3>3, <3>4
      <3> QED BY <1>3, <3>5 DEF Unit
    <2> QED BY <1>4, <1>5, <1>9, <2>2
  <1> QED BY <1>7, <1>8, <1>9

Rests(t, savings) ==
  [i \in DOMAIN savings |-> IF i \in Eligible(savings) THEN Shares(t, savings)[i].remainder ELSE 0]

\* Savings that fit, of somebody.
Fits(m, sv, t) ==
  /\ m \in Nat /\ sv \in [1 .. m -> -1 .. MaxRaw] /\ t \in 1 .. MaxRaw
  /\ SavedUp(sv) <= MaxRaw /\ Eligible(sv) # {}

\* The savings that are kept, those of a POP in debt as none.
LEMMA SavingsAre ==
  ASSUME NEW m \in Nat, NEW sv \in [1 .. m -> -1 .. MaxRaw]
  PROVE  /\ IsFiniteSet(1 .. m) /\ 1 .. m \in SUBSET Nat /\ DOMAIN sv = 1 .. m
         /\ sv \in [1 .. m -> Int] /\ Kept(sv) \in [1 .. m -> Nat]
         /\ \A i \in 1 .. m : /\ Kept(sv)[i] = (IF sv[i] > 0 THEN sv[i] ELSE 0)
                              /\ i \in Eligible(sv) => Kept(sv)[i] \in 1 .. MaxRaw
         /\ Eligible(sv) = {i \in 1 .. m : Kept(sv)[i] > 0}
         /\ Sum(Kept(sv)) \in Nat /\ \A i \in 1 .. m : Kept(sv)[i] <= Sum(Kept(sv))
  <1>1. IsFiniteSet(1 .. m) /\ 1 .. m \in SUBSET Nat /\ DOMAIN sv = 1 .. m /\ MaxRaw \in Nat
    BY FS_Interval, Words
  <1>2. \A i \in 1 .. m : sv[i] \in Int /\ sv[i] <= MaxRaw
    BY <1>1
  <1>3. PICK K : K = Kept(sv)
    OBVIOUS
  <1>4. \A i \in 1 .. m : K[i] = (IF sv[i] > 0 THEN sv[i] ELSE 0)
    BY <1>1, <1>3 DEF Kept
  <1>5. K \in [1 .. m -> Nat]
    <2>1. K = [i \in 1 .. m |-> IF sv[i] > 0 THEN sv[i] ELSE 0]
      BY <1>1, <1>3 DEF Kept
    <2> QED BY <1>2, <2>1
  <1>6. Sum(K) \in Nat /\ \A i \in 1 .. m : K[i] <= Sum(K)
    BY <1>1, <1>5, SumIsNat
  <1>7. \A i \in 1 .. m : i \in Eligible(sv) <=> K[i] > 0
    BY <1>1, <1>2, <1>4 DEF Eligible
  <1>8. Eligible(sv) = {i \in 1 .. m : K[i] > 0}
    BY <1>1, <1>7 DEF Eligible
  <1>9. \A i \in 1 .. m : i \in Eligible(sv) => K[i] \in 1 .. MaxRaw
    BY <1>1, <1>2, <1>4, <1>7
  <1>10. sv \in [1 .. m -> Int]
    BY <1>2
  <1> QED BY <1>1, <1>3, <1>4, <1>5, <1>6, <1>8, <1>9, <1>10

\* AllocateInterest divides, and overflows nowhere.
LEMMA AllocateDivides ==
  ASSUME NEW m, NEW sv, NEW t, Fits(m, sv, t)
  PROVE  /\ Divided(1 .. m, Eligible(sv), Kept(sv), Quotients(t, sv), Rests(t, sv), t, Sum(Kept(sv)))
         /\ \A i \in Eligible(sv) : Shares(t, sv)[i].ok = TRUE
         /\ Paid(t, sv) = Payments(1 .. m, Eligible(sv), Quotients(t, sv), Rests(t, sv), t)
  <1>0. /\ m \in Nat /\ sv \in [1 .. m -> -1 .. MaxRaw] /\ t \in 1 .. MaxRaw
        /\ SavedUp(sv) <= MaxRaw /\ Eligible(sv) # {} /\ MaxRaw \in Nat /\ t \in Nat \ {0}
    BY Words DEF Fits
  <1>1. PICK E, K, Q, R, S : E = Eligible(sv) /\ K = Kept(sv) /\ Q = Quotients(t, sv) /\ R = Rests(t, sv)
                             /\ S = Shares(t, sv)
    OBVIOUS
  <1>2. /\ IsFiniteSet(1 .. m) /\ 1 .. m \in SUBSET Nat /\ DOMAIN sv = 1 .. m
        /\ sv \in [1 .. m -> Int] /\ K \in [1 .. m -> Nat]
        /\ \A i \in 1 .. m : /\ K[i] = (IF sv[i] > 0 THEN sv[i] ELSE 0)
                             /\ i \in E => K[i] \in 1 .. MaxRaw
        /\ E = {i \in 1 .. m : K[i] > 0}
        /\ Sum(K) \in Nat /\ \A i \in 1 .. m : K[i] <= Sum(K)
    <2>1. /\ IsFiniteSet(1 .. m) /\ 1 .. m \in SUBSET Nat /\ DOMAIN sv = 1 .. m
          /\ sv \in [1 .. m -> Int] /\ Kept(sv) \in [1 .. m -> Nat]
          /\ \A i \in 1 .. m : /\ Kept(sv)[i] = (IF sv[i] > 0 THEN sv[i] ELSE 0)
                               /\ i \in Eligible(sv) => Kept(sv)[i] \in 1 .. MaxRaw
          /\ Eligible(sv) = {i \in 1 .. m : Kept(sv)[i] > 0}
          /\ Sum(Kept(sv)) \in Nat /\ \A i \in 1 .. m : Kept(sv)[i] <= Sum(Kept(sv))
      BY <1>0, SavingsAre
    <2> QED BY Zenon, <1>1, <2>1
  <1>3. PICK a : a = Sum(K)
    OBVIOUS
  <1>4. a = SavedUp(sv)
    BY <1>0, <1>1, <1>2, <1>3, SavedUpIs
  <1>5. a \in 1 .. MaxRaw /\ a \in Nat \ {0}
    <2>1. PICK i \in 1 .. m : i \in E
      BY <1>0, <1>1, <1>2
    <2>2. K[i] \in Nat /\ K[i] > 0 /\ K[i] <= a /\ a \in Nat /\ a <= MaxRaw
      BY <1>0, <1>2, <1>3, <1>4, <2>1
    <2> QED BY <1>0, <2>2
  <1>6. ASSUME NEW i \in E PROVE S[i] = Share(t, K[i], a) /\ Divides(S[i], t, K[i], a)
    <2>1. i \in 1 .. m /\ K[i] \in 1 .. MaxRaw /\ K[i] <= a /\ K[i] = sv[i]
      BY <1>2, <1>3
    <2>2. S[i] = Share(t, K[i], a)
      BY <1>1, <1>4, <2>1 DEF Shares
    <2>3. Divides(Share(t, K[i], a), t, K[i], a)
      BY <1>0, <1>5, <2>1, ShareDivides
    <2> QED BY <2>2, <2>3
  <1>7. ASSUME NEW i \in E
        PROVE  /\ S[i].ok = TRUE /\ S[i].quotient \in Nat /\ S[i].remainder \in Nat /\ S[i].remainder < a
               /\ S[i].quotient * a + S[i].remainder = t * K[i]
    <2>1. /\ S[i].ok = TRUE
          /\ S[i].quotient \in 0 .. t /\ S[i].remainder \in 0 .. a - 1
          /\ S[i].quotient * a + S[i].remainder = t * K[i]
      BY <1>6 DEF Divides
    <2>2. S[i].quotient \in Nat /\ S[i].remainder \in Nat /\ S[i].remainder < a
      BY <1>0, <1>5, <2>1
    <2> QED BY <2>1, <2>2
  <1>8. /\ Q = [i \in 1 .. m |-> IF i \in E THEN S[i].quotient ELSE 0]
        /\ R = [i \in 1 .. m |-> IF i \in E THEN S[i].remainder ELSE 0]
    BY <1>1, <1>2 DEF Quotients, Rests
  <1>9. Q \in [1 .. m -> Nat] /\ R \in [1 .. m -> Nat]
    BY <1>7, <1>8
  <1>10. ASSUME NEW i \in 1 .. m PROVE R[i] < a /\ Q[i] * a + R[i] = t * K[i]
    <2>1. CASE i \in E
      <3>1. Q[i] = S[i].quotient /\ R[i] = S[i].remainder
        BY <1>8, <2>1
      <3> QED BY <1>7, <2>1, <3>1
    <2>2. CASE i \notin E
      <3>1. Q[i] = 0 /\ R[i] = 0 /\ K[i] = 0
        BY <1>2, <1>8, <2>2
      <3>2. 0 * a = 0 /\ t * 0 = 0
        BY <1>0, <1>5
      <3> QED BY <1>5, <3>1, <3>2
    <2> QED BY <2>1, <2>2
  <1>11. Divided(1 .. m, E, K, Q, R, t, a)
    BY <1>0, <1>2, <1>3, <1>5, <1>9, <1>10 DEF Divided
  <1>12. ASSUME NEW i \in E, NEW j \in E PROVE Before(t, sv, j, i) <=> LargerRest(R, j, i)
    <2>1. R[i] = S[i].remainder /\ R[j] = S[j].remainder
      BY <1>2, <1>8
    <2> QED BY Zenon, <1>1, <2>1 DEF Before, LargerRest
  <1>13. ASSUME NEW i \in E PROVE Extra(t, sv, i) = Unit(E, R, Units(t, sv), i)
    <2>1. {j \in E : Before(t, sv, j, i)} = {j \in E : LargerRest(R, j, i)}
      BY <1>12
    <2> QED BY <1>1, <2>1 DEF Extra, Unit, Rank
  <1>14. Paid(t, sv) = [i \in 1 .. m |-> IF i \in E THEN Q[i] + Unit(E, R, Units(t, sv), i) ELSE 0]
    <2>1. Paid(t, sv) = [i \in 1 .. m |-> IF i \in E THEN S[i].quotient + Extra(t, sv, i) ELSE 0]
      BY <1>1, <1>2 DEF Paid
    <2>2. \A i \in 1 .. m : i \in E => Q[i] = S[i].quotient
      BY <1>8
    <2> QED BY <1>13, <2>1, <2>2
  <1>15. Paid(t, sv) = Payments(1 .. m, E, Q, R, t)
    <2>1. Units(t, sv) = t - Sum(Q)
      BY <1>1 DEF Units
    <2> QED BY <1>14, <2>1 DEF Payments
  <1> QED BY <1>1, <1>3, <1>7, <1>11, <1>15

\* What DivisionIsFair asks of one division.
Fair(transfer, savings) ==
  LET division == AllocateInterest(transfer, savings)
      total == transfer * PopMoneyScale
      kept == Kept(savings)
      all == Sum(kept)
      pay == division.payout
  IN  IF division.status = "success"
      THEN /\ Sum(pay) = total
           /\ \A i \in DOMAIN savings :
                  /\ kept[i] = 0 => pay[i] = 0
                  /\ pay[i] * all > kept[i] * total - all /\ pay[i] * all < kept[i] * total + all
                  /\ \A j \in DOMAIN savings : kept[i] > kept[j] => pay[i] >= pay[j]
      ELSE /\ \A i \in DOMAIN savings : pay[i] = 0
           /\ division.status = "no_eligible_savings" => all = 0
           /\ division.status = "overflow" => total > MaxRaw \/ all > MaxRaw

LEMMA FairIs ==
  DivisionIsFair <=> \A transfer \in 1 .. MaxRaw, savings \in BoundedSeq(-1 .. MaxRaw, MaxPayees) :
                        Fair(transfer, savings)
  BY Zenon DEF DivisionIsFair, Fair, Kept, Sum

\* A division that is not refused is fair.
LEMMA PaymentsAreFair ==
  ASSUME NEW m, NEW sv, NEW t, Fits(m, sv, t),
         NEW pay, pay = Paid(t, sv), NEW K, K = Kept(sv), NEW a, a = Sum(K)
  PROVE  /\ Sum(pay) = t
         /\ \A i \in 1 .. m : /\ K[i] = 0 => pay[i] = 0
                              /\ pay[i] * a > K[i] * t - a /\ pay[i] * a < K[i] * t + a
                              /\ \A j \in 1 .. m : K[i] > K[j] => pay[i] >= pay[j]
  <1>1. PICK E, Q, R : E = Eligible(sv) /\ Q = Quotients(t, sv) /\ R = Rests(t, sv)
    OBVIOUS
  <1>2. Divided(1 .. m, E, K, Q, R, t, a)
    BY <1>1, AllocateDivides
  <1>3. pay = Payments(1 .. m, E, Q, R, t)
    <2>1. Paid(t, sv) = Payments(1 .. m, Eligible(sv), Quotients(t, sv), Rests(t, sv), t)
      BY AllocateDivides
    <2> QED BY <1>1, <2>1
  <1>4. Sum(pay) = t
    BY <1>2, <1>3, DivisionIsExact
  <1>5. ASSUME NEW i \in 1 .. m
        PROVE  Near(pay, K, t, a, i)
    BY <1>2, <1>3, PaymentIsNear
  <1>6. ASSUME NEW i \in 1 .. m, NEW j \in 1 .. m, K[i] > K[j] PROVE pay[i] >= pay[j]
    BY <1>2, <1>3, <1>6, PaymentsAreOrdered
  <1> QED BY <1>4, <1>5, <1>6 DEF Near

\* So there are POPs to take them all.
LEMMA UnitsFit ==
  ASSUME NEW m, NEW sv, NEW t, Fits(m, sv, t)
  PROVE  ~(Units(t, sv) < 0) /\ ~(Units(t, sv) > Cardinality(Eligible(sv)))
  <1>1. PICK E, K, Q, R : E = Eligible(sv) /\ K = Kept(sv) /\ Q = Quotients(t, sv) /\ R = Rests(t, sv)
    OBVIOUS
  <1>2. Divided(1 .. m, E, K, Q, R, t, Sum(K))
    BY <1>1, AllocateDivides
  <1>3. PICK P \in SUBSET E : P = {i \in E : R[i] > 0}
    OBVIOUS
  <1>4. t - Sum(Q) \in 0 .. Cardinality(P)
    BY <1>2, <1>3, UnitsAreLeft
  <1>5. IsFiniteSet(E)
    <2>1. IsFiniteSet(1 .. m) /\ E \in SUBSET (1 .. m)
      BY <1>2 DEF Divided
    <2> QED BY <2>1, FS_Subset
  <1>6. Cardinality(P) \in Nat /\ Cardinality(E) \in Nat /\ Cardinality(P) <= Cardinality(E)
    BY <1>5, FS_Subset, FS_CardinalityType
  <1>7. PICK u \in Int : u = t - Sum(Q)
    BY <1>4, <1>6
  <1>8. ~(u < 0) /\ ~(u > Cardinality(E))
    BY <1>4, <1>6, <1>7
  <1> QED BY <1>1, <1>7, <1>8 DEF Units

LEMMA RefusalIs ==
  ASSUME NEW status, NEW sv
  PROVE  /\ Refused(status, sv).status = status
         /\ \A i \in DOMAIN sv : Refused(status, sv).payout[i] = 0
  BY DEF Refused

\* Every division is fair or refused for a reason.
LEMMA EachIsFair ==
  ASSUME NEW m \in Nat, NEW sv \in [1 .. m -> -1 .. MaxRaw], NEW transfer \in 1 .. MaxRaw
  PROVE  Fair(transfer, sv)
  <1>0. MaxRaw \in Nat /\ transfer \in Nat \ {0} /\ PopMoneyScale \in Nat \ {0}
    BY Words, AllocationAssumption
  <1>1. PICK t \in Nat \ {0} : t = transfer * PopMoneyScale
    BY <1>0
  <1>2. PICK division, K, a : division = AllocateInterest(transfer, sv) /\ K = Kept(sv) /\ a = Sum(K)
    OBVIOUS
  <1>3. /\ IsFiniteSet(1 .. m) /\ 1 .. m \in SUBSET Nat /\ DOMAIN sv = 1 .. m
        /\ sv \in [1 .. m -> Int] /\ K \in [1 .. m -> Nat] /\ Eligible(sv) = {i \in 1 .. m : K[i] > 0}
    BY <1>2, SavingsAre
  <1> DEFINE refused(status) == division = Refused(status, sv)
             paid == /\ SavedUp(sv) <= MaxRaw /\ Eligible(sv) # {}
                     /\ division = [status |-> "success", payout |-> Paid(t, sv)]
  <1>4. \/ refused("no_eligible_savings") /\ Eligible(sv) = {}
        \/ refused("overflow") /\ (t > MaxRaw \/ SavedUp(sv) > MaxRaw)
        \/ paid /\ t <= MaxRaw
    <2>1. ~(transfer <= 0) /\ transfer > 0
      BY <1>0
    <2>2. CASE sv = <<>>
      <3>1. division = Refused("no_eligible_savings", sv)
        BY Zenon, <1>2, <2>1, <2>2, AllocateIs
      <3>2. Eligible(sv) = {}
        BY <2>2 DEF Eligible
      <3> QED BY <3>1, <3>2
    <2>3. CASE sv # <<>> /\ transfer > MaxRaw \div PopMoneyScale
      <3>1. division = Refused("overflow", sv)
        BY Zenon, <1>2, <2>1, <2>3, AllocateIs
      <3>2. t > MaxRaw
        <4>1. PICK b \in Nat, r \in Nat : b = MaxRaw \div PopMoneyScale /\ r < PopMoneyScale
                                          /\ MaxRaw = b * PopMoneyScale + r
          BY <1>0, QuotientAndRemainder
        <4>2. transfer * PopMoneyScale >= (b + 1) * PopMoneyScale
          BY <1>0, <2>3, <4>1
        <4>3. (b + 1) * PopMoneyScale = b * PopMoneyScale + PopMoneyScale
          BY <1>0
        <4> QED BY <1>0, <1>1, <4>1, <4>2, <4>3
      <3> QED BY <3>1, <3>2
    <2>4. CASE sv # <<>> /\ ~(transfer > MaxRaw \div PopMoneyScale)
      <3>0. t <= MaxRaw
        <4>1. PICK b \in Nat, r \in Nat : b = MaxRaw \div PopMoneyScale /\ MaxRaw = b * PopMoneyScale + r
          BY <1>0, QuotientAndRemainder
        <4>2. transfer * PopMoneyScale <= b * PopMoneyScale
          <5>1. transfer <= b
            BY <1>0, <2>4, <4>1
          <5> QED BY <1>0, <4>1, <5>1
        <4> QED BY <1>0, <1>1, <4>1, <4>2
      <3>1. division = IF SavedUp(sv) > MaxRaw THEN Refused("overflow", sv)
                       ELSE IF Eligible(sv) = {} THEN Refused("no_eligible_savings", sv)
                       ELSE IF \/ \E i \in Eligible(sv) : ~Shares(t, sv)[i].ok
                               \/ Units(t, sv) < 0
                               \/ Units(t, sv) > Cardinality(Eligible(sv))
                            THEN Refused("overflow", sv)
                       ELSE [status |-> "success", payout |-> Paid(t, sv)]
        BY Zenon, <1>1, <1>2, <2>1, <2>4, AllocateIs
      <3>2. CASE SavedUp(sv) > MaxRaw
        BY <3>1, <3>2
      <3>3. CASE ~(SavedUp(sv) > MaxRaw) /\ Eligible(sv) = {}
        BY <3>1, <3>3
      <3>4. CASE ~(SavedUp(sv) > MaxRaw) /\ Eligible(sv) # {}
        <4>1. SavedUp(sv) \in Nat
          BY <1>3, SavedUpIs
        <4>2. Fits(m, sv, t)
          BY <1>0, <3>0, <3>4, <4>1 DEF Fits
        <4>3. ~(\E i \in Eligible(sv) : ~Shares(t, sv)[i].ok)
          BY <4>2, AllocateDivides
        <4>4. ~(Units(t, sv) < 0) /\ ~(Units(t, sv) > Cardinality(Eligible(sv)))
          BY <4>2, UnitsFit
        <4>5. division = [status |-> "success", payout |-> Paid(t, sv)]
          BY Zenon, <3>1, <3>4, <4>3, <4>4
        <4>6. SavedUp(sv) <= MaxRaw
          BY <1>0, <3>4, <4>1
        <4> QED BY <3>0, <3>4, <4>5, <4>6
      <3> QED BY <3>2, <3>3, <3>4
    <2> QED BY <2>2, <2>3, <2>4
  <1>5. CASE refused("no_eligible_savings") /\ Eligible(sv) = {}
    <2>1. a = 0
      <3>1. \A i \in 1 .. m : K[i] = 0
        <4>1. ASSUME NEW i \in 1 .. m PROVE K[i] = 0
          <5>1. K[i] \in Nat
            BY <1>3
          <5>2. ~(K[i] > 0)
            BY <1>3, <1>5
          <5> QED BY <5>1, <5>2
        <4> QED BY <4>1
      <3>2. K \in [1 .. m -> Int] /\ \A i \in 1 .. m : K[i] = 0 * K[i] + 0 * K[i]
        BY <1>3, <3>1
      <3>3. Combines(1 .. m, K, 0, K, 0, K)
        BY <1>3, <3>2 DEF Combines
      <3>4. Sum(K) = 0 * Sum(K) + 0 * Sum(K) /\ Sum(K) \in Nat
        BY <1>3, <3>3, SumCombines, SumIsNat
      <3> QED BY <1>2, <3>4
    <2>2. division.status = "no_eligible_savings" /\ \A i \in DOMAIN sv : division.payout[i] = 0
      BY <1>5, RefusalIs
    <2>3. "no_eligible_savings" # "success" /\ "no_eligible_savings" # "overflow"
      OBVIOUS
    <2> QED BY Zenon, <1>2, <2>1, <2>2, <2>3 DEF Fair
  <1>6. CASE refused("overflow") /\ (t > MaxRaw \/ SavedUp(sv) > MaxRaw)
    <2>1. t > MaxRaw \/ a > MaxRaw
      BY <1>2, <1>3, <1>6, SavedUpIs
    <2>2. division.status = "overflow" /\ \A i \in DOMAIN sv : division.payout[i] = 0
      BY <1>6, RefusalIs
    <2>3. "overflow" # "success" /\ "overflow" # "no_eligible_savings"
      OBVIOUS
    <2> QED BY Zenon, <1>1, <1>2, <2>1, <2>2, <2>3 DEF Fair
  <1>7. CASE paid /\ t <= MaxRaw
    <2>1. Fits(m, sv, t)
      BY <1>0, <1>7 DEF Fits
    <2>2. PICK pay : pay = Paid(t, sv)
      OBVIOUS
    <2>3. division.status = "success" /\ division.payout = pay
      BY <1>7, <2>2
    <2>4. /\ Sum(pay) = t
          /\ \A i \in 1 .. m : /\ K[i] = 0 => pay[i] = 0
                               /\ pay[i] * a > K[i] * t - a /\ pay[i] * a < K[i] * t + a
                               /\ \A j \in 1 .. m : K[i] > K[j] => pay[i] >= pay[j]
      BY <1>2, <2>1, <2>2, PaymentsAreFair
    <2> QED BY Zenon, <1>1, <1>2, <1>3, <2>3, <2>4 DEF Fair
  <1> QED BY <1>4, <1>5, <1>6, <1>7

(***************************************************************************)
(* For every width, scale and number of POPs, AllocateInterest divides a   *)
(* pool exactly, close to each POP's share and in the order of savings,    *)
(* and overflows only where a sum does not fit (MultiplyDivide included).  *)
(***************************************************************************)
THEOREM AllocationDivisionIsFair == DivisionIsFair
  <1>1. ASSUME NEW transfer \in 1 .. MaxRaw, NEW sv \in BoundedSeq(-1 .. MaxRaw, MaxPayees)
        PROVE  Fair(transfer, sv)
    <2>1. PICK m \in 0 .. MaxPayees : sv \in [1 .. m -> -1 .. MaxRaw]
      BY DEF BoundedSeq, SeqOf
    <2>2. m \in Nat
      BY AllocationAssumption
    <2> QED BY <2>1, <2>2, EachIsFair
  <1> QED BY <1>1, FairIs

(***************************************************************************)
(* So is every division that the interest plugin makes (PayStatePool).     *)
(***************************************************************************)
THEOREM FixSpecAllocationIsFair == FixSpec => []AllocationIsFair
  <1>1. AllocationIsFair
    BY AllocationDivisionIsFair DEF AllocationIsFair
  <1> QED BY <1>1, PTL
=============================================================================
