---------------------------- MODULE InterestPool ----------------------------
(***************************************************************************)
(* The kernel's interest pool service                                      *)
(* (kernel/game_state/src/services/interest_pool.cpp and the mutations of  *)
(* kernel/game_state/src/runtime.cpp it calls): under the authority of the *)
(* callback that runs, a plugin collects a country's pools, prepares them  *)
(* to be paid, pays one to its POPs and empties it, or empties them all.   *)
(* A mutation checks everything first and then writes one value after the  *)
(* other, each read back: what it leaves when a write fails half way is    *)
(* what these operators are about.  An outcome names the status, what was  *)
(* written, and whether it needed a write to fail.                         *)
(***************************************************************************)
EXTENDS StateReader, InterestAllocation

CONSTANTS MaxCampaignStates   \* the states one cleanup can hold

VARIABLES auth,        \* the authority of the callback that runs, or None
          signature    \* what VerifySignature finds of the game's GiveMoney

NoCall == [state |-> None, interest |-> 0, first |-> 0, count |-> 0]

\* InterestResult: the status of a mutation as the interface tells it.
InterestResult(status, partial) ==
    CASE status = "success" -> "success"
      [] status # "success" /\ (partial \/ status = "postcondition_failed") -> "partial_mutation"
      [] status \in {"invalid_context", "invalid_thread", "invalid_phase", "state_changed"} /\ ~partial ->
           "stale_authority"
      [] status \in {"unavailable", "signature_mismatch"} /\ ~partial -> "unavailable"
      [] OTHER -> "precondition_failed"

\* BindBankInterestGameServices: the bank's owner is read once.
Bind(c, after) ==
    auth' = [country |-> IF Readable(c) THEN c ELSE None, bank |-> c, after |-> after, states |-> <<>>,
             pops |-> <<>>, prepared |-> {}, checked |-> None]
UnbindBankInterestGameServices == auth' = None
-----------------------------------------------------------------------------
CheckMutationAccess(after) ==
    IF auth.country = None THEN "invalid_context"
    ELSE IF auth.after # after THEN "invalid_phase"
    ELSE IF ~Readable(auth.bank) THEN "state_changed" ELSE "success"

CheckPreparedMutationAccess ==
    IF auth.country = None \/ auth.prepared = {} THEN "invalid_context"
    ELSE IF ~auth.after THEN "invalid_phase" ELSE "success"

\* The signature is verified once for a callback and then remembered.
CheckSignature == IF auth.checked = None THEN signature ELSE auth.checked

\* The pool is still what the snapshot says, and can be written.
ValidateStatePool(s, interest) ==
    interest >= 0 /\ Readable(s) /\ s \notin readonly /\ pool[s] = interest

\* CollectInterestPools: the snapshots a plugin gets, kept by the service.
CollectInterestPools(withPops) ==
    LET found == CollectCountryStateInterest(auth.country, MaxStates, withPops, MaxRaw)
    IN  [result |-> IF found.ok THEN "success" ELSE "unavailable",
         states |-> found.states, pops |-> found.pops]
Collected(found) == auth' = [auth EXCEPT !.states = found.states, !.pops = found.pops]

(***************************************************************************)
(* DiscardStateInterestPools: every country's states are collected and     *)
(* every pool validated before the first one is emptied.                   *)
(***************************************************************************)
Campaign == FlattenSeq([c \in 1 .. heap.countries - 1 |->
    CollectCountryStateInterest(ResolveCountry(c), MaxStates, FALSE, MaxRaw).states])
Emptied(states) == {states[i].state : i \in {k \in DOMAIN states : states[k].interest # 0}}
Discarded(states) == FoldSeq(LAMBDA s, sum : sum + s.interest, 0, states)

Refusal(status) == [status |-> status, emptied |-> {}, cleared |-> 0, discarded |-> 0, fault |-> FALSE]

DiscardStateInterestPools ==
    LET counts == ReadCountryCount
        states == Campaign
        identities == [i \in DOMAIN states |-> states[i].state]
        \* Emptying the i-th fails: the ones before it are empty, it may be.
        Failing(i) ==
            LET before == Emptied(SubSeq(states, 1, i - 1))
            IN  {[status |-> "postcondition_failed", emptied |-> e, cleared |-> Cardinality(before),
                  discarded |-> Discarded(states), fault |-> TRUE] :
                     e \in {before, before \cup {states[i].state}}}
    IN  IF CheckMutationAccess(FALSE) # "success" THEN {Refusal(CheckMutationAccess(FALSE))}
        ELSE IF \/ counts = None
                \/ \E c \in 1 .. counts - 1 :
                       ~CollectCountryStateInterest(ResolveCountry(c), MaxStates, FALSE, MaxRaw).ok
                \/ Len(states) > MaxCampaignStates
             THEN {Refusal("unavailable")}
        ELSE IF ~IsInjective(identities) THEN {Refusal("state_changed")}
        ELSE IF \E i \in DOMAIN states : ~ValidateStatePool(states[i].state, states[i].interest)
             THEN {Refusal("not_writable")}
        ELSE IF Discarded(states) > MaxRaw THEN {Refusal("balance_overflow")}
        ELSE {[status |-> "success", emptied |-> Emptied(states), cleared |-> Cardinality(Emptied(states)),
               discarded |-> Discarded(states), fault |-> FALSE]}
             \cup UNION {Failing(i) : i \in {k \in DOMAIN states : states[k].interest # 0}}

\* DiscardInterestPools: some emptied and not all is a partial mutation.
DiscardInterestPools(o) == InterestResult(o.status, o.cleared # 0 /\ o.status # "success")
-----------------------------------------------------------------------------
(***************************************************************************)
(* PrepareCountryStateInterestPayouts: the country is collected again and  *)
(* must be what the plugin was given.                                      *)
(***************************************************************************)
PrepareCountryStateInterestPayouts(states) ==
    LET now == CollectCountryStateInterest(auth.country, MaxStates, FALSE, MaxRaw)
        Same(a, b) == a.state = b.state /\ a.interest = b.interest
    IN  IF states = <<>> THEN "invalid_context"
        ELSE IF CheckMutationAccess(TRUE) # "success" THEN CheckMutationAccess(TRUE)
        ELSE IF /\ now.ok /\ Len(now.states) = Len(states)
                /\ \A i \in DOMAIN states : Same(now.states[i], states[i])
             THEN "success" ELSE "state_changed"
Prepared(states, status) ==
    auth' = [auth EXCEPT !.prepared = IF status = "success"
                                      THEN {states[i].state : i \in DOMAIN states} ELSE {}]

(***************************************************************************)
(* ApplyPopInterestBatchImpl: every entry is checked before the first POP  *)
(* is paid; then they are paid one after the other, each payment read      *)
(* back, and the first one that reads back wrong ends it.                  *)
(***************************************************************************)
Unpaid(status) == [status |-> status, written |-> 0, verified |-> 0, emptied |-> FALSE, fault |-> FALSE]
ApplyPopInterestBatch(entries) ==
    IF \E i \in DOMAIN entries : entries[i].amount <= 0 THEN {Unpaid("invalid_amount")}
    ELSE IF ~IsInjective([i \in DOMAIN entries |-> entries[i].pop]) THEN {Unpaid("state_changed")}
    ELSE IF CheckSignature # "success" THEN {Unpaid(CheckSignature)}
    ELSE IF \E i \in DOMAIN entries : ~Readable(entries[i].pop) THEN {Unpaid("balance_unreadable")}
    ELSE IF \E i \in DOMAIN entries : entries[i].pop \in readonly THEN {Unpaid("not_writable")}
    ELSE {[status |-> "postcondition_failed", written |-> n, verified |-> n - 1, emptied |-> FALSE,
           fault |-> TRUE] : n \in DOMAIN entries}
         \cup {[status |-> "success", written |-> Len(entries), verified |-> Len(entries),
                emptied |-> FALSE, fault |-> FALSE]}

(***************************************************************************)
(* ApplyStateInterestPayout: a prepared pool that is still what it was is  *)
(* paid in full and then emptied; when it cannot be emptied the POPs have  *)
(* their money and the pool still holds it.                                *)
(***************************************************************************)
ApplyStateInterestPayout(state, entries) ==
    IF CheckPreparedMutationAccess # "success" THEN {Unpaid(CheckPreparedMutationAccess)}
    ELSE IF state.interest <= 0 THEN {Unpaid("invalid_amount")}
    ELSE IF ~ValidateStatePool(state.state, state.interest) \/ state.state \notin auth.prepared
         THEN {Unpaid("state_changed")}
    ELSE UNION {IF o.status # "success" THEN {o}
                ELSE (IF CheckMutationAccess(TRUE) = "success" THEN {[o EXCEPT !.emptied = TRUE]} ELSE {})
                     \cup {[o EXCEPT !.status = "postcondition_failed", !.emptied = e,
                                      !.fault = (CheckMutationAccess(TRUE) = "success")] :
                               e \in IF CheckMutationAccess(TRUE) = "success" THEN BOOLEAN ELSE {FALSE}} :
                    o \in ApplyPopInterestBatch(entries)}

ApplyInterestPayout(o) == InterestResult(o.status, o.written # o.verified)
=============================================================================
