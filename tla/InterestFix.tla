---------------------------- MODULE InterestFix ----------------------------
(***************************************************************************)
(* The interest plugin (plugins/interest_bug_fix), the bank pass of the    *)
(* game that drives it, the worker that writes its results, and the        *)
(* loader that loads it with other plugins, one of which may fail.         *)
(*                                                                         *)
(* Once a day the game goes through its countries; the hook calls the      *)
(* plugin before the first one, where old pools are emptied, and after     *)
(* each one that had interest, where the pools just filled are paid out.   *)
(* A callback is a sequence of calls of the interest pool service on the   *)
(* game's thread; memory may become unreadable between two of them.        *)
(***************************************************************************)
EXTENDS InterestPool, PluginLoader

CONSTANTS Worlds,      \* the games that may be loaded
          Fix,         \* the interest plugin's name
          Fragile,     \* the objects whose memory may change
          QueueSize,   \* results the queue holds
          MaxShare,    \* interest a state gets from one country's bank
          MaxDays,     \* bank passes
          MaxFaults,   \* writes that fail, memory that changes
          MaxLoads     \* saves loaded

ASSUME FixAssumption ==
    /\ Fix \in Names /\ \A w \in Worlds : IsGame(w)
    /\ QueueSize \in Nat /\ MaxShare \in Nat

VARIABLES
    pass,      \* the bank pass: the country, and where in its turn
    fix,       \* the plugin's flags
    slot,      \* its registration
    call,      \* the callback that runs, at its next service call
    queue,     \* its results that wait to be written
    worker, stop,            \* the thread that writes them
    fresh,     \* per state: interest of this pass that its pool got
    given,     \* per state: money its POPs got in this pass
    days, faults, loads

gameVars == <<heap, unreadable, readonly, pool, signature>>
pluginVars == <<fix, slot, auth, call>>
resultVars == <<queue, worker, stop>>
ghostVars == <<fresh, given>>
bounds == <<days, faults, loads>>
fixVars == <<gameVars, pluginVars, resultVars, ghostVars, bounds, pass, loaderVars>>

Idle == [at |-> "idle", after |-> FALSE, states |-> <<>>, pops |-> <<>>, next |-> 0]
NotPassing == [at |-> "idle", country |-> 0]
Zero == [s \in States |-> 0]

\* The pools of a save: all empty, or all holding some interest.
SavedPools == {[s \in States |-> n] : n \in {0, MaxShare}}

Result(status, state, total, paid, verified) ==
    [status |-> status, state |-> state, payout |-> total, paid |-> paid, verified |-> verified]

FixInit ==
    /\ \E w \in Worlds : heap = w
    /\ pool \in SavedPools /\ unreadable = {} /\ readonly = {} /\ signature = "success"
    /\ fix = [initialized |-> FALSE, disabled |-> FALSE]
    /\ slot = "free" /\ auth = None /\ call = Idle
    /\ queue = <<>> /\ worker = "none" /\ stop = FALSE
    /\ fresh = Zero /\ given = Zero /\ pass = NotPassing
    /\ days = 0 /\ faults = 0 /\ loads = 0
    /\ LoaderInit
-----------------------------------------------------------------------------
(***************************************************************************)
(* The game.  A bank pass goes through the countries in order.             *)
(***************************************************************************)
StartPass ==
    /\ pass.at = "idle" /\ days < MaxDays
    /\ plug[Fix] \notin {"absent", "destroyed"}   \* bound: passes that nobody sees are left out
    /\ pass' = [at |-> "before", country |-> 0] /\ days' = days + 1
    /\ UNCHANGED <<gameVars, pluginVars, resultVars, ghostVars, faults, loads, loaderVars>>

\* BankInterestHookBridge and DispatchBankInterestEventServices: a slot that
\* is active is called under an authority of its own.
Dispatch(after, first) ==
    IF slot = "active" /\ hooks # {}
    THEN Bind(pass.country, after) /\ call' = [Idle EXCEPT !.at = first, !.after = after]
    ELSE UNCHANGED <<auth, call>>

\* The hook calls the plugin before the first country only.
DispatchBefore ==
    /\ pass.at = "before" /\ pass' = [pass EXCEPT !.at = "distribute"]
    /\ IF pass.country = 0 THEN Dispatch(FALSE, "initialize") ELSE UNCHANGED <<auth, call>>
    /\ UNCHANGED <<gameVars, fix, slot, resultVars, ghostVars, bounds, loaderVars>>

(***************************************************************************)
(* The game's own distribution (DistributeInterest, called by the hook):   *)
(* a country without interest skips the callback, one with too little of   *)
(* it has nothing for its states.                                          *)
(***************************************************************************)
Distribute ==
    /\ pass.at = "distribute" /\ call.at = "idle"
    /\ \/ pass' = [pass EXCEPT !.at = "next"] /\ UNCHANGED <<pool, fresh>>
       \/ pass' = [pass EXCEPT !.at = "after_nothing"] /\ UNCHANGED <<pool, fresh>>
       \/ \E share \in [ToSet(Listed(pass.country)) -> 0 .. MaxShare] :
              /\ pass' = [pass EXCEPT !.at = "after"]
              /\ pool' = [s \in States |-> IF s \in DOMAIN share THEN pool[s] + share[s] ELSE pool[s]]
              /\ fresh' = [s \in States |-> IF s \in DOMAIN share THEN fresh[s] + share[s] ELSE fresh[s]]
    /\ UNCHANGED <<heap, unreadable, readonly, signature, pluginVars, resultVars, given, bounds, loaderVars>>

\* OnBankInterest pays only after a distribution, and only when it may.
DispatchAfter ==
    /\ pass.at \in {"after", "after_nothing"} /\ pass' = [pass EXCEPT !.at = "next"]
    /\ IF pass.at = "after" /\ fix.initialized /\ ~fix.disabled
       THEN Dispatch(TRUE, "collect") ELSE UNCHANGED <<auth, call>>
    /\ UNCHANGED <<gameVars, fix, slot, resultVars, ghostVars, bounds, loaderVars>>

NextCountry ==
    /\ pass.at = "next" /\ call.at = "idle"
    /\ IF pass.country + 1 < heap.countries
       THEN pass' = [at |-> "before", country |-> pass.country + 1] /\ UNCHANGED ghostVars
       ELSE pass' = NotPassing /\ fresh' = Zero /\ given' = Zero
    /\ UNCHANGED <<gameVars, pluginVars, resultVars, bounds, loaderVars>>

\* A save replaces the game between two passes, with the pools it was saved with.
LoadSave ==
    /\ pass.at = "idle" /\ loads < MaxLoads /\ loads' = loads + 1
    /\ days \in 1 .. MaxDays - 1   \* bound: between two passes
    /\ \E w \in Worlds : heap' = w
    /\ pool' \in SavedPools
    /\ unreadable' = {} /\ readonly' = {}
    /\ UNCHANGED <<signature, pluginVars, resultVars, ghostVars, days, faults, pass, loaderVars>>

\* Memory, or the code of GiveMoney, is not what it was; seen by the callback only.
Damage ==
    /\ call.at # "idle" /\ faults < MaxFaults /\ faults' = faults + 1
    /\ \/ \E o \in Fragile : unreadable' = {o} /\ UNCHANGED <<readonly, signature>>
       \/ \E o \in Fragile : readonly' = {o} /\ UNCHANGED <<unreadable, signature>>
       \/ signature' = "signature_mismatch" /\ UNCHANGED <<unreadable, readonly>>
    /\ UNCHANGED <<heap, pool, pluginVars, resultVars, ghostVars, days, loads, pass, loaderVars>>
-----------------------------------------------------------------------------
(***************************************************************************)
(* The callback.  A result that finds the queue full is lost.              *)
(***************************************************************************)
Publish(result) ==
    queue' = IF Len(queue) < QueueSize THEN Append(queue, result) ELSE queue

\* MutationFixStatus: what was written decides before what was returned.
MutationFixStatus(result, partial) ==
    IF partial \/ result = "partial_mutation" THEN "partial_mutation"
    ELSE IF result = "unavailable" THEN "mutation_unavailable" ELSE "mutation_precondition_changed"
IsUnsafeAppliedPopInterestFailure(result, partial) ==
    MutationFixStatus(result, partial) \in {"partial_mutation", "mutation_unavailable"}
FailureStatus(result) ==
    IF result = "unavailable" THEN "collection_failed" ELSE MutationFixStatus(result, FALSE)

\* The service's authority ends with the callback (UnbindBankInterestGameServices,
\* ScrubAuthorityHandles).
Return == call' = Idle /\ UnbindBankInterestGameServices
PublishFailure(result) == Publish(Result(FailureStatus(result), None, 0, 0, 0)) /\ Return

Faulty(o) ==
    /\ o.fault => faults < MaxFaults
    /\ faults' = IF o.fault THEN faults + 1 ELSE faults

\* Mutant of the next: a cleanup that failed leaves the flags of the last day.
Initialize_KeepsFlags ==
    /\ call.at = "initialize"
    /\ \E o \in DiscardStateInterestPools :
           LET result == DiscardInterestPools(o)
           IN  /\ Faulty(o)
               /\ pool' = [s \in States |-> IF s \in o.emptied THEN 0 ELSE pool[s]]
               /\ Publish(Result(IF result = "success" THEN "initialized"
                                 ELSE MutationFixStatus(result, o.cleared # 0), None, o.discarded, 0, 0))
               /\ fix' = IF result = "success" THEN [initialized |-> TRUE, disabled |-> FALSE] ELSE fix
    /\ Return
    /\ UNCHANGED <<heap, unreadable, readonly, signature, slot, worker, stop, ghostVars, days, loads,
                   pass, loaderVars>>

\* Old pools are emptied; only when all of them are may anything be paid.
Initialize ==
    /\ call.at = "initialize"
    /\ \E o \in DiscardStateInterestPools :
           LET result == DiscardInterestPools(o)
           IN  /\ Faulty(o)
               /\ pool' = [s \in States |-> IF s \in o.emptied THEN 0 ELSE pool[s]]
               /\ Publish(Result(IF result = "success" THEN "initialized"
                                 ELSE MutationFixStatus(result, o.cleared # 0), None, o.discarded, 0, 0))
               /\ fix' = [initialized |-> result = "success", disabled |-> result # "success"]
    /\ Return
    /\ UNCHANGED <<heap, unreadable, readonly, signature, slot, worker, stop, ghostVars, days, loads,
                   pass, loaderVars>>

\* PayCountryPools: the states first, and the POPs only if one holds interest.
CollectStates ==
    /\ call.at \in {"collect", "collect_pops"}
    /\ LET found == CollectInterestPools(call.at = "collect_pops")
           interest == \E i \in DOMAIN found.states : found.states[i].interest > 0
       IN  \/ /\ found.result # "success" /\ PublishFailure(found.result)
           \/ /\ found.result = "success" /\ call.at = "collect" /\ ~interest
              /\ Return /\ UNCHANGED queue
           \/ /\ found.result = "success" /\ call.at = "collect" /\ interest
              /\ call' = [call EXCEPT !.at = "collect_pops"] /\ Collected(found) /\ UNCHANGED queue
           \/ /\ found.result = "success" /\ call.at = "collect_pops"
              /\ call' = [call EXCEPT !.at = "prepare", !.states = found.states, !.pops = found.pops]
              /\ Collected(found) /\ UNCHANGED queue
    /\ UNCHANGED <<gameVars, fix, slot, worker, stop, ghostVars, bounds, pass, loaderVars>>

Prepare ==
    /\ call.at = "prepare"
    /\ LET status == PrepareCountryStateInterestPayouts(call.states)
       IN  IF status = "success"
           THEN /\ call' = [call EXCEPT !.at = "pay", !.next = 1]
                /\ Prepared(call.states, status) /\ UNCHANGED queue
           ELSE PublishFailure(InterestResult(status, FALSE))
    /\ UNCHANGED <<gameVars, fix, slot, worker, stop, ghostVars, bounds, pass, loaderVars>>

\* The loop ends at the last state, and at the first failure that is unsafe.
Continue(disabled, checked) ==
    IF disabled \/ call.next = Len(call.states) THEN Return
    ELSE /\ call' = [call EXCEPT !.next = call.next + 1]
         /\ auth' = [auth EXCEPT !.checked = checked]

\* The payments of a state: its POPs that are paid something.
Entries(state, payout) ==
    FlattenSeq([i \in 1 .. state.count |->
        IF payout[i] = 0 THEN <<>> ELSE <<[pop |-> call.pops[state.first + i], amount |-> payout[i]]>>])
Total(entries) == FoldSeq(LAMBDA e, sum : sum + e.amount, 0, entries)
Savings(state) == [i \in 1 .. state.count |-> heap.savings[call.pops[state.first + i]]]

(***************************************************************************)
(* PayStatePool: the pool is divided, the division is checked to be the    *)
(* whole pool, and the service pays it.  A payment that was begun and not  *)
(* finished ends the pass's payments.                                      *)
(***************************************************************************)
PayStatePool ==
    /\ call.at = "pay"
    /\ LET state == call.states[call.next]
           division == AllocateInterest(state.interest, Savings(state))
           entries == Entries(state, division.payout)
           Unpaid_(status) ==
               /\ Publish(Result(status, state.state, 0, 0, 0)) /\ Continue(FALSE, auth.checked)
               /\ UNCHANGED <<pool, given, fix, faults>>
       IN  IF state.interest <= 0
           THEN Continue(FALSE, auth.checked) /\ UNCHANGED <<queue, pool, given, fix, faults>>
           ELSE IF state.count = 0 THEN Unpaid_("collection_failed")
           ELSE IF division.status = "no_eligible_savings" THEN Unpaid_("no_eligible_savings")
           ELSE IF division.status # "success" THEN Unpaid_("allocation_overflow")
           ELSE IF Total(entries) # state.interest * PopMoneyScale THEN Unpaid_("conservation_failed")
           ELSE \E o \in ApplyStateInterestPayout(state, entries) :
               LET result == ApplyInterestPayout(o)
                   disabled == IsUnsafeAppliedPopInterestFailure(result, o.written # 0)
               IN  /\ Faulty(o)
                   /\ given' = [given EXCEPT ![state.state] = @ + Total(SubSeq(entries, 1, o.written))]
                   /\ pool' = IF o.emptied THEN [pool EXCEPT ![state.state] = 0] ELSE pool
                   /\ Publish(Result(IF result = "success" THEN "paid"
                                     ELSE MutationFixStatus(result, o.written # 0),
                                     state.state, Total(entries), o.written, o.verified))
                   /\ fix' = [fix EXCEPT !.disabled = @ \/ (result # "success" /\ disabled)]
                   /\ Continue(fix'.disabled, CheckSignature)
    /\ UNCHANGED <<heap, unreadable, readonly, signature, slot, worker, stop, fresh, days, loads,
                   pass, loaderVars>>

Callback == Initialize \/ CollectStates \/ Prepare \/ PayStatePool
-----------------------------------------------------------------------------
(***************************************************************************)
(* Load and Unload, on the loader's thread.                                *)
(***************************************************************************)
FixLoads == loader.at = "load" /\ Here = Fix

\* AcquireServices: registering is the last thing that can fail.
AcquireServices ==
    /\ FixLoads /\ worker = "none"
    /\ \/ slot = "free" /\ slot' = "active" /\ UNCHANGED loaderVars
       \/ slot = "free" /\ LoadReturns(FALSE) /\ UNCHANGED slot
    /\ UNCHANGED <<gameVars, fix, auth, call, resultVars, ghostVars, bounds, pass>>

\* The flags are set, and the worker started, when the callback may already run.
StartWorker ==
    /\ FixLoads /\ slot = "active" /\ worker = "none"
    /\ fix' = [initialized |-> FALSE, disabled |-> FALSE] /\ stop' = FALSE
    /\ worker' \in {"runs", "failed"}
    /\ UNCHANGED <<gameVars, slot, auth, call, queue, ghostVars, bounds, pass, loaderVars>>

\* A Load that could not start the worker has undone its registration.
LoadDone ==
    /\ FixLoads
    /\ \/ worker = "runs" /\ LoadReturns(TRUE)
       \/ worker = "unused" /\ LoadReturns(FALSE)
    /\ UNCHANGED <<gameVars, pluginVars, resultVars, ghostVars, bounds, pass>>

\* State::Unload runs when a started plugin is stopped and when Load threw.
Unloading ==
    \/ loader.at = "unload" /\ plug[Fix] = "unloading"
    \/ FixLoads /\ worker = "failed"

\* Mutant of the next: a callback that runs is not waited for.
Unregister_NoWait ==
    /\ Unloading /\ slot = "active" /\ slot' = "free"
    /\ UNCHANGED <<gameVars, fix, auth, call, resultVars, ghostVars, bounds, pass, loaderVars>>

\* Nothing is dispatched any more, and a callback that runs is waited for.
Unregister ==
    /\ Unloading
    /\ \/ slot = "active" /\ slot' = "removing"
       \/ slot = "removing" /\ call.at = "idle" /\ slot' = "free"
    /\ UNCHANGED <<gameVars, fix, auth, call, resultVars, ghostVars, bounds, pass, loaderVars>>

\* The worker is told to stop, and joined if there is one.
Join ==
    /\ Unloading /\ slot = "free"
    /\ \/ ~stop /\ stop' = TRUE /\ worker' = (IF worker = "failed" THEN "unused" ELSE worker)
          /\ UNCHANGED loaderVars
       \/ stop /\ worker = "ended" /\ UnloadReturns /\ UNCHANGED <<stop, worker>>
    /\ UNCHANGED <<gameVars, pluginVars, queue, ghostVars, bounds, pass>>

\* What the other plugins do is not modelled, and an instance of this one that
\* was never loaded has nothing to unload.
OthersReturn ==
    /\ \/ loader.at = "load" /\ Here # Fix /\ \E success \in BOOLEAN : LoadReturns(success)
       \/ loader.at = "unload" /\ Here # Fix /\ UnloadReturns
       \/ loader.at = "cleanup" /\ UnloadReturns
    /\ UNCHANGED <<gameVars, pluginVars, resultVars, ghostVars, bounds, pass>>

-----------------------------------------------------------------------------
\* WriteResults: what the queue holds is logged, until it is told to stop.
WriteResults ==
    /\ worker = "runs"
    /\ IF queue # <<>> THEN queue' = Tail(queue) /\ UNCHANGED worker
       ELSE stop /\ worker' = "ended" /\ UNCHANGED queue
    /\ UNCHANGED <<gameVars, pluginVars, stop, ghostVars, bounds, pass, loaderVars>>

LoaderActs == LoaderStep /\ UNCHANGED <<gameVars, pluginVars, resultVars, ghostVars, bounds, pass>>

FixNext ==
    \/ StartPass \/ DispatchBefore \/ Distribute \/ DispatchAfter \/ NextCountry
    \/ LoadSave \/ Damage
    \/ Initialize \/ CollectStates \/ Prepare \/ PayStatePool
    \/ AcquireServices \/ StartWorker \/ LoadDone \/ Unregister \/ Join \/ OthersReturn
    \/ WriteResults \/ LoaderActs

FixSpec == FixInit /\ [][FixNext]_fixVars
-----------------------------------------------------------------------------
SumOver(f) == MapThenSumSet(LAMBDA s : f[s], States)

(***************************************************************************)
(* OnlyFreshIsPaid.  POPs are paid only what their state's pool received   *)
(* in this very bank pass, and only once: never a pool that was saved with *)
(* the game, left over from a day whose cleanup or payment failed, or      *)
(* already paid in part (Initialize and the flags it sets, PayStatePool    *)
(* and the failures that end a pass).                                      *)
(***************************************************************************)
OnlyFreshIsPaid ==
    \A s \in States : given'[s] \notin {0, given[s]} => given[s] = 0 /\ pool[s] = fresh[s]

(***************************************************************************)
(* ReportIsTrue.  A result says what happened to the money: "paid" that    *)
(* the whole pool reached the POPs, each payment verified, and the pool is *)
(* empty; "initialized" that every country's pools are empty and how much  *)
(* they held; any failure but "partial_mutation" that nothing was touched  *)
(* (MutationFixStatus, InterestResult, and the write counts they are       *)
(* given).                                                                 *)
(***************************************************************************)
ReportIsTrue ==
    Len(queue') > Len(queue) =>
        LET r == Last(queue')
        IN  /\ r.status = "paid" =>
                   /\ given' = [given EXCEPT ![r.state] = @ + r.payout]
                   /\ r.payout = pool[r.state] * PopMoneyScale
                   /\ pool' = [pool EXCEPT ![r.state] = 0] /\ r.paid = r.verified
            /\ r.status = "initialized" =>
                   /\ \A c \in 1 .. heap.countries - 1 : \A i \in DOMAIN Listed(c) : pool'[Listed(c)[i]] = 0
                   /\ r.payout = SumOver(pool) - SumOver(pool') /\ given' = given
            /\ r.status \notin {"paid", "initialized", "partial_mutation"} =>
                   given' = given /\ pool' = pool

(***************************************************************************)
(* The money: what is paid is the day's own, once, and what is reported of *)
(* it is what happened, in every bank pass over every game.                *)
(***************************************************************************)
PaymentsAreSound == [][OnlyFreshIsPaid /\ ReportIsTrue]_fixVars

(***************************************************************************)
(* NothingLeftBehind.  No callback enters a plugin that is not there; when *)
(* the loader gave up every plugin it created is destroyed and this one's  *)
(* registration, callback and thread are gone, whichever plugin failed and *)
(* at which step; and the thread has ended only when every result that was *)
(* queued is written (LoadPlugins' rollback, Load's catch, Unload).        *)
(***************************************************************************)
NothingLeftBehind ==
    /\ call.at # "idle" => plug[Fix] \in {"loading", "started", "unloading"} /\ slot # "free"
    /\ worker = "ended" => queue = <<>> /\ slot = "free"
    /\ loader.at = "failed" =>
           /\ \A p \in Names : plug[p] \in {"absent", "destroyed"}
           /\ slot = "free" /\ worker \in {"none", "unused", "ended"}
    /\ \A i, j \in DOMAIN Plugins : i < j /\ plug[Plugins[j]] \notin {"absent", "destroyed"}
           => plug[Plugins[i]] = "started"

(***************************************************************************)
(* AllocationIsFair.  Whatever a pool holds and however many POPs have     *)
(* savings, a division is exact in sum, monotone in the savings and fails  *)
(* only when it must (AllocateInterest; it has no state, and is looked at  *)
(* before the loader's first step).                                        *)
(***************************************************************************)
AllocationIsFair == loader.at = "identity" => DivisionIsFair
-----------------------------------------------------------------------------
(* The inductive invariant behind NothingLeftBehind.                       *)

\* What the loader has called of this plugin says what there is of it: its
\* registration, and the thread that writes its results.
FixInOrder ==
    /\ plug[Fix] = "absent" => slot = "free" /\ worker = "none"
    /\ plug[Fix] = "loading" =>
           /\ worker \in {"none", "runs", "failed", "unused"}
           /\ worker = "none" => slot \in {"free", "active"}
           /\ worker = "runs" => slot = "active"
           /\ worker = "unused" => slot = "free"
    /\ plug[Fix] = "started" => worker = "runs" /\ slot = "active"
    /\ plug[Fix] = "unloading" =>
           IF loader.at = "cleanup" THEN slot = "free" /\ worker \in {"none", "unused"}
           ELSE worker \in {"runs", "ended"}
    /\ plug[Fix] = "destroyed" => slot = "free" /\ worker \in {"none", "unused", "ended"}

\* A callback runs in a registration, the thread is told to stop when there is
\* none any more, and stops when the results are written.
WorkerInOrder ==
    /\ slot \in {"free", "active", "removing"} /\ stop \in BOOLEAN
    /\ call.at # "idle" => slot # "free"
    /\ stop => slot = "free" /\ worker # "none"
    /\ worker = "ended" => stop /\ queue = <<>>

FixInv == LoaderInOrder /\ FixInOrder /\ WorkerInOrder

-----------------------------------------------------------------------------
(* The inductive invariant behind PaymentsAreSound.                        *)

PassTypes ==
    /\ heap \in Worlds /\ pool \in [States -> Nat] /\ fresh \in [States -> Nat]
    /\ given = [s \in States |-> given[s]]
    /\ fix \in [initialized : BOOLEAN, disabled : BOOLEAN]
    /\ pass \in [at : {"idle", "before", "distribute", "after", "after_nothing", "next"}, country : Nat]
    /\ pass.at # "idle" => pass.country < heap.countries
    /\ DOMAIN call = {"at", "after", "states", "pops", "next"} /\ call.next \in Nat
    /\ queue \in Seq(ToSet(queue))

\* When the plugin is called, and that it was initialized only when it was.
CallInOrder ==
    /\ call.at \in {"idle", "initialize", "collect", "collect_pops", "prepare", "pay"}
    /\ call.at # "pay" => call.next = 0
    /\ call.at = "initialize" => pass = [at |-> "distribute", country |-> 0]
    /\ call.at \in {"collect", "collect_pops", "prepare", "pay"} => pass.at = "next"
    /\ call.at # "idle" => /\ DOMAIN auth = {"country", "bank", "after", "states", "pops", "prepared", "checked"}
                           /\ auth.country \in {pass.country, None}
    /\ fix.initialized => ~(worker = "none" /\ slot = "free")
    /\ fix.initialized \/ call.at # "idle" => hooks # {}

\* A state of which nothing but this pass's interest is in the pool.
Untouched(s) == pool[s] = fresh[s] /\ given[s] = 0

\* Nothing of a pass is there before its first country has had its turn.
PassBegins ==
    pass.at = "idle" \/ (pass.country = 0 /\ pass.at \in {"before", "distribute"}) =>
        fresh = Zero /\ given = Zero

\* Once the pools were emptied, and as long as the plugin can be called: the
\* states of the countries still to be paid are untouched, and of one country each.
Pending(c) == c > pass.country \/ (c = pass.country /\ pass.at # "next")
Swept ==
    /\ fix.initialized /\ slot = "active" /\ pass.at # "idle" /\ call.at # "initialize"
    /\ ~(pass.at = "before" /\ pass.country = 0)
PoolsAreSwept ==
    Swept => \A c \in 0 .. heap.countries - 1 :
                 /\ Pending(c) => \A s \in ToSet(Listed(c)) : Untouched(s)
                 /\ \A d \in 0 .. heap.countries - 1 :
                        c # d => ToSet(Listed(c)) \cap ToSet(Listed(d)) = {}

\* While a country is being paid: its states from the next one on are untouched.
PayingInOrder ==
    /\ call.at \in {"collect", "collect_pops"} => \A s \in ToSet(Listed(pass.country)) : Untouched(s)
    /\ call.at \in {"prepare", "pay"} =>
           /\ call.states \in Seq(ToSet(call.states))
           /\ \A i \in DOMAIN call.states :
                  /\ call.states[i].state \in ToSet(Listed(pass.country)) /\ call.states[i].count \in Nat
                  /\ i >= call.next => Untouched(call.states[i].state)
                  /\ \A j \in DOMAIN call.states : call.states[i].state = call.states[j].state => i = j
    /\ call.at = "pay" => call.next \in DOMAIN call.states

MoneyInv == PassTypes /\ CallInOrder /\ PassBegins /\ PoolsAreSwept /\ PayingInOrder
=============================================================================
