--------------------------- MODULE ScriptSchedule ---------------------------
(***************************************************************************)
(* One Lua script on the scripting worker (Runtime::Script): its on_daily  *)
(* callback, the callbacks it scheduled with smedley.after_days, and the   *)
(* error limit that disables it.  All of it runs on the worker's thread;   *)
(* what is hard is that callbacks schedule callbacks while the list of     *)
(* them is being walked and shortened.                                     *)
(***************************************************************************)
EXTENDS Integers, Sequences, FiniteSets

CONSTANTS
  ErrorLimit,     \* kScriptErrorLimit
  MaxScheduled,   \* kMaxScheduledCallbacks
  MaxDays,        \* the most days after_days is called with
  MaxDate,        \* bound of the checks on dates, in days
  MaxCallbacks    \* bound of the checks on callbacks ever scheduled

ASSUME ScheduleAssumption ==
  /\ ErrorLimit \in Nat \ {0} /\ MaxScheduled \in Nat /\ MaxDays \in Nat \ {0}
  /\ MaxDate \in Nat /\ MaxCallbacks \in Nat

Dates == 0 .. MaxDate
Ids   == 1 .. MaxCallbacks

VARIABLES
  scheduled,   \* sequence of [target, id]: target_date_raw and the Lua reference
  errors, disabled,
  pc,          \* "idle", "daily": in on_daily, "walk": between callbacks, "due": in one
  index,       \* the walk's position
  running,     \* the scheduled callback that is running
  date,        \* current_event
  ids,         \* history: callbacks ever scheduled
  finished     \* history: callbacks that have run, with the date they ran on

scheduleVars == <<scheduled, errors, disabled, pc, index, running, date, ids, finished>>

Entries == [target : 1 .. MaxDate + MaxDays, id : Ids]

ScheduleType ==
  /\ scheduled \in Seq(Entries) /\ Len(scheduled) <= MaxScheduled
  /\ errors \in 0 .. ErrorLimit
  /\ disabled \in BOOLEAN
  /\ pc \in {"idle", "daily", "walk", "due"}
  /\ index \in 1 .. MaxScheduled + 1
  /\ running \in Entries \cup {[target |-> 0, id |-> 0]}
  /\ date \in Dates
  /\ ids \subseteq Ids
  /\ finished \subseteq [target : 1 .. MaxDate + MaxDays, id : Ids, date : Dates]

Idle == [target |-> 0, id |-> 0]

ScheduleInit ==
  /\ scheduled = <<>>
  /\ errors = 0
  /\ disabled = FALSE
  /\ pc = "idle" /\ index = 1 /\ running = Idle
  /\ date = 0
  /\ ids = {} /\ finished = {}

\* An event reaches the script: one event per country and day, so a date
\* comes more than once, and an earlier one after a save is loaded.
Event(d) ==
  /\ pc = "idle"
  /\ ~disabled
  /\ pc' = "daily"
  /\ date' = d
  /\ UNCHANGED <<scheduled, errors, disabled, index, running, ids, finished>>

\* smedley.after_days(days, f) in on_daily or in a scheduled callback.
AfterDays(days) ==
  /\ pc \in {"daily", "due"}
  /\ Len(scheduled) < MaxScheduled
  /\ Cardinality(ids) < MaxCallbacks
  /\ ids' = ids \cup {Cardinality(ids) + 1}
  /\ scheduled' = Append(scheduled, [target |-> date + days, id |-> Cardinality(ids) + 1])
  /\ UNCHANGED <<errors, disabled, pc, index, running, date, finished>>

\* Fail: one more error, and the limit disables the script.
CountError ==
  /\ errors' = errors + 1
  /\ disabled' = (errors' >= ErrorLimit)

NoError == UNCHANGED <<errors, disabled>>

\* A callback succeeds or fails.
CountsOrNot == NoError \/ CountError

\* on_daily returns; a script disabled by it runs nothing more.
DailyReturns ==
  /\ pc = "daily"
  /\ CountsOrNot
  /\ pc' = IF disabled' THEN "idle" ELSE "walk"
  /\ index' = 1
  /\ UNCHANGED <<scheduled, running, date, ids, finished>>

InWalk == pc = "walk" /\ ~disabled /\ index <= Len(scheduled)

\* Not due yet: ++index.
SkipCallback ==
  /\ InWalk
  /\ scheduled[index].target > date
  /\ index' = index + 1
  /\ UNCHANGED <<scheduled, errors, disabled, pc, running, date, ids, finished>>

RemoveAt(s, i) == SubSeq(s, 1, i - 1) \o SubSeq(s, i + 1, Len(s))

\* Fault: the index moves past the entry that took the erased one's place.
RunCallback_SkipsNext ==
  /\ InWalk
  /\ scheduled[index].target <= date
  /\ pc' = "due"
  /\ running' = scheduled[index]
  /\ scheduled' = RemoveAt(scheduled, index)
  /\ index' = index + 1
  /\ UNCHANGED <<errors, disabled, date, ids, finished>>

\* Due: erased before it runs, so the index now names the next one.
RunCallback ==
  /\ InWalk
  /\ scheduled[index].target <= date
  /\ pc' = "due"
  /\ running' = scheduled[index]
  /\ scheduled' = RemoveAt(scheduled, index)
  /\ UNCHANGED <<errors, disabled, index, date, ids, finished>>

CallbackReturns ==
  /\ pc = "due"
  /\ CountsOrNot
  /\ pc' = "walk"
  /\ finished' = finished \cup {[target |-> running.target, id |-> running.id, date |-> date]}
  /\ running' = Idle
  /\ UNCHANGED <<scheduled, index, date, ids>>

WalkEnds ==
  /\ pc = "walk"
  /\ disabled \/ index > Len(scheduled)
  /\ pc' = "idle"
  /\ index' = 1
  /\ UNCHANGED <<scheduled, errors, disabled, running, date, ids, finished>>

ScheduleNext ==
  \/ \E d \in Dates : Event(d)
  \/ \E days \in 1 .. MaxDays : AfterDays(days)
  \/ DailyReturns \/ SkipCallback \/ RunCallback \/ CallbackReturns \/ WalkEnds

ScheduleSpec == ScheduleInit /\ [][ScheduleNext]_scheduleVars

-----------------------------------------------------------------------------
InList == {scheduled[i].id : i \in 1 .. Len(scheduled)}
InHand == {running.id} \ {0}
HasRun == {f.id : f \in finished}

\* Every scheduled callback is in the list or running or has run once, on a
\* date its target allows.
EachRunsOnce ==
  /\ ids = InList \cup InHand \cup HasRun
  /\ Len(scheduled) + Cardinality(InHand) + Cardinality(finished) = Cardinality(ids)
  /\ \A f \in finished : f.target <= f.date

\* While callbacks schedule callbacks none is lost, run twice or run early, the
\* error limit holds, and an event leaves none waiting that was due on its date,
\* unless the script was disabled.
ScheduleIsKept ==
  [][/\ ScheduleType' /\ EachRunsOnce'
     /\ pc = "walk" /\ pc' = "idle" /\ ~disabled =>
          \A i \in 1 .. Len(scheduled) : scheduled[i].target > date]_scheduleVars

-----------------------------------------------------------------------------
(* What the proof of ScheduleIsKept needs besides (ScriptingProofs).       *)

\* Ids are given out in order, and each is in one place only.
IdsInOnePlace ==
  /\ ids = 1 .. Cardinality(ids) /\ Cardinality(ids) <= MaxCallbacks
  /\ \A i, j \in 1 .. Len(scheduled) : scheduled[i].id = scheduled[j].id => i = j
  /\ InList \cap InHand = {} /\ InList \cap HasRun = {} /\ InHand \cap HasRun = {}
  /\ IsFiniteSet(finished)

\* A script past its limit runs nothing; a callback in hand is due.
LimitHolds ==
  /\ disabled <=> errors >= ErrorLimit
  /\ pc \in {"daily", "due"} => ~disabled
  /\ pc = "due" <=> running # Idle
  /\ pc = "due" => running.target <= date

\* What the walk has passed was not due, whatever was erased or appended since.
NonePassedWasDue ==
  pc \in {"walk", "due"} =>
    \A i \in 1 .. Len(scheduled) : i < index => scheduled[i].target > date

ScheduleInv == ScheduleType /\ EachRunsOnce /\ IdsInOnePlace /\ LimitHolds /\ NonePassedWasDue

=============================================================================
