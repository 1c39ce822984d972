----------------------------- MODULE MCScripting -----------------------------
(***************************************************************************)
(* The scripting plugin for TLC.  A script's list of callbacks and the     *)
(* runtime's threads have no state in common: an instance starts with one  *)
(* of the two and leaves the other at rest.                                *)
(***************************************************************************)
EXTENDS Scripting, ScriptSchedule

MCNext ==
  \/ pc = "idle" /\ ids = {} /\ errors = 0 /\ date = 0 /\ Next /\ UNCHANGED scheduleVars
  \/ mainPc = "start" /\ ScheduleNext /\ UNCHANGED vars

MCInit == Init /\ ScheduleInit

MCSpec == MCInit /\ [][MCNext]_<<vars, scheduleVars>> /\ Fairness
=============================================================================
