------------------------------ MODULE MCRunner ------------------------------
(* Two days from the save to the end of the simulation; every kind of launch. *)
EXTENDS CampaignRunner

Launch(observe, view, paused, quit, days, target, sink) ==
  [observe |-> observe, view |-> view, paused |-> paused, quit |-> quit,
   days |-> days, target |-> target, sink |-> sink]

MCConfigs ==
  {Launch(FALSE, None, TRUE, FALSE, None, None, TRUE),
   Launch(FALSE, None, FALSE, TRUE, 1, None, TRUE),
   Launch(FALSE, None, FALSE, TRUE, None, Start + Day, FALSE),
   Launch(FALSE, None, FALSE, FALSE, None, Start + 1, TRUE),
   Launch(TRUE, 2, FALSE, FALSE, None, None, TRUE),
   Launch(TRUE, None, FALSE, FALSE, 1, None, TRUE)}
=============================================================================
