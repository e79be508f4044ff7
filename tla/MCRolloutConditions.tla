------------------------ MODULE MCRolloutConditions ------------------------
(***************************************************************************)
(* Small instances of RolloutConditions for TLC.                           *)
(***************************************************************************)
EXTENDS RolloutConditions

CONSTANTS v1, v2

WeightThenPause == <<SetWeight(50), Pause(FALSE)>>
=============================================================================
