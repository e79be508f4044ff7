--------------------------- MODULE MCRolloutQueue ---------------------------
(***************************************************************************)
(* A small instance of RolloutQueue for TLC.                               *)
(***************************************************************************)
EXTENDS RolloutQueue

CONSTANTS r1, r2, w1, w2
=============================================================================
