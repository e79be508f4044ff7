----------------------- MODULE MCRolloutReplicaSets -----------------------
(***************************************************************************)
(* Two templates, v1 first.  Another rollout's ReplicaSet has the name     *)
(* that v2 would get first.                                                *)
(***************************************************************************)
EXTENDS RolloutReplicaSets

CONSTANTS v1, v2, a0, a1, a2, a3, a4, b0, b1, b2, b3, b4

MCHash == [x \in {v1, v2} \X (0..4) |->
              IF x[1] = v1 THEN <<a0, a1, a2, a3, a4>>[x[2] + 1]
                           ELSE <<b0, b1, b2, b3, b4>>[x[2] + 1]]

\* Canary pods are marked.  What v2 gets when it is created goes when it is stable.
MCMetadata == {[canary |-> [track |-> "beta"], stable |-> None]}
=============================================================================
