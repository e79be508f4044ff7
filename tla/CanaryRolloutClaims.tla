------------------------- MODULE CanaryRolloutClaims -------------------------
(***************************************************************************)
(* What the README and the comments of the repository say of the canary    *)
(* controller and the code does not do.  Each claim is checked by a run of *)
(* its own that ends in a counterexample; CanaryRolloutProperties has what *)
(* does hold in its place.                                                 *)
(***************************************************************************)
EXTENDS CanaryRolloutProperties

\* README.md:20: scaling down never leaves fewer than spec.replicas -
\* maxUnavailable pods available.  Pods that an earlier pass has given up are
\* counted as available until they are gone.
ScaleDownKeepsMinAvailable ==
    [][(\E t \in Templates : ScaledDown(t)) /\ AvailableEnough(ctx)
        => SurvivingPods(rss') >= MinAvailable(ctx.spec)]_vars

\* pause.go:90: the user's removal of the pause condition, then of
\* spec.paused, completes the pause step: the same step does not pause again.
\* A pass in between forgets that the controller had paused.
ResumeCompletesPause ==
    [][resumed /\ status'.stepIndex = status.stepIndex
               /\ status'.podHash = status.podHash /\ status'.stepHash = status.stepHash
        => ~(~status.pauseCondition /\ status'.pauseCondition)]_vars
=============================================================================
