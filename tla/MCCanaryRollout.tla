-------------------------- MODULE MCCanaryRollout --------------------------
(***************************************************************************)
(* Small instances of CanaryRollout for TLC: the step plans, surges and    *)
(* unavailabilities that the configurations choose from.                   *)
(***************************************************************************)
EXTENDS CanaryRolloutClaims, TLC

CONSTANTS v1, v2, v3

HalfOnly      == <<SetWeight(50)>>
HalfThenPause == <<SetWeight(50), Pause(FALSE)>>
ThreeSteps    == <<SetWeight(50), Pause(FALSE), SetWeight(100)>>
PauseFirst    == <<Pause(TRUE), SetWeight(50)>>

NoPause       == {HalfOnly}
OnePlan       == {HalfThenPause}
BothPauses    == {<<SetWeight(50), Pause(TRUE), Pause(FALSE)>>}
SeveralPlans  == {ThreeSteps, PauseFirst, <<>>}

ZeroPods == Count(0)
OnePod   == Count(1)
Half     == Percent(50)

\* v2 and v3 are alike when only v1 may be deployed.  Revisions and orders of
\* creation are distinct, so that no choice of a ReplicaSet looks at its template.
NewTemplates == Permutations({v2, v3})
=============================================================================
