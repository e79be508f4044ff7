-------------------------- MODULE RolloutValidation --------------------------
(***************************************************************************)
(* Which specs of a rollout the controller accepts, and with which         *)
(* defaults it reads them: validation.go and defaults.go.  The checks of   *)
(* the pod template are those of Kubernetes and left out.  A field that is *)
(* not set is Nil.                                                         *)
(***************************************************************************)
EXTENDS CanaryMath

(***************************************************************************)
(* A limit as the user writes it: an int, or a string that is a percentage *)
(* ("25%"), a bare number ("25") or no number at all.                      *)
(***************************************************************************)
Limit(form, value) == [form |-> form, value |-> value]

GetMaxSurgeOrDefault(limit)       == IF limit = Nil THEN Limit("number", 1) ELSE limit
GetMaxUnavailableOrDefault(limit) == IF limit = Nil THEN Limit("number", 0) ELSE limit
GetReplicasOrDefault(replicas)    == IF replicas = Nil THEN 1 ELSE replicas
GetRevisionHistoryLimitOrDefault(limit) == IF limit = Nil THEN 10 ELSE limit

\* Whatever the spec says.
GetProgressDeadlineSecondsOrDefault == 600

\* What does not parse counts as 0 here: text, and a negative percentage.
getIntOrPercentValue(limit) ==
    IF limit.form = "text" \/ (limit.form = "percent" /\ limit.value < 0)
    THEN 0 ELSE limit.value

invalidMaxSurgeMaxUnavailable(surge, unavailable) ==
    /\ getIntOrPercentValue(GetMaxSurgeOrDefault(surge)) = 0
    /\ getIntOrPercentValue(GetMaxUnavailableOrDefault(unavailable)) = 0

(***************************************************************************)
(* A step as the user writes it: a weight, a pause, with or without a      *)
(* duration in seconds, the size of the canary (scale), or several.        *)
(***************************************************************************)
RawPause(timed, seconds) == [timed |-> timed, duration |-> IF timed THEN seconds ELSE 0]

\* The scale does not count as a step type.
hasMultipleStepsType(step) == step.weight # Nil /\ step.pause # Nil

\* Mutant: any weight.
ValidStepOfAnyWeight(step) ==
    /\ ~hasMultipleStepsType(step)
    /\ step.weight # Nil \/ step.pause # Nil
ValidStep(step) ==
    /\ ~hasMultipleStepsType(step)
    /\ step.weight # Nil \/ step.pause # Nil
    /\ step.weight # Nil => step.weight \in 0..100
    /\ step.pause # Nil => step.pause.duration >= 0

ValidateRolloutStrategyCanary(raw) ==
    /\ ~invalidMaxSurgeMaxUnavailable(raw.surge, raw.unavailable)
    /\ \A i \in DOMAIN raw.steps : ValidStep(raw.steps[i])

ValidateRolloutSpec(raw) ==
    /\ GetReplicasOrDefault(raw.replicas) >= 0
    /\ raw.minReadySeconds >= 0
    /\ GetRevisionHistoryLimitOrDefault(raw.revisionHistoryLimit) >= 0
    /\ GetProgressDeadlineSecondsOrDefault > raw.minReadySeconds
    /\ ValidateRolloutStrategyCanary(raw)

\* completedCurrentCanaryStep looks at a pause first, then at a scale, for which
\* it does nothing, then at a weight.
CanBeCompleted(step) == step.pause # Nil \/ (step.scale = Nil /\ step.weight # Nil)

(***************************************************************************)
(* The specs that a user may write: any numbers, with every field that may *)
(* be left out.                                                            *)
(***************************************************************************)
SetLimit == [form : {"int", "percent", "number", "text"}, value : Int]

RawLimit == {Nil} \cup SetLimit

RawStep ==
    [weight : {Nil} \cup Int, scale : {Nil} \cup Int,
     pause : {Nil} \cup [timed : BOOLEAN, duration : Int]]

RawSpec ==
    [replicas : {Nil} \cup Int, minReadySeconds : Int, revisionHistoryLimit : {Nil} \cup Int,
     surge : RawLimit, unavailable : RawLimit, steps : Seq(RawStep)]

-----------------------------------------------------------------------------
(***************************************************************************)
(* How the pass reads what was accepted: as the IntOrString and CanaryStep *)
(* of CanaryMath.                                                          *)
(***************************************************************************)
Parses(limit) == limit.form # "text"

AsIntOrString(limit) == [percent |-> limit.form # "int", value |-> limit.value]

AsStep(step) ==
    IF step.weight # Nil THEN SetWeight(step.weight) ELSE Pause(step.pause.timed)

Accepted(raw) ==
    [replicas    |-> GetReplicasOrDefault(raw.replicas),
     surge       |-> AsIntOrString(GetMaxSurgeOrDefault(raw.surge)),
     unavailable |-> AsIntOrString(GetMaxUnavailableOrDefault(raw.unavailable)),
     steps       |-> [i \in DOMAIN raw.steps |-> AsStep(raw.steps[i])]]

\* The limits that mean something.  The validation lets others pass: with text
\* for maxSurge and 1 for maxUnavailable, both count as 0 in the pass; with -1
\* for maxSurge and 0 for maxUnavailable, both count and add to -1.
LimitsParse(raw) ==
    Parses(GetMaxSurgeOrDefault(raw.surge)) /\ Parses(GetMaxUnavailableOrDefault(raw.unavailable))

LimitsAreNotNegative(raw) ==
    GetMaxSurgeOrDefault(raw.surge).value >= 0 /\ GetMaxUnavailableOrDefault(raw.unavailable).value >= 0

LimitsAreWellFormed(raw) == LimitsParse(raw) /\ LimitsAreNotNegative(raw)
=============================================================================
