---------------------------- MODULE CanaryInputs ----------------------------
(***************************************************************************)
(* The inputs of the replica arithmetic: the weight of a rollout goes up   *)
(* from 0 to 100, percent by percent, for any number of replicas and any   *)
(* surge.  The properties say what the rounding must promise.  In each of  *)
(* these states, the specs that RawSpecs makes of the three numbers go     *)
(* through the validation.                                                 *)
(***************************************************************************)
EXTENDS CanaryMathProperties, RolloutValidation

CONSTANTS
    MaxReplicas,    \* bound on spec.replicas
    Surges          \* the values of maxSurge

ASSUME InputsAssumption == MaxReplicas \in Nat /\ Surges \subseteq Nat

VARIABLES replicas, weight, surge

vars == <<replicas, weight, surge>>

Init == replicas \in 1..MaxReplicas /\ surge \in Surges /\ weight = 0

RaiseWeight == weight < 100 /\ weight' = weight + 1 /\ UNCHANGED <<replicas, surge>>

Spec == Init /\ [][RaiseWeight]_vars

\* The types of the inputs and of the result: never more new pods than replicas.
MathTypeOK == weight \in 0..100 /\ New(replicas, weight, surge) \in 0..replicas

\* No other number of new pods is strictly closer to the weight, of any total,
\* unless the code finds no number at all.
ClosestToWeight == NoOption(replicas, weight, surge) \/ IsClosest(replicas, weight, surge)

\* With a weight other than 0 and 100, and more than one replica, there are new
\* pods and there are old ones.
BothGetPods == NoOption(replicas, weight, surge) \/ GivesBothPods(replicas, weight, surge)

\* A later step with a greater weight never asks for fewer new pods.
GreaterWeightNeverShrinks ==
    [][\/ NoOption(replicas, weight', surge)
       \/ NeverShrinks(replicas, weight, weight', surge)]_vars

-----------------------------------------------------------------------------
\* A limit that is not set, or in each of its forms.
Limits(value) == {Nil} \cup {Limit(f, value) : f \in {"int", "percent", "number", "text"}}

RawSteps == [weight : {Nil, weight - 1, weight + 1}, scale : {Nil, 1},
             pause : {Nil, RawPause(FALSE, 0), RawPause(TRUE, -1), RawPause(TRUE, 0)}]

\* Every number is out of its range in some states, and not in the same ones:
\* the step's weight at 0 and 100, for instance, and minReadySeconds at 20.
RawSpecs ==
    [replicas : {Nil, replicas - 2}, minReadySeconds : {580 + replicas},
     revisionHistoryLimit : {weight + 1 - replicas}, surge : Limits(surge),
     unavailable : Limits(weight - 1), steps : {<<s>> : s \in RawSteps}]

\* A weight that the user set beside a setCanaryScale.
HasScaledWeight(step) == step.weight # Nil /\ step.scale # Nil

\* The arithmetic and the pass are modelled for this spec: no size below zero,
\* and steps that are each a weight within 0..100 or a pause.  The pass can
\* complete a step, unless it is a weight with a setCanaryScale: a rollout gets
\* stuck in that one, which is accepted, and in no other.
IsModelled(raw) ==
    /\ Accepted(raw).replicas \in Nat
    /\ \A i \in DOMAIN raw.steps :
           /\ Accepted(raw).steps[i] \in CanaryStep
           /\ CanBeCompleted(raw.steps[i]) <=> ~HasScaledWeight(raw.steps[i])
    /\ LimitsAreWellFormed(raw) =>
           /\ {Accepted(raw).surge, Accepted(raw).unavailable} \subseteq IntOrString
           /\ Accepted(raw).surge.value + Accepted(raw).unavailable.value > 0

\* Room for one pod more or for one pod less than the replicas.
HasRoom(raw) ==
    Accepted(raw).replicas > 0 =>
        MaxSurge(Accepted(raw)) > 0 \/ MaxUnavailable(Accepted(raw)) > 0

\* Every spec that is accepted, defaults included, is one of the model's.
AcceptedSpecsAreModelled == \A raw \in {r \in RawSpecs : ValidateRolloutSpec(r)} : IsModelled(raw)

\* Well-formed limits that are accepted leave room, whatever rounding does to
\* percentages: a rollout is never stuck.  The default maxSurge, "1", is one per
\* cent and rounded up.
LimitsMakeRoom ==
    \A raw \in {r \in RawSpecs : ValidateRolloutSpec(r) /\ LimitsAreWellFormed(r)} : HasRoom(raw)
=============================================================================
