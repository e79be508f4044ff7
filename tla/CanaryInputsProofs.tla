-------------------------- MODULE CanaryInputsProofs --------------------------
(***************************************************************************)
(* What the replica arithmetic and the validation promise, for every       *)
(* number of replicas, every surge and every spec that a user may write.   *)
(* The state of CanaryInputs only goes through the weights, so that its    *)
(* properties follow from its types and the theorems of CanaryMathProofs.  *)
(***************************************************************************)
EXTENDS CanaryInputs, CanaryMathProofs

InputsOK == replicas \in Nat \ {0} /\ surge \in Nat /\ weight \in 0..100

\* The three numbers keep their types.
LEMMA InputsKeepTypes == Spec => []InputsOK
<1>1. Init => InputsOK
    BY InputsAssumption DEF Init, InputsOK
<1>2. InputsOK /\ [RaiseWeight]_vars => InputsOK'
    BY DEF InputsOK, RaiseWeight, vars
<1> QED
    BY <1>1, <1>2, PTL DEF Spec

-----------------------------------------------------------------------------
(***************************************************************************)
(* The rounding                                                            *)
(***************************************************************************)
\* Never more new pods than replicas.
THEOREM InputsTypeCorrect == Spec => []MathTypeOK
<1>1. InputsOK => MathTypeOK
    <2> SUFFICES ASSUME InputsOK PROVE MathTypeOK
        OBVIOUS
    <2>1. replicas \in Nat /\ weight \in 0..100 /\ surge \in Nat
        BY DEF InputsOK
    <2>2. New(replicas, weight, surge) \in 0..replicas
        BY <2>1, ApproximationInRange, Zenon DEF New
    <2> QED
        BY <2>1, <2>2 DEF MathTypeOK
<1> QED
    BY <1>1, InputsKeepTypes, PTL

\* No other number of pods is strictly closer to the weight, whenever the code
\* finds an option at all.
THEOREM InputsGiveClosest == Spec => []ClosestToWeight
<1>1. InputsOK => ClosestToWeight
    BY NewIsClosest, Zenon DEF InputsOK, ClosestToWeight
<1> QED
    BY <1>1, InputsKeepTypes, PTL

\* Whenever the code finds an option, both sides get pods at a partial weight.
THEOREM InputsGiveBothPods == Spec => []BothGetPods
<1>1. InputsOK => BothGetPods
    BY OptionGivesBothPods, Zenon DEF InputsOK, BothGetPods
<1> QED
    BY <1>1, InputsKeepTypes, PTL

\* A later step with a greater weight never asks for fewer new pods.
THEOREM InputsNeverShrink == Spec => GreaterWeightNeverShrinks
<1> DEFINE Kept == NoOption(replicas, weight', surge)
                     \/ NeverShrinks(replicas, weight, weight', surge)
<1>1. InputsOK /\ RaiseWeight => Kept
    <2> SUFFICES ASSUME InputsOK, RaiseWeight PROVE Kept
        OBVIOUS
    <2>1. /\ replicas \in Nat /\ surge \in Nat
          /\ weight \in 0..100 /\ weight' \in 0..100 /\ weight <= weight'
        BY DEF InputsOK, RaiseWeight
    <2> QED
        BY <2>1, GreaterWeightNeverAsksForLess, Zenon
<1>2. InputsOK /\ [RaiseWeight]_vars => [Kept]_vars
    BY <1>1
<1> QED
    BY <1>2, InputsKeepTypes, PTL DEF Spec, GreaterWeightNeverShrinks, Kept

-----------------------------------------------------------------------------
(***************************************************************************)
(* The validation                                                          *)
(***************************************************************************)
\* The specs of the run are specs that a user may write.
LEMMA RawSpecsAreRaw ==
    ASSUME InputsOK
    PROVE  RawSpecs \subseteq RawSpec
<1>1. weight \in Int /\ replicas \in Int /\ surge \in Int
    BY DEF InputsOK
<1>2. Limits(surge) \subseteq RawLimit /\ Limits(weight - 1) \subseteq RawLimit
    BY <1>1 DEF Limits, Limit, RawLimit, SetLimit
<1>3. RawSteps \subseteq RawStep
    <2>1. {RawPause(FALSE, 0), RawPause(TRUE, -1), RawPause(TRUE, 0)}
              \subseteq [timed : BOOLEAN, duration : Int]
        BY DEF RawPause
    <2>2. /\ {Nil, weight - 1, weight + 1} \subseteq {Nil} \cup Int
          /\ {Nil, 1} \subseteq {Nil} \cup Int
        BY <1>1
    <2> QED
        BY <2>1, <2>2, Zenon DEF RawSteps, RawStep
<1>4. {<<s>> : s \in RawSteps} \subseteq Seq(RawStep)
    <2> HIDE DEF RawSteps, RawStep
    <2>1. \A s \in RawStep : <<s>> \in Seq(RawStep)
        OBVIOUS
    <2> QED
        BY <1>3, <2>1
<1> QED
    BY <1>1, <1>2, <1>4 DEF RawSpecs, RawSpec

\* A limit, or its default, that parses and is not negative is read as it is
\* written, and counts as much as the validation takes it for.
LEMMA LimitIsRead ==
    ASSUME NEW limit \in SetLimit, Parses(limit), limit.value >= 0
    PROVE  AsIntOrString(limit) \in IntOrString
           /\ AsIntOrString(limit).value = getIntOrPercentValue(limit)
BY DEF SetLimit, Parses, AsIntOrString, IntOrString, getIntOrPercentValue

\* An accepted spec has limits that are numbers, and not both zero.
LEMMA AcceptedLimits ==
    ASSUME NEW raw \in RawSpec, ValidateRolloutSpec(raw), LimitsAreWellFormed(raw)
    PROVE  /\ Accepted(raw).surge \in IntOrString
           /\ Accepted(raw).unavailable \in IntOrString
           /\ Accepted(raw).surge.value + Accepted(raw).unavailable.value > 0
<1> DEFINE s == GetMaxSurgeOrDefault(raw.surge)
           u == GetMaxUnavailableOrDefault(raw.unavailable)
<1>1. s \in SetLimit
    BY DEF RawSpec, RawLimit, SetLimit, GetMaxSurgeOrDefault, Limit
<1>2. u \in SetLimit
    BY DEF RawSpec, RawLimit, SetLimit, GetMaxUnavailableOrDefault, Limit
<1>3. Parses(s) /\ s.value >= 0 /\ Parses(u) /\ u.value >= 0
    BY DEF LimitsAreWellFormed, LimitsParse, LimitsAreNotNegative
<1>4. ~(getIntOrPercentValue(s) = 0 /\ getIntOrPercentValue(u) = 0)
    BY DEF ValidateRolloutSpec, ValidateRolloutStrategyCanary, invalidMaxSurgeMaxUnavailable
<1>5. Accepted(raw).surge = AsIntOrString(s) /\ Accepted(raw).unavailable = AsIntOrString(u)
    BY DEF Accepted
<1> HIDE DEF s, u
<1>6. AsIntOrString(s) \in IntOrString /\ AsIntOrString(s).value = getIntOrPercentValue(s)
    BY <1>1, <1>3, LimitIsRead
<1>7. AsIntOrString(u) \in IntOrString /\ AsIntOrString(u).value = getIntOrPercentValue(u)
    BY <1>2, <1>3, LimitIsRead
<1>8. getIntOrPercentValue(s) \in Nat /\ getIntOrPercentValue(u) \in Nat
    BY <1>6, <1>7 DEF IntOrString
<1> QED
    BY <1>4, <1>5, <1>6, <1>7, <1>8

\* An accepted spec has a size.
LEMMA AcceptedReplicas ==
    ASSUME NEW raw \in RawSpec, ValidateRolloutSpec(raw)
    PROVE  Accepted(raw).replicas \in Nat
<1>1. raw.replicas \in {Nil} \cup Int
    BY DEF RawSpec
<1> QED
    BY <1>1 DEF Accepted, ValidateRolloutSpec, GetReplicasOrDefault

\* A step that is accepted is a weight or a pause; only a weight with a scale
\* cannot be completed.
LEMMA AcceptedStep ==
    ASSUME NEW step \in RawStep, ValidStep(step)
    PROVE  AsStep(step) \in CanaryStep /\ (CanBeCompleted(step) <=> ~HasScaledWeight(step))
<1>1. CASE step.weight # Nil
    <2>1. step.weight \in 0..100 /\ step.pause = Nil
        BY <1>1 DEF ValidStep, hasMultipleStepsType
    <2> QED
        BY <1>1, <2>1 DEF AsStep, SetWeight, CanaryStep, CanBeCompleted, HasScaledWeight
<1>2. CASE step.weight = Nil
    <2>1. step.pause # Nil
        BY <1>2 DEF ValidStep
    <2>2. step.pause.timed \in BOOLEAN
        BY <2>1 DEF RawStep
    <2>3. 0 \in 0..100
        OBVIOUS
    <2> QED
        BY <1>2, <2>1, <2>2, <2>3 DEF AsStep, Pause, CanaryStep, CanBeCompleted, HasScaledWeight
<1> QED
    BY <1>1, <1>2

\* Every spec that a user may write and the validation accepts is one that the
\* arithmetic and the pass are modelled for.
THEOREM EveryAcceptedSpecIsModelled ==
    ASSUME NEW raw \in RawSpec, ValidateRolloutSpec(raw)
    PROVE  IsModelled(raw)
<1>1. Accepted(raw).replicas \in Nat
    BY AcceptedReplicas
<1>2. ASSUME NEW i \in DOMAIN raw.steps
      PROVE  /\ Accepted(raw).steps[i] \in CanaryStep
             /\ CanBeCompleted(raw.steps[i]) <=> ~HasScaledWeight(raw.steps[i])
    <2>1. raw.steps[i] \in RawStep
        <3>1. raw.steps \in Seq(RawStep)
            BY DEF RawSpec
        <3> QED
            BY <1>2, <3>1
    <2>2. ValidStep(raw.steps[i])
        BY <1>2, Zenon DEF ValidateRolloutSpec, ValidateRolloutStrategyCanary
    <2>3. Accepted(raw).steps[i] = AsStep(raw.steps[i])
        BY <1>2 DEF Accepted
    <2> QED
        BY <2>1, <2>2, <2>3, AcceptedStep
<1>3. LimitsAreWellFormed(raw) =>
          /\ {Accepted(raw).surge, Accepted(raw).unavailable} \subseteq IntOrString
          /\ Accepted(raw).surge.value + Accepted(raw).unavailable.value > 0
    <2> SUFFICES ASSUME LimitsAreWellFormed(raw)
                 PROVE  /\ {Accepted(raw).surge, Accepted(raw).unavailable} \subseteq IntOrString
                        /\ Accepted(raw).surge.value + Accepted(raw).unavailable.value > 0
        OBVIOUS
    <2>1. /\ Accepted(raw).surge \in IntOrString
          /\ Accepted(raw).unavailable \in IntOrString
          /\ Accepted(raw).surge.value + Accepted(raw).unavailable.value > 0
        BY AcceptedLimits
    <2> QED
        BY <2>1
<1> QED
    BY <1>1, <1>2, <1>3, Zenon DEF IsModelled

\* Every accepted spec whose limits parse and are not negative has room for one
\* pod more or one pod less than its replicas.
THEOREM EveryWellFormedSpecHasRoom ==
    ASSUME NEW raw \in RawSpec, ValidateRolloutSpec(raw), LimitsAreWellFormed(raw)
    PROVE  HasRoom(raw)
<1> SUFFICES ASSUME Accepted(raw).replicas > 0
             PROVE  MaxSurge(Accepted(raw)) > 0 \/ MaxUnavailable(Accepted(raw)) > 0
    BY DEF HasRoom
<1>1. Accepted(raw).replicas \in Nat \ {0}
    <2>1. Accepted(raw).replicas \in Nat
        BY AcceptedReplicas
    <2> QED
        BY <2>1
<1>2. Accepted(raw).surge \in IntOrString /\ Accepted(raw).unavailable \in IntOrString
    BY AcceptedLimits
<1> QED
    BY <1>1, <1>2, LimitsLeaveRoom

\* The same of the specs of the run.
THEOREM InputsAreModelled == Spec => []AcceptedSpecsAreModelled
<1>1. InputsOK => AcceptedSpecsAreModelled
    <2> SUFFICES ASSUME InputsOK, NEW raw \in RawSpecs, ValidateRolloutSpec(raw)
                 PROVE  IsModelled(raw)
        BY DEF AcceptedSpecsAreModelled
    <2>1. raw \in RawSpec
        BY RawSpecsAreRaw
    <2> QED
        BY <2>1, EveryAcceptedSpecIsModelled
<1> QED
    BY <1>1, InputsKeepTypes, PTL

\* Well-formed limits that are accepted never leave a rollout stuck.
THEOREM InputsHaveRoom == Spec => []LimitsMakeRoom
<1>1. InputsOK => LimitsMakeRoom
    <2> SUFFICES ASSUME InputsOK, NEW raw \in RawSpecs,
                        ValidateRolloutSpec(raw), LimitsAreWellFormed(raw)
                 PROVE  HasRoom(raw)
        BY DEF LimitsMakeRoom
    <2>1. raw \in RawSpec
        BY RawSpecsAreRaw
    <2> QED
        BY <2>1, EveryWellFormedSpecHasRoom
<1> QED
    BY <1>1, InputsKeepTypes, PTL
=============================================================================
