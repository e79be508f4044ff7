------------------------- MODULE CanaryRolloutProofs -------------------------
(***************************************************************************)
(* Type correctness and safety of CanaryRollout, for every set of          *)
(* templates and step plans, every number of replicas, and any number of   *)
(* edits, faults and failing pods; and the lemmas about what a pass        *)
(* computes that the other proofs rest on.                                 *)
(***************************************************************************)
EXTENDS CanaryRolloutProperties, CanaryMathProofs

(***************************************************************************)
(* Types of what a pass computes from its context                          *)
(***************************************************************************)
LEMMA TemplatesFinite ==
    ASSUME NEW R, R \subseteq Templates
    PROVE  IsFiniteSet(R)
BY ConstantsAssumption, FS_Subset

LEMMA LimitsType ==
    ASSUME NEW s \in RolloutSpec
    PROVE  /\ s.replicas \in Nat
           /\ MaxSurge(s) \in Nat
           /\ MaxUnavailable(s) \in Nat
           /\ MinAvailable(s) \in Int
<1>1. s.replicas \in Nat /\ s.surge \in IntOrString /\ s.unavailable \in IntOrString
    BY ConstantsAssumption DEF RolloutSpec
<1>2. \A limit \in IntOrString, up \in BOOLEAN :
         GetValueFromIntOrPercent(limit, s.replicas, up) \in Nat
    <2> SUFFICES ASSUME NEW limit \in IntOrString, NEW up \in BOOLEAN
                 PROVE  GetValueFromIntOrPercent(limit, s.replicas, up) \in Nat
        OBVIOUS
    <2>1. limit.value \in Nat
        BY DEF IntOrString
    <2>2. PICK product \in Nat : product = limit.value * s.replicas
        BY <1>1, <2>1
    <2>3. product \div 100 \in Nat /\ (product + 99) \div 100 \in Nat
        BY <2>2
    <2> QED
        BY <2>1, <2>2, <2>3 DEF GetValueFromIntOrPercent, FloorPercent, CeilPercent
<1>3. resolveFencePosts(s).surge \in Nat /\ resolveFencePosts(s).unavailable \in Nat
    BY <1>1, <1>2 DEF resolveFencePosts
<1>4. MaxSurge(s) \in Nat /\ MaxUnavailable(s) \in Nat
    BY <1>1, <1>3 DEF MaxSurge, MaxUnavailable, Smaller
<1> QED
    BY <1>1, <1>4 DEF MinAvailable

LEMMA CountsType ==
    ASSUME NEW m \in [Templates -> ReplicaSet], NEW R, R \subseteq Templates
    PROVE  GetReplicaCount(m, R) \in Nat /\ GetAvailableReplicaCount(m, R) \in Nat
<1>1. IsFiniteSet(R)
    BY TemplatesFinite
<1>2. \A rs \in R : m[rs].spec \in Nat /\ m[rs].avail \in Nat
    BY DEF ReplicaSet
<1>3. Cardinality(Pods(R, [rs \in R |-> m[rs].spec])) \in Nat
    <2> DEFINE size == [rs \in R |-> m[rs].spec]
    <2>1. \A rs \in R : size[rs] \in Nat
        BY <1>2
    <2> HIDE DEF size
    <2> QED
        BY <1>1, <2>1, PodsFinite DEF size
<1>4. Cardinality(Pods(R, [rs \in R |-> m[rs].avail])) \in Nat
    <2> DEFINE size == [rs \in R |-> m[rs].avail]
    <2>1. \A rs \in R : size[rs] \in Nat
        BY <1>2
    <2> HIDE DEF size
    <2> QED
        BY <1>1, <2>1, PodsFinite DEF size
<1> QED
    BY <1>3, <1>4 DEF GetReplicaCount, GetAvailableReplicaCount

LEMMA WeightType ==
    ASSUME NEW c \in Context
    PROVE  GetCurrentSetWeight(c) \in 0..100
<1>1. c.spec.steps \in Seq(CanaryStep)
    BY ConstantsAssumption DEF Context, RolloutSpec
<1>2. CurrentStepIndex(c) \in Nat
    BY DEF CurrentStepIndex, Context, RolloutStatus, NoIndex
<1> DEFINE seen == {i \in 1..(CurrentStepIndex(c) + 1) : ~c.spec.steps[i].pause}
<1>3. CASE StepsRemain(c) /\ seen # {}
    <2>1. IsFiniteSet(seen)
        <3>1. IsFiniteSet(1..(CurrentStepIndex(c) + 1))
            BY <1>2, FS_Interval
        <3> QED
            BY <3>1, FS_Subset
    <2>2. Max(seen) \in seen
        <3> DEFINE f == [i \in seen |-> i]
        <3>1. seen = {f[i] : i \in seen}
            OBVIOUS
        <3>2. \A i \in seen : f[i] \in Int
            BY <1>2
        <3>3. Max({f[i] : i \in seen}) \in {f[i] : i \in seen}
            <4> HIDE DEF f, seen
            <4> QED
                BY <1>3, <2>1, <3>2, MaxOfValues
        <3> QED
            BY <3>1, <3>3
    <2>3. Max(seen) \in 1..Len(c.spec.steps)
        <3>1. CurrentStepIndex(c) < Len(c.spec.steps)
            BY <1>3 DEF StepsRemain
        <3>2. Max(seen) \in 1..(CurrentStepIndex(c) + 1)
            BY <2>2
        <3>3. Len(c.spec.steps) \in Nat
            BY <1>1
        <3> HIDE DEF seen
        <3> QED
            BY <1>2, <3>1, <3>2, <3>3
    <2>4. c.spec.steps[Max(seen)] \in CanaryStep
        <3> HIDE DEF seen
        <3>1. \A i \in 1..Len(c.spec.steps) : c.spec.steps[i] \in CanaryStep
            BY <1>1
        <3> QED
            BY <2>3, <3>1
    <2>5. GetCurrentSetWeight(c) = c.spec.steps[Max(seen)].weight
        BY <1>3, Zenon DEF GetCurrentSetWeight
    <2> HIDE DEF seen
    <2> QED
        BY <2>4, <2>5 DEF CanaryStep
<1>4. CASE ~(StepsRemain(c) /\ seen # {})
    <2>1. GetCurrentSetWeight(c) \in {0, 100}
        BY <1>4, Zenon DEF GetCurrentSetWeight
    <2> QED
        BY <2>1
<1> QED
    BY <1>3, <1>4

(***************************************************************************)
(* The sizes a pass computes are integers.                                 *)
(***************************************************************************)
LEMMA DesiredType ==
    ASSUME NEW c \in Context
    PROVE  DesiredNewReplicas(c) \in Nat
<1>1. c.spec \in RolloutSpec
    BY DEF Context
<1>2. c.spec.replicas \in Nat /\ MaxSurge(c.spec) \in Nat
    BY <1>1, LimitsType
<1>3. GetCurrentSetWeight(c) \in 0..100
    BY WeightType
<1>4. approximateWeightedRolloutStableReplicaCounts(
          c.spec.replicas, GetCurrentSetWeight(c), MaxSurge(c.spec)) \in 0..c.spec.replicas
    BY <1>2, <1>3, ApproximationInRange
<1> QED
    BY <1>2, <1>4 DEF DesiredNewReplicas

LEMMA SizesType ==
    ASSUME NEW c \in Context, c.new \in Templates
    PROVE  /\ CountedReplicas(c) \in Int
           /\ CalculateReplicaCountsForBasicCanary(c) \in Int
           /\ NewRSNewReplicas(c) \in Int
           /\ NewReplicasCount(c) \in Nat
<1>1. /\ c.spec \in RolloutSpec /\ c.rss \in [Templates -> ReplicaSet]
      /\ c.others \subseteq Templates /\ c.stable \in Templates \cup {Nil}
    BY DEF Context
<1>2. /\ c.spec.replicas \in Nat /\ MaxSurge(c.spec) \in Nat
      /\ MaxUnavailable(c.spec) \in Int /\ MinAvailable(c.spec) \in Int
    BY <1>1, LimitsType
<1>3. c.rss[c.new].spec \in Nat /\ c.rss[c.new].avail \in Nat
    BY <1>1 DEF ReplicaSet
<1>4. DesiredNewReplicas(c) \in Nat
    BY DesiredType
<1>5. ASSUME NEW R, R \subseteq Templates, NEW wanted \in Int
      PROVE  adjustReplicaWithinLimits(c, R, wanted) \in Int
    <2>1. GetReplicaCount(c.rss, R) \in Nat /\ GetAvailableReplicaCount(c.rss, R) \in Nat
        BY <1>1, <1>5, CountsType
    <2> QED
        BY <1>2, <1>3, <1>5, <2>1 DEF adjustReplicaWithinLimits, Larger, Smaller
<1>6. CountedReplicas(c) \in Int
    <2>1. CASE CheckStableRSExists(c)
        <3>1. c.stable \in Templates
            BY <1>1, <2>1 DEF CheckStableRSExists
        <3>2. c.rss[c.stable].spec \in Nat
            BY <1>1, <3>1 DEF ReplicaSet
        <3>3. GetReplicaCount(c.rss, c.others) \in Nat
            BY <1>1, CountsType
        <3>4. GetReplicaCount(c.rss, c.others \cup {c.new} \cup ({c.stable} \ {Nil})) \in Nat
            <4>1. c.others \cup {c.new} \cup ({c.stable} \ {Nil}) \subseteq Templates
                BY <1>1, <3>1
            <4> QED
                BY <1>1, <4>1, CountsType
        <3> QED
            BY <3>2, <3>3, <3>4 DEF CountedReplicas
    <2>2. CASE ~CheckStableRSExists(c)
        <3>1. c.others \cup {c.new} \cup ({c.stable} \ {Nil}) \subseteq Templates
            BY <1>1
        <3>2. GetReplicaCount(c.rss, c.others \cup {c.new} \cup ({c.stable} \ {Nil})) \in Nat
            BY <1>1, <3>1, CountsType
        <3> QED
            BY <2>2, <3>2 DEF CountedReplicas
    <2> QED
        BY <2>1, <2>2
<1>7. CalculateReplicaCountsForBasicCanary(c) \in Int
    <2> DEFINE current == c.rss[c.new].spec
               scaleUp == c.spec.replicas + MaxSurge(c.spec) - CountedReplicas(c)
               older == IF CheckStableRSExists(c) THEN c.others \cup {c.stable} ELSE c.others
               wanted == IF current < DesiredNewReplicas(c) /\ scaleUp > 0
                         THEN Smaller(current + scaleUp, DesiredNewReplicas(c)) ELSE current
    <2>1. wanted \in Int
        BY <1>2, <1>3, <1>4, <1>6 DEF Smaller
    <2>2. older \subseteq Templates
        BY <1>1 DEF CheckStableRSExists
    <2>3. adjustReplicaWithinLimits(c, older, wanted) \in Int
        <3> HIDE DEF older, wanted
        <3> QED
            BY <1>5, <2>1, <2>2
    <2> QED
        BY <2>1, <2>3 DEF CalculateReplicaCountsForBasicCanary
<1>8. NewRSNewReplicas(c) \in Int
    <2>1. CASE CheckStableRSExists(c)
        <3>1. c.others \cup {c.stable} \subseteq Templates
            BY <1>1, <2>1 DEF CheckStableRSExists
        <3>2. GetReplicaCount(c.rss, c.others \cup {c.stable}) \in Nat
            BY <1>1, <3>1, CountsType
        <3> QED
            BY <1>2, <1>7, <3>2 DEF NewRSNewReplicas
    <2>2. CASE ~CheckStableRSExists(c)
        BY <1>7, <2>2 DEF NewRSNewReplicas
    <2> QED
        BY <2>1, <2>2
<1>9. NewReplicasCount(c) \in Nat
    BY <1>2, <1>3, <1>8 DEF NewReplicasCount, Larger
<1> QED
    BY <1>6, <1>7, <1>8, <1>9

LEMMA RevisionsType ==
    ASSUME NEW c \in Context
    PROVE  /\ MaxRevision(c) \in Nat
           /\ NewRevision(c) \in Nat
           /\ c.new \in Templates => RolloutRevision(c) \in Nat
<1>1. c.rss \in [Templates -> ReplicaSet]
    BY DEF Context
<1>2. Older(c) \subseteq Templates
    BY DEF Older, Seen
<1>3. MaxRevision(c) \in Nat
    <2> DEFINE f == [t \in Older(c) |-> c.rss[t].rev]
    <2>1. \A t \in Older(c) : f[t] \in Nat
        BY <1>1, <1>2 DEF ReplicaSet
    <2>2. IsFiniteSet(Older(c))
        BY <1>2, TemplatesFinite
    <2>3. Max({0} \cup {f[t] : t \in Older(c)}) \in Nat
        <3> HIDE DEF f
        <3> QED
            BY <2>1, <2>2, MaxWithZero
    <2>4. {f[t] : t \in Older(c)} = {c.rss[t].rev : t \in Older(c)}
        OBVIOUS
    <2> QED
        BY <2>3, <2>4 DEF MaxRevision
<1>4. NewRevision(c) \in Nat
    BY <1>3 DEF NewRevision
<1>5. ASSUME c.new \in Templates PROVE c.rss[c.new].rev \in Nat
    BY <1>1, <1>5 DEF ReplicaSet
<1> QED
    BY <1>3, <1>4, <1>5 DEF RolloutRevision, Larger

\* The ReplicaSets that sorting picks are among those it picks from.
LEMMA PicksFromSet ==
    ASSUME NEW c \in Context, NEW R, R \subseteq Templates, R # {}
    PROVE  OldestFirst(c, R) \in R /\ NewestRevisionFirst(c, R) \in R
<1>1. IsFiniteSet(R)
    BY TemplatesFinite
<1>2. \A t \in R : c.rss[t].born \in Nat /\ c.rss[t].rev \in Nat
    BY DEF Context, ReplicaSet
<1>3. \E t \in R : \A u \in R : c.rss[t].born <= c.rss[u].born
    <2> DEFINE f == [t \in R |-> 0 - c.rss[t].born]
    <2>1. \A t \in R : f[t] \in Int
        BY <1>2
    <2>2. PICK t \in R : \A u \in R : f[u] <= f[t]
        <3> HIDE DEF f
        <3> QED
            BY <1>1, <2>1, GreatestExists
    <2>3. \A u \in R : c.rss[t].born <= c.rss[u].born
        BY <1>2, <2>2
    <2> QED
        BY <2>3
<1>4. \E t \in R : \A u \in R : c.rss[u].rev <= c.rss[t].rev
    <2> DEFINE f == [t \in R |-> c.rss[t].rev]
    <2>1. \A t \in R : f[t] \in Int
        BY <1>2
    <2>2. PICK t \in R : \A u \in R : f[u] <= f[t]
        <3> HIDE DEF f
        <3> QED
            BY <1>1, <2>1, GreatestExists
    <2> QED
        BY <1>2, <2>2
<1> QED
    BY <1>3, <1>4 DEF OldestFirst, NewestRevisionFirst

\* The loop over the old ReplicaSets takes one it has not come to, or the
\* stable one, and leaves it a natural number of pods.
LEMMA VictimType ==
    ASSUME NEW c \in Context, Victim(c) # Nil
    PROVE  /\ Victim(c) \in Templates
           /\ Victim(c) \in c.todo \/ Victim(c) = c.stable
           /\ \/ Victim(c) \in c.todo /\ c.rss[Victim(c)].spec > 0
              \/ Victim(c) = c.stable /\ \A t \in c.todo : c.rss[t].spec = 0
           /\ ScaleDownTo(c) \in Nat
           /\ c.budget - (c.rss[Victim(c)].spec - ScaleDownTo(c)) \in Nat
           /\ ScaleDownTo(c) <= c.rss[Victim(c)].spec
           /\ c.budget - (c.rss[Victim(c)].spec - ScaleDownTo(c)) > 0 => ScaleDownTo(c) = 0
<1> DEFINE running == {t \in c.todo : c.rss[t].spec > 0}
<1>1. c.todo \subseteq Templates /\ c.stable \in Templates \cup {Nil} /\ c.budget \in Nat
    BY DEF Context
<1>2. \A t \in Templates : c.rss[t].spec \in Nat
    BY DEF Context, ReplicaSet
<1>3. CASE running # {}
    <2>1. NewestRevisionFirst(c, running) \in running
        <3>1. running \subseteq Templates
            BY <1>1
        <3> HIDE DEF running
        <3> QED
            BY <1>3, <3>1, PicksFromSet
    <2>2. Victim(c) \in running
        BY <1>3, <2>1 DEF Victim
    <2> QED
        BY <1>1, <1>2, <2>2 DEF ScaleDownTo, Larger
<1>4. CASE running = {}
    <2>1. Victim(c) = c.stable
        BY <1>4 DEF Victim
    <2>2. \A t \in c.todo : c.rss[t].spec = 0
        BY <1>1, <1>2, <1>4
    <2> QED
        BY <1>1, <1>2, <2>1, <2>2 DEF ScaleDownTo, Larger
<1> QED
    BY <1>3, <1>4

-----------------------------------------------------------------------------
(***************************************************************************)
(* Type correctness                                                        *)
(***************************************************************************)

\* Both ends of the steps are an index or nil.
LEMMA IndexType ==
    ASSUME NEW s \in RolloutSpec
    PROVE  /\ s.steps \in StepPlans
           /\ EndIndex(s.steps) \in Nat \cup {NoIndex}
           /\ StartIndex(s.steps) \in Nat \cup {NoIndex}
<1>1. s.steps \in StepPlans /\ s.steps \in Seq(CanaryStep)
    BY ConstantsAssumption DEF RolloutSpec
<1>2. Len(s.steps) \in Nat
    BY <1>1
<1> QED
    BY <1>1, <1>2 DEF EndIndex, StartIndex

\* What every status has in common.
LEMMA BaseStatusType ==
    ASSUME NEW c \in Context, NEW cleared \in BOOLEAN
    PROVE  /\ BaseStatus(c, cleared) \in RolloutStatus
           /\ BaseStatus(c, cleared).stableRS = c.status.stableRS
<1> DEFINE p == ~cleared /\ (c.status.pauseCondition \/ c.addPause)
           q == ~cleared /\ (c.addPause \/ (c.status.controllerPause /\ c.status.pauseCondition))
           base(a, b) == [c.status EXCEPT !.podHash = c.spec.template, !.stepHash = c.spec.steps,
                                          !.pauseCondition = a, !.controllerPause = b]
<1>1. c.status \in RolloutStatus /\ c.spec.template \in Templates /\ c.spec.steps \in StepPlans
    BY DEF Context, RolloutSpec
<1>2. BaseStatus(c, cleared) = base(p, q)
    BY DEF BaseStatus
<1>3. p \in BOOLEAN /\ q \in BOOLEAN
    OBVIOUS
<1>4. \A a, b \in BOOLEAN : base(a, b) \in RolloutStatus
                           /\ base(a, b).stableRS = c.status.stableRS
    BY <1>1 DEF RolloutStatus
<1> HIDE DEF p, q, base
<1> QED
    BY <1>2, <1>3, <1>4

\* Every status a pass writes at its end is a status.
LEMMA NewStatusType ==
    ASSUME NEW c \in Context
    PROVE  /\ NewStatus(c) \in RolloutStatus
           /\ NewStatus(c).stableRS \in {c.status.stableRS, c.spec.template}
<1>1. c.status \in RolloutStatus /\ c.spec \in RolloutSpec /\ c.addPause \in BOOLEAN
    BY DEF Context
<1>2. /\ c.spec.template \in Templates /\ c.spec.steps \in StepPlans
      /\ EndIndex(c.spec.steps) \in Nat \cup {NoIndex}
      /\ StartIndex(c.spec.steps) \in Nat \cup {NoIndex}
    BY <1>1, IndexType DEF RolloutSpec
<1>3. CurrentStepIndex(c) \in Nat
    BY <1>1 DEF CurrentStepIndex, RolloutStatus, NoIndex
<1>4. \A cleared \in BOOLEAN : /\ BaseStatus(c, cleared) \in RolloutStatus
                               /\ BaseStatus(c, cleared).stableRS = c.status.stableRS
    BY BaseStatusType
<1>5. \A s \in RolloutStatus, i \in Nat \cup {NoIndex} :
         /\ [s EXCEPT !.stepIndex = i] \in RolloutStatus
         /\ [s EXCEPT !.stepIndex = i].stableRS = s.stableRS
    BY DEF RolloutStatus
<1>6. ResetStatus(c) \in RolloutStatus /\ ResetStatus(c).stableRS = c.status.stableRS
    BY <1>2, <1>4, <1>5 DEF ResetStatus
<1>7. PromotedStatus(c) \in RolloutStatus /\ PromotedStatus(c).stableRS = c.spec.template
    BY <1>2, <1>4 DEF PromotedStatus, RolloutStatus
<1>8. SteppedStatus(c) \in RolloutStatus /\ SteppedStatus(c).stableRS = c.status.stableRS
    <2>1. CurrentStepIndex(c) + 1 \in Nat
        BY <1>3
    <2> QED
        BY <1>2, <1>3, <1>4, <1>5, <2>1 DEF SteppedStatus
<1> QED
    BY <1>6, <1>7, <1>8 DEF NewStatus

\* stableRS only changes when the pass promotes, with the hashes up to date.
LEMMA StableOnlyByPromotion ==
    ASSUME NEW c \in Context, NewStatus(c).stableRS # c.status.stableRS
    PROVE  ~PodTemplateOrStepsChanged(c) /\ shouldFullPromote(c)
<1>1. c.status \in RolloutStatus /\ c.spec \in RolloutSpec /\ c.addPause \in BOOLEAN
    BY DEF Context
<1>2. \A cleared \in BOOLEAN, i \in Nat \cup {NoIndex} :
         [BaseStatus(c, cleared) EXCEPT !.stepIndex = i].stableRS = c.status.stableRS
    BY BaseStatusType DEF RolloutStatus
<1>3. c.spec.steps \in StepPlans /\ EndIndex(c.spec.steps) \in Nat \cup {NoIndex}
      /\ StartIndex(c.spec.steps) \in Nat \cup {NoIndex}
    BY <1>1, IndexType
<1>4. CurrentStepIndex(c) \in Nat
    BY <1>1 DEF CurrentStepIndex, RolloutStatus, NoIndex
<1>5. ResetStatus(c).stableRS = c.status.stableRS
    BY <1>2, <1>3 DEF ResetStatus
<1>6. SteppedStatus(c).stableRS = c.status.stableRS
    <2>1. CurrentStepIndex(c) + 1 \in Nat
        BY <1>4
    <2> QED
        BY <1>2, <1>4, <2>1 DEF SteppedStatus
<1> QED
    BY <1>5, <1>6, Zenon DEF NewStatus

\* The initial state is typed.
LEMMA InitTypeOK == Init => TypeOK
<1> SUFFICES ASSUME Init PROVE TypeOK
    OBVIOUS
<1>0. PICK t \in Deployed : InitialRollout(t)
    BY DEF Init
<1>1. spec \in RolloutSpec
    BY <1>0 DEF InitialRollout
<1>2. EmptyStatus \in RolloutStatus
    BY DEF EmptyStatus, RolloutStatus
<1>3. DeployedStatus(spec) \in RolloutStatus
    <2>1. spec.template \in Templates /\ spec.steps \in StepPlans
          /\ EndIndex(spec.steps) \in Nat \cup {NoIndex}
        BY <1>1, IndexType DEF RolloutSpec
    <2> QED
        BY <1>2, <2>1 DEF DeployedStatus, EmptyStatus, RolloutStatus
<1>4. status \in RolloutStatus
    BY <1>0, <1>2, <1>3 DEF InitialRollout
<1>5. rss \in [Templates -> ReplicaSet]
    <2>1. DeployedRS(spec.replicas) \in ReplicaSet /\ Absent \in ReplicaSet
        BY <1>1, LimitsType DEF DeployedRS, Absent, ReplicaSet
    <2> QED
        BY <1>0, <2>1 DEF InitialRollout
<1>6. revision \in Nat /\ retired \in Nat /\ edits \in Nat /\ faults \in Nat
    BY <1>0, ConstantsAssumption DEF Init, InitialRollout
<1> QED
    BY <1>1, <1>4, <1>5, <1>6 DEF Init, TypeOK

\* What a pass may change in its context keeps the context's type.
LEMMA ContextUpdates ==
    ASSUME NEW c \in Context
    PROVE  /\ \A s \in RolloutStatus : [c EXCEPT !.status = s] \in Context
           /\ \A n \in Nat : [c EXCEPT !.revision = n] \in Context
           /\ \A t \in Templates : [c EXCEPT !.new = t] \in Context
           /\ \A b \in BOOLEAN : [c EXCEPT !.addPause = b] \in Context
           /\ \A n \in Nat, T \in SUBSET Templates :
                 [c EXCEPT !.budget = n, !.todo = T] \in Context
           /\ \A t \in Templates, n \in Nat : /\ [c EXCEPT !.rss[t].spec = n] \in Context
                                              /\ [c EXCEPT !.rss[t].rev = n] \in Context
<1>1. \A s \in RolloutStatus : [c EXCEPT !.status = s] \in Context
    BY DEF Context
<1>2. \A n \in Nat : [c EXCEPT !.revision = n] \in Context
    BY DEF Context
<1>3. \A t \in Templates : [c EXCEPT !.new = t] \in Context
    BY DEF Context
<1>4. \A b \in BOOLEAN : [c EXCEPT !.addPause = b] \in Context
    BY DEF Context
<1>5. \A n \in Nat, T \in SUBSET Templates : [c EXCEPT !.budget = n, !.todo = T] \in Context
    BY DEF Context
<1>6. ASSUME NEW t \in Templates, NEW n \in Nat
      PROVE  [c EXCEPT !.rss[t].spec = n] \in Context /\ [c EXCEPT !.rss[t].rev = n] \in Context
    <2>1. c.rss[t] \in ReplicaSet
        BY DEF Context
    <2>2. [c.rss[t] EXCEPT !.spec = n] \in ReplicaSet /\ [c.rss[t] EXCEPT !.rev = n] \in ReplicaSet
        BY <2>1 DEF ReplicaSet
    <2>3. \A r \in ReplicaSet : [c EXCEPT !.rss[t] = r] \in Context
        <3> HIDE DEF ReplicaSet
        <3> QED
            BY DEF Context
    <2>4. /\ [c EXCEPT !.rss[t].spec = n] = [c EXCEPT !.rss[t] = [c.rss[t] EXCEPT !.spec = n]]
          /\ [c EXCEPT !.rss[t].rev = n] = [c EXCEPT !.rss[t] = [c.rss[t] EXCEPT !.rev = n]]
        OBVIOUS
    <2> QED
        BY <2>2, <2>3, <2>4
<1> QED
    BY <1>1, <1>2, <1>3, <1>4, <1>5, <1>6, Zenon

\* What is written to a ReplicaSet keeps its type.
LEMMA RssUpdates ==
    ASSUME NEW m \in [Templates -> ReplicaSet], NEW t \in Templates, NEW n \in Nat
    PROVE  /\ [m EXCEPT ![t] = Resize(m[t], n)] \in [Templates -> ReplicaSet]
           /\ [m EXCEPT ![t] = [m[t] EXCEPT !.rev = n]] \in [Templates -> ReplicaSet]
           /\ [m EXCEPT ![t].avail = n] \in [Templates -> ReplicaSet]
           /\ \A k \in Nat : [m EXCEPT ![t].actual = n, ![t].avail = k, ![t].observed = TRUE]
                                \in [Templates -> ReplicaSet]
           /\ \A k \in Nat : [m EXCEPT ![t] = [Absent EXCEPT !.born = n, !.rev = k]]
                                \in [Templates -> ReplicaSet]
           /\ [m EXCEPT ![t] = Absent] \in [Templates -> ReplicaSet]
BY DEF ReplicaSet, Absent, Resize

(***************************************************************************)
(* TypeOK in four parts, so that an action only disturbs some of them.     *)
(***************************************************************************)
RolloutOK == spec \in RolloutSpec /\ status \in RolloutStatus /\ revision \in Nat
ClusterOK == rss \in [Templates -> ReplicaSet] /\ retired \in Nat
NeedsNew  == {"syncRevision", "setRevision", "announce", "history", "scale",
              "cleanup", "scaleDown"}
PassOK ==
    /\ pc \in PassPcs \cup {"idle"}
    /\ IF pc = "idle" THEN ctx = NoPass ELSE ctx \in Context
    /\ pc \in NeedsNew => ctx.new # Nil
    /\ staleRO \in BOOLEAN
    /\ staleRS \subseteq Templates
BoundsOK == /\ timeUp \in BOOLEAN /\ resumed \in BOOLEAN
            /\ edits \in Nat /\ faults \in Nat

LEMMA TypeOKParts ==
    /\ TypeOK => RolloutOK /\ ClusterOK /\ PassOK /\ BoundsOK
    /\ RolloutOK' /\ ClusterOK' /\ PassOK' /\ BoundsOK' => TypeOK'
BY Zenon DEF TypeOK, RolloutOK, ClusterOK, PassOK, BoundsOK, NeedsNew

LEMMA Unchanged ==
    /\ RolloutOK /\ UNCHANGED rollout => RolloutOK'
    /\ ClusterOK /\ UNCHANGED cluster => ClusterOK'
    /\ PassOK /\ UNCHANGED pass => PassOK'
    /\ BoundsOK /\ UNCHANGED <<pauses, bounds>> => BoundsOK'
BY DEF rollout, cluster, pass, pauses, bounds, RolloutOK, ClusterOK, PassOK, BoundsOK

LEMMA EndPassOK == EndPass => PassOK'
BY DEF EndPass, PassOK, PassPcs, NeedsNew

\* A pass that goes on with a context keeps its type.
LEMMA PassGoesOn ==
    /\ PassOK /\ staleRO' \in BOOLEAN /\ staleRS' \subseteq Templates
    /\ pc' \in PassPcs /\ ctx' \in Context /\ (pc' \in NeedsNew => ctx'.new \in Templates)
    => PassOK'
<1> SUFFICES ASSUME staleRO' \in BOOLEAN, staleRS' \subseteq Templates,
                    pc' \in PassPcs, ctx' \in Context,
                    pc' \in NeedsNew => ctx'.new \in Templates
             PROVE  PassOK'
    OBVIOUS
<1>1. pc' # "idle"
    BY DEF PassPcs
<1>2. pc' \in NeedsNew => ctx'.new # Nil
    BY ConstantsAssumption
<1> QED
    BY <1>1, <1>2 DEF PassOK

\* While a pass runs it has a context, with newRS where it is needed.
LEMMA RunningPass ==
    /\ PassOK /\ pc # "idle" => ctx \in Context
    /\ PassOK /\ pc \in NeedsNew => ctx \in Context /\ ctx.new \in Templates
<1>1. PassOK /\ pc # "idle" => ctx \in Context
    BY DEF PassOK
<1>2. PassOK /\ pc \in NeedsNew => pc # "idle" /\ ctx.new # Nil
    BY DEF PassOK, NeedsNew
<1>3. ctx \in Context /\ ctx.new # Nil => ctx.new \in Templates
    BY DEF Context
<1> QED
    BY <1>1, <1>2, <1>3

LEMMA GetRolloutTypeOK == TypeOK /\ GetRollout => TypeOK'
<1> SUFFICES ASSUME TypeOK, GetRollout PROVE TypeOK'
    OBVIOUS
<1>1. ctx' \in Context
    <2> DEFINE new == IF Exists(spec.template) THEN spec.template ELSE Nil
               stable == IF status.stableRS # Nil /\ Exists(status.stableRS)
                         THEN status.stableRS ELSE Nil
               others == {t \in Templates : Exists(t)} \ {new, stable}
    <2>1. ctx' = [spec |-> spec, status |-> status, revision |-> revision,
                  rss |-> rss, retired |-> retired, new |-> new, stable |-> stable,
                  others |-> others, addPause |-> FALSE, todo |-> {}, budget |-> 0]
        BY Zenon DEF GetRollout
    <2>2. new \in Templates \cup {Nil} /\ stable \in Templates \cup {Nil}
        BY DEF TypeOK, RolloutSpec, RolloutStatus
    <2>3. others \in SUBSET Templates
        OBVIOUS
    <2> HIDE DEF new, stable, others
    <2> QED
        BY <2>1, <2>2, <2>3 DEF TypeOK, Context
<1>2. pc' = "checkPaused" /\ staleRO' = staleRO /\ staleRS' = staleRS
    BY Zenon DEF GetRollout
<1>3. PassOK'
    BY <1>1, <1>2, TypeOKParts, PassGoesOn DEF PassOK, PassPcs, NeedsNew
<1> QED
    BY <1>3, TypeOKParts, Unchanged DEF GetRollout

LEMMA checkPausedConditionsTypeOK == TypeOK /\ checkPausedConditions => TypeOK'
<1> SUFFICES ASSUME TypeOK, checkPausedConditions PROVE TypeOK'
    OBVIOUS
<1> DEFINE marked == [ctx.status EXCEPT !.progPaused = IsPaused(ctx),
                                        !.condPaused = IsPaused(ctx)]
<1>1. ctx \in Context
    BY TypeOKParts, RunningPass DEF checkPausedConditions
<1>2. ctx.status \in RolloutStatus /\ IsPaused(ctx) \in BOOLEAN
    BY <1>1 DEF IsPaused, Context
<1>3. marked \in RolloutStatus
    <2> HIDE DEF IsPaused
    <2> QED
        BY <1>2 DEF RolloutStatus
<1>4. ctx' = [ctx EXCEPT !.status = marked]
    BY DEF checkPausedConditions
<1>5. ctx' \in Context
    <2> HIDE DEF marked
    <2> QED
        BY <1>1, <1>3, <1>4, ContextUpdates
<1>6. ctx'.new = ctx.new
    <2> HIDE DEF marked
    <2> QED
        BY <1>1, <1>4 DEF Context
<1>7. status' \in RolloutStatus /\ staleRO' \in BOOLEAN
    <2>1. CASE ctx.status = marked
        <3>1. status' = status /\ staleRO' = staleRO
            BY <2>1, Zenon DEF checkPausedConditions
        <3> QED
            BY <3>1 DEF TypeOK
    <2>2. CASE ctx.status # marked
        <3>1. UpdateStatus(marked, FALSE)
            BY <2>2, Zenon DEF checkPausedConditions
        <3> HIDE DEF marked
        <3> QED
            BY <1>3, <3>1, ConstantsAssumption DEF UpdateStatus
    <2> QED
        BY <2>1, <2>2
<1>8. pc' \in PassPcs /\ (pc' \in NeedsNew => ctx'.new \in Templates)
    <2>1. ctx.new \in Templates \cup {Nil}
        BY <1>1 DEF Context
    <2>2. pc' = SyncRevisionPc(ctx)
        BY DEF checkPausedConditions
    <2> QED
        BY <1>6, <2>1, <2>2 DEF SyncRevisionPc, PassPcs, NeedsNew
<1>9. PassOK'
    <2>1. staleRS' \subseteq Templates
        BY DEF checkPausedConditions, TypeOK
    <2> QED
        BY <1>5, <1>7, <1>8, <2>1, TypeOKParts, PassGoesOn
<1>10. RolloutOK'
    BY <1>7, TypeOKParts DEF checkPausedConditions, RolloutOK
<1> QED
    BY <1>9, <1>10, TypeOKParts, Unchanged DEF checkPausedConditions

LEMMA syncReplicaSetRevisionTypeOK == TypeOK /\ syncReplicaSetRevision => TypeOK'
<1> SUFFICES ASSUME TypeOK, syncReplicaSetRevision PROVE TypeOK'
    OBVIOUS
<1>1. ctx \in Context /\ ctx.new \in Templates
    BY TypeOKParts, RunningPass DEF syncReplicaSetRevision, NeedsNew
<1>2. NewRevision(ctx) \in Nat
    BY <1>1, RevisionsType
<1>3. ctx' \in Context
    BY <1>1, <1>2, ContextUpdates DEF syncReplicaSetRevision
<1>4. ctx'.new \in Templates
    BY <1>1 DEF syncReplicaSetRevision, Context
<1>5. PassOK'
    BY <1>3, <1>4, TypeOKParts, PassGoesOn
    DEF syncReplicaSetRevision, PassOK, PassPcs
<1>6. ClusterOK'
    BY <1>1, <1>2, RssUpdates, TypeOKParts DEF syncReplicaSetRevision, UpdateRS, ClusterOK
<1> QED
    BY <1>5, <1>6, TypeOKParts, Unchanged DEF syncReplicaSetRevision

\* The ReplicaSet that is created has no pods.
LEMMA CreatedRSType ==
    ASSUME TypeOK, ctx \in Context
    PROVE  CreatedRS \in ReplicaSet /\ CreatedRS.spec = 0 /\ CreatedRS.born > 0
<1>1. Max({rss[t].born : t \in Templates}) \in Nat
    <2> DEFINE f == [t \in Templates |-> rss[t].born]
    <2>1. \A t \in Templates : f[t] \in Nat
        BY DEF TypeOK, ReplicaSet
    <2>2. Max({f[t] : t \in Templates}) \in {f[t] : t \in Templates}
        <3>1. \A t \in Templates : f[t] \in Int
            BY <2>1
        <3>2. Templates # {} /\ IsFiniteSet(Templates)
            BY ConstantsAssumption
        <3> HIDE DEF f
        <3> QED
            BY <3>1, <3>2, MaxOfValues
    <2>3. {f[t] : t \in Templates} = {rss[t].born : t \in Templates}
        OBVIOUS
    <2> QED
        BY <2>1, <2>2, <2>3
<1>2. \A n, r \in Nat : n > 0 =>
         /\ [Absent EXCEPT !.born = n, !.rev = r] \in ReplicaSet
         /\ [Absent EXCEPT !.born = n, !.rev = r].spec = 0
         /\ [Absent EXCEPT !.born = n, !.rev = r].born > 0
    BY DEF Absent, ReplicaSet
<1>3. /\ 1 + MaxRevision(ctx) \in Nat
      /\ 1 + Max({rss[t].born : t \in Templates}) \in Nat
      /\ 1 + Max({rss[t].born : t \in Templates}) > 0
    BY <1>1, RevisionsType
<1> QED
    BY <1>2, <1>3, Zenon DEF CreatedRS

LEMMA createDesiredReplicaSetTypeOK == TypeOK /\ createDesiredReplicaSet => TypeOK'
<1> SUFFICES ASSUME TypeOK, createDesiredReplicaSet PROVE TypeOK'
    OBVIOUS
<1>1. ctx \in Context /\ ctx.spec.template \in Templates
    <2>1. ctx \in Context
        BY TypeOKParts, RunningPass DEF createDesiredReplicaSet
    <2> QED
        BY <2>1 DEF Context, RolloutSpec
<1>2. ClusterOK'
    BY <1>1, CreatedRSType, TypeOKParts DEF createDesiredReplicaSet, ClusterOK
<1>3. ctx' \in Context
    BY <1>1, ContextUpdates DEF createDesiredReplicaSet
<1>4. ctx'.new \in Templates
    BY <1>1 DEF createDesiredReplicaSet, Context
<1>5. PassOK'
    BY <1>3, <1>4, TypeOKParts, PassGoesOn DEF createDesiredReplicaSet, PassOK, PassPcs
<1> QED
    BY <1>2, <1>5, TypeOKParts, Unchanged DEF createDesiredReplicaSet

LEMMA setRolloutRevisionTypeOK == TypeOK /\ setRolloutRevision => TypeOK'
<1> SUFFICES ASSUME TypeOK, setRolloutRevision PROVE TypeOK'
    OBVIOUS
<1>1. ctx \in Context /\ ctx.new \in Templates
    BY TypeOKParts, RunningPass DEF setRolloutRevision, NeedsNew
<1>2. RolloutRevision(ctx) \in Nat /\ ctx.spec \in RolloutSpec
    BY <1>1, RevisionsType DEF Context
<1>3. RolloutOK'
    BY <1>2, TypeOKParts DEF setRolloutRevision, RolloutOK
<1>4. ctx' \in Context
    BY <1>1, <1>2, ContextUpdates DEF setRolloutRevision
<1>5. ctx'.new \in Templates
    BY <1>1 DEF setRolloutRevision, Context
<1>6. PassOK'
    BY <1>4, <1>5, TypeOKParts, PassGoesOn DEF setRolloutRevision, PassOK, PassPcs
<1> QED
    BY <1>3, <1>6, TypeOKParts, Unchanged DEF setRolloutRevision

LEMMA AnnounceReplicaSetTypeOK == TypeOK /\ AnnounceReplicaSet => TypeOK'
<1> SUFFICES ASSUME TypeOK, AnnounceReplicaSet PROVE TypeOK'
    OBVIOUS
<1>1. ctx \in Context /\ ctx.new \in Templates
    BY TypeOKParts, RunningPass DEF AnnounceReplicaSet, NeedsNew
<1>2. [ctx.status EXCEPT !.progPaused = FALSE] \in RolloutStatus
    BY <1>1 DEF Context, RolloutStatus
<1>3. RolloutOK' /\ staleRO' \in BOOLEAN
    BY <1>2, TypeOKParts, ConstantsAssumption DEF AnnounceReplicaSet, UpdateStatus, RolloutOK
<1>4. ctx' \in Context
    BY <1>1, <1>2, ContextUpdates DEF AnnounceReplicaSet
<1>5. ctx'.new \in Templates
    BY <1>1 DEF AnnounceReplicaSet, Context
<1>6. PassOK'
    BY <1>3, <1>4, <1>5, TypeOKParts, PassGoesOn DEF AnnounceReplicaSet, PassOK, PassPcs
<1> QED
    BY <1>3, <1>6, TypeOKParts, Unchanged DEF AnnounceReplicaSet

LEMMA reconcileRevisionHistoryLimitTypeOK == TypeOK /\ reconcileRevisionHistoryLimit => TypeOK'
<1> SUFFICES ASSUME TypeOK, reconcileRevisionHistoryLimit PROVE TypeOK'
    OBVIOUS
<1>1. ctx \in Context /\ ctx.new \in Templates
    BY TypeOKParts, RunningPass DEF reconcileRevisionHistoryLimit, NeedsNew
<1>2. DoomedRetired(ctx) \in Int /\ ctx.retired \in Nat /\ DoomedRetired(ctx) <= ctx.retired
    <2>1. ctx.others \subseteq Templates /\ ctx.retired \in Nat
        BY <1>1 DEF Context
    <2>2. Cardinality(ctx.others) \in Nat
        BY <2>1, TemplatesFinite, FS_CardinalityType
    <2>3. Excess(ctx) \in Int
        BY <2>1, <2>2, ConstantsAssumption DEF Excess
    <2> QED
        BY <2>1, <2>3 DEF DoomedRetired, Larger, Smaller
<1>3. ClusterOK'
    <2> DEFINE left == {t \in Doomed(ctx) : Exists(t)}
    <2>1. CASE retired > ctx.retired - DoomedRetired(ctx)
        <3>1. retired' = retired - 1 /\ rss' = rss
            BY <2>1, Zenon DEF reconcileRevisionHistoryLimit
        <3> QED
            BY <1>2, <2>1, <3>1, TypeOKParts DEF ClusterOK
    <2>2. CASE ~(retired > ctx.retired - DoomedRetired(ctx)) /\ left # {}
        <3>1. rss' = [rss EXCEPT ![OldestFirst(ctx, left)] = Absent] /\ retired' = retired
            BY <2>2, Zenon DEF reconcileRevisionHistoryLimit
        <3>2. left \subseteq Templates
            BY <1>1 DEF Doomed, Context
        <3>3. OldestFirst(ctx, left) \in Templates
            <4> HIDE DEF left
            <4> QED
                BY <1>1, <2>2, <3>2, PicksFromSet
        <3> HIDE DEF left
        <3> QED
            BY <3>1, <3>3, RssUpdates, TypeOKParts DEF ClusterOK
    <2>3. CASE ~(retired > ctx.retired - DoomedRetired(ctx)) /\ left = {}
        <3>1. UNCHANGED cluster
            BY <2>3, Zenon DEF reconcileRevisionHistoryLimit
        <3> QED
            BY <3>1, TypeOKParts, Unchanged
    <2> QED
        BY <2>1, <2>2, <2>3
<1>4. ctx' = ctx /\ pc' \in {"history", "scale"} /\ staleRO' = staleRO /\ staleRS' = staleRS
    BY Zenon DEF reconcileRevisionHistoryLimit
<1>5. PassOK'
    BY <1>1, <1>4, TypeOKParts, PassGoesOn DEF PassOK, PassPcs
<1>6. UNCHANGED <<rollout, pauses, bounds>>
    BY Zenon DEF reconcileRevisionHistoryLimit
<1> QED
    BY <1>3, <1>5, <1>6, TypeOKParts, Unchanged

\* The two ways a pass ends before it scales anything.
LEMMA StopsBeforeScalingTypeOK ==
    TypeOK /\ (reconcileCanaryPause \/ haltProgress) => TypeOK'
<1> SUFFICES ASSUME TypeOK, reconcileCanaryPause \/ haltProgress PROVE TypeOK'
    OBVIOUS
<1>1. ctx \in Context
    BY TypeOKParts, RunningPass DEF reconcileCanaryPause, haltProgress
<1>2. (~ctx.status.pauseCondition /\ ~ctx.status.controllerPause) \in BOOLEAN
    OBVIOUS
<1>3. ctx' \in Context
    BY <1>1, <1>2, ContextUpdates DEF reconcileCanaryPause, haltProgress
<1>4. PassOK'
    BY <1>3, TypeOKParts, PassGoesOn
    DEF reconcileCanaryPause, haltProgress, PassOK, PassPcs, NeedsNew
<1> QED
    BY <1>4, TypeOKParts, Unchanged DEF reconcileCanaryPause, haltProgress

LEMMA reconcileNewReplicaSetTypeOK == TypeOK /\ reconcileNewReplicaSet => TypeOK'
<1> SUFFICES ASSUME TypeOK, reconcileNewReplicaSet PROVE TypeOK'
    OBVIOUS
<1>1. ctx \in Context /\ ctx.new \in Templates
    BY TypeOKParts, RunningPass DEF reconcileNewReplicaSet, NeedsNew
<1>2. NewReplicasCount(ctx) \in Nat
    BY <1>1, SizesType
<1>3. ClusterOK'
    BY <1>1, <1>2, RssUpdates, TypeOKParts DEF reconcileNewReplicaSet, UpdateRS, ClusterOK
<1>4. PassOK'
    BY <1>1, TypeOKParts, PassGoesOn DEF reconcileNewReplicaSet, PassOK, PassPcs, NeedsNew
<1> QED
    BY <1>3, <1>4, TypeOKParts, Unchanged DEF reconcileNewReplicaSet

LEMMA reconcileOldReplicaSetsTypeOK == TypeOK /\ reconcileOldReplicaSets => TypeOK'
<1> SUFFICES ASSUME TypeOK, reconcileOldReplicaSets PROVE TypeOK'
    OBVIOUS
<1>1. ctx \in Context /\ ctx.new \in Templates
    BY TypeOKParts, RunningPass DEF reconcileOldReplicaSets, NeedsNew
<1>2. PassOK'
    BY <1>1, TypeOKParts, PassGoesOn DEF reconcileOldReplicaSets, PassOK, PassPcs
<1> QED
    BY <1>2, TypeOKParts, Unchanged DEF reconcileOldReplicaSets

LEMMA cleanupUnhealthyReplicasTypeOK == TypeOK /\ cleanupUnhealthyReplicas => TypeOK'
<1> SUFFICES ASSUME TypeOK, cleanupUnhealthyReplicas PROVE TypeOK'
    OBVIOUS
<1> DEFINE t == OldestFirst(ctx, Unhealthy(ctx))
           stops == MoreAvailableThanWanted(ctx.rss[t]) \/ t \in staleRS
<1>1. ctx \in Context /\ ctx.new \in Templates
    BY TypeOKParts, RunningPass DEF cleanupUnhealthyReplicas, NeedsNew
<1>2. t \in Templates
    <2>1. Unhealthy(ctx) \subseteq Templates /\ Unhealthy(ctx) # {}
        BY <1>1 DEF Unhealthy, Context, cleanupUnhealthyReplicas
    <2> QED
        BY <1>1, <2>1, PicksFromSet
<1>3. ctx.rss[t].avail \in Nat
    <2> HIDE DEF t
    <2> QED
        BY <1>1, <1>2 DEF Context, ReplicaSet
<1>4. staleRO' = staleRO /\ staleRS' = staleRS /\ UNCHANGED <<rollout, retired, pauses, bounds>>
    BY Zenon DEF cleanupUnhealthyReplicas
<1>5. CASE stops
    <2>1. pc' = "persist" /\ rss' = rss /\ ctx' = ctx
        BY <1>5, Zenon DEF cleanupUnhealthyReplicas
    <2>2. PassOK' /\ UNCHANGED cluster
        BY <1>1, <1>4, <2>1, TypeOKParts, PassGoesOn DEF PassOK, PassPcs, NeedsNew, cluster
    <2> QED
        BY <1>4, <2>2, TypeOKParts, Unchanged
<1>6. CASE ~stops
    <2>1. /\ UpdateRS(t, Resize(rss[t], ctx.rss[t].avail))
          /\ ctx' = [ctx EXCEPT !.rss[t].spec = ctx.rss[t].avail]
          /\ pc' = pc
        BY <1>6, Zenon DEF cleanupUnhealthyReplicas
    <2> HIDE DEF t
    <2>2. ClusterOK'
        BY <1>2, <1>3, <1>4, <2>1, RssUpdates, TypeOKParts DEF UpdateRS, ClusterOK
    <2>3. ctx' \in Context
        BY <1>1, <1>2, <1>3, <2>1, ContextUpdates
    <2>4. ctx'.new \in Templates
        BY <1>1, <2>1 DEF Context
    <2>5. pc' \in PassPcs
        BY <2>1 DEF cleanupUnhealthyReplicas, PassPcs
    <2>6. PassOK'
        BY <1>4, <2>3, <2>4, <2>5, TypeOKParts, PassGoesOn DEF PassOK
    <2> QED
        BY <1>4, <2>2, <2>6, TypeOKParts, Unchanged
<1> QED
    BY <1>5, <1>6

\* What may be scaled down is a number; when there is any, the loop starts.
LEMMA MaxScaleDownType ==
    ASSUME NEW c \in Context
    PROVE  MaxScaleDown(c) \in Int
<1>1. c.spec \in RolloutSpec /\ c.rss \in [Templates -> ReplicaSet] /\ Seen(c) \subseteq Templates
    BY DEF Context, Seen
<1>2. MinAvailable(c.spec) \in Int
    BY <1>1, LimitsType
<1>3. GetAvailableReplicaCount(c.rss, Seen(c)) \in Nat
    BY <1>1, CountsType
<1> QED
    BY <1>2, <1>3 DEF MaxScaleDown

LEMMA StartScaleDownTypeOK == TypeOK /\ StartScaleDown => TypeOK'
<1> SUFFICES ASSUME TypeOK, StartScaleDown PROVE TypeOK'
    OBVIOUS
<1>1. ctx \in Context /\ ctx.new \in Templates
    BY TypeOKParts, RunningPass DEF StartScaleDown, NeedsNew
<1>2. Larger(0, MaxScaleDown(ctx)) \in Nat /\ ctx.others \in SUBSET Templates
    BY <1>1, MaxScaleDownType DEF Larger, Context
<1>3. ctx' = [ctx EXCEPT !.budget = Larger(0, MaxScaleDown(ctx)), !.todo = ctx.others]
    BY Zenon DEF StartScaleDown
<1>4. ctx' \in Context
    BY <1>1, <1>2, <1>3, ContextUpdates
<1>5. ctx'.new \in Templates
    BY <1>1, <1>3 DEF Context
<1>6. PassOK'
    BY <1>4, <1>5, TypeOKParts, PassGoesOn DEF StartScaleDown, PassOK, PassPcs
<1> QED
    BY <1>6, TypeOKParts, Unchanged DEF StartScaleDown

LEMMA scaleDownOldReplicaSetsTypeOK == TypeOK /\ scaleDownOldReplicaSetsForCanary => TypeOK'
<1> SUFFICES ASSUME TypeOK, scaleDownOldReplicaSetsForCanary PROVE TypeOK'
    OBVIOUS
<1> DEFINE t == Victim(ctx)
           left == ctx.budget - (ctx.rss[t].spec - ScaleDownTo(ctx))
           stops == ctx.rss[t].spec = 0 \/ t \in staleRS
<1>1. ctx \in Context /\ ctx.new \in Templates /\ Victim(ctx) # Nil
    BY TypeOKParts, RunningPass DEF scaleDownOldReplicaSetsForCanary, NeedsNew
<1>2. t \in Templates /\ ScaleDownTo(ctx) \in Nat /\ left \in Nat
    BY <1>1, VictimType
<1>3. staleRO' = staleRO /\ staleRS' = staleRS /\ UNCHANGED <<rollout, retired, pauses, bounds>>
    BY Zenon DEF scaleDownOldReplicaSetsForCanary
<1>4. CASE stops
    <2>1. pc' = "persist" /\ rss' = rss /\ ctx' = ctx
        BY <1>4, Zenon DEF scaleDownOldReplicaSetsForCanary
    <2>2. PassOK' /\ UNCHANGED cluster
        BY <1>1, <1>3, <2>1, TypeOKParts, PassGoesOn DEF PassOK, PassPcs, NeedsNew, cluster
    <2> QED
        BY <1>3, <2>2, TypeOKParts, Unchanged
<1>5. CASE ~stops
    <2>1. /\ UpdateRS(t, Resize(rss[t], ScaleDownTo(ctx)))
          /\ ctx' = [ctx EXCEPT !.todo = ctx.todo \ {t}, !.budget = left]
          /\ pc' = IF t = ctx.stable \/ left = 0 THEN "persist" ELSE "scaleDown"
        BY <1>5, Zenon DEF scaleDownOldReplicaSetsForCanary
    <2> HIDE DEF t, left
    <2>2. ClusterOK'
        BY <1>2, <1>3, <2>1, RssUpdates, TypeOKParts DEF UpdateRS, ClusterOK
    <2>3. ctx.todo \ {t} \in SUBSET Templates
        BY <1>1 DEF Context
    <2>4. ctx' \in Context
        BY <1>1, <1>2, <2>1, <2>3 DEF Context
    <2>5. ctx'.new \in Templates
        BY <1>1, <2>1 DEF Context
    <2>6. pc' \in PassPcs
        BY <2>1 DEF PassPcs
    <2>7. PassOK'
        BY <1>3, <2>4, <2>5, <2>6, TypeOKParts, PassGoesOn DEF PassOK
    <2> QED
        BY <1>3, <2>2, <2>7, TypeOKParts, Unchanged
<1> QED
    BY <1>4, <1>5

LEMMA TryToCompleteTypeOK ==
    TypeOK /\ tryToCompleteStepAndSyncRolloutStatusCanary => TypeOK'
<1> SUFFICES ASSUME TypeOK, tryToCompleteStepAndSyncRolloutStatusCanary PROVE TypeOK'
    OBVIOUS
<1>1. ctx \in Context
    BY TypeOKParts, RunningPass DEF tryToCompleteStepAndSyncRolloutStatusCanary
<1>2. NewStatus(ctx) \in RolloutStatus
    BY <1>1, NewStatusType
<1>3. PICK kept \in BOOLEAN :
          status' = [NewStatus(ctx) EXCEPT !.progPaused = @ /\ kept]
    BY Zenon DEF tryToCompleteStepAndSyncRolloutStatusCanary
<1>4. status' \in RolloutStatus
    BY <1>2, <1>3 DEF RolloutStatus
<1>5. timeUp' \in BOOLEAN /\ resumed' \in BOOLEAN
    BY Zenon DEF tryToCompleteStepAndSyncRolloutStatusCanary
<1>6. EndPass /\ UNCHANGED <<spec, revision, cluster, bounds>>
    BY Zenon DEF tryToCompleteStepAndSyncRolloutStatusCanary
<1>7. RolloutOK' /\ BoundsOK'
    BY <1>4, <1>5, <1>6, TypeOKParts DEF RolloutOK, BoundsOK, bounds
<1> QED
    BY <1>6, <1>7, TypeOKParts, Unchanged, EndPassOK

\* A pass that panics, meets a conflict or fails leaves what it has written.
LEMMA PassEndsTypeOK == TypeOK /\ (PanicOnNilStable \/ Conflict \/ PassFails) => TypeOK'
<1> SUFFICES ASSUME TypeOK, PanicOnNilStable \/ Conflict \/ PassFails PROVE TypeOK'
    OBVIOUS
<1>1. EndPass /\ UNCHANGED <<rollout, cluster, pauses, edits>>
              /\ faults' \in {faults, faults + 1}
    BY DEF PanicOnNilStable, Conflict, PassFails, bounds
<1>2. BoundsOK'
    BY <1>1, TypeOKParts DEF BoundsOK, pauses
<1> QED
    BY <1>1, <1>2, TypeOKParts, Unchanged, EndPassOK

LEMMA OldScalingFailsTypeOK == TypeOK /\ OldScalingFails => TypeOK'
<1> SUFFICES ASSUME TypeOK, OldScalingFails PROVE TypeOK'
    OBVIOUS
<1>1. ctx \in Context
    BY TypeOKParts, RunningPass DEF OldScalingFails
<1>2. BoundsOK'
    BY TypeOKParts DEF OldScalingFails, BoundsOK, pauses
<1>3. PassOK'
    BY <1>1, TypeOKParts, PassGoesOn DEF OldScalingFails, PassOK, PassPcs, NeedsNew
<1> QED
    BY <1>2, <1>3, TypeOKParts, Unchanged DEF OldScalingFails

LEMMA UserTypeOK == TypeOK /\ (EditSpec \/ Resume) => TypeOK'
<1> SUFFICES ASSUME TypeOK, EditSpec \/ Resume PROVE TypeOK'
    OBVIOUS
<1>1. TouchRollout /\ UNCHANGED <<revision, cluster, pc, ctx, staleRS, timeUp, faults>>
      /\ edits' = edits + 1 /\ resumed' \in {resumed, TRUE}
    <2>1. CASE EditSpec
        BY <2>1 DEF EditSpec, pauses
    <2>2. CASE Resume
        BY <2>2, Zenon DEF Resume
    <2> QED
        BY <2>1, <2>2
<1>2. staleRO' \in BOOLEAN
    <2>1. staleRO' = (staleRO \/ (Locking /\ pc # "idle"))
        BY <1>1, Zenon DEF TouchRollout
    <2>2. staleRO \in BOOLEAN /\ Locking \in BOOLEAN
        BY TypeOKParts, ConstantsAssumption, Zenon DEF PassOK
    <2> QED
        BY <2>1, <2>2, Zenon
<1>3. PassOK'
    BY <1>1, <1>2, TypeOKParts DEF PassOK
<1>4. BoundsOK'
    <2>1. resumed' \in BOOLEAN /\ timeUp' \in BOOLEAN
        BY <1>1, TypeOKParts, Zenon DEF BoundsOK
    <2>2. edits' \in Nat /\ faults' \in Nat
        BY <1>1, TypeOKParts DEF BoundsOK
    <2> QED
        BY <2>1, <2>2 DEF BoundsOK
<1>5. spec' \in RolloutSpec /\ status' \in RolloutStatus
    <2>1. CASE EditSpec
        <3>1. spec' \in RolloutSpec /\ status' = status
            BY <2>1, Zenon DEF EditSpec
        <3> QED
            BY <3>1 DEF TypeOK
    <2>2. CASE Resume
        <3>1. PICK p \in {FALSE, spec.paused} : spec' = [spec EXCEPT !.paused = p]
            BY <2>2, Zenon DEF Resume
        <3>2. status' = [status EXCEPT !.pauseCondition = FALSE]
            BY <2>2, Zenon DEF Resume
        <3>3. p \in BOOLEAN
            BY DEF TypeOK, RolloutSpec
        <3> QED
            BY <3>1, <3>2, <3>3 DEF TypeOK, RolloutSpec, RolloutStatus
    <2> QED
        BY <2>1, <2>2
<1>6. RolloutOK'
    BY <1>1, <1>5, TypeOKParts DEF RolloutOK
<1> QED
    BY <1>1, <1>3, <1>4, <1>6, TypeOKParts, Unchanged

LEMMA PodsTypeOK ==
    ASSUME NEW t \in Templates
    PROVE  TypeOK /\ (SyncPods(t) \/ PodReady(t) \/ PodFails(t)) => TypeOK'
<1> SUFFICES ASSUME TypeOK, SyncPods(t) \/ PodReady(t) \/ PodFails(t) PROVE TypeOK'
    OBVIOUS
<1>1. rss \in [Templates -> ReplicaSet] /\ rss[t].spec \in Nat /\ rss[t].avail \in Nat
    BY DEF TypeOK, ReplicaSet
<1>2. rss' \in [Templates -> ReplicaSet]
    <2>1. CASE SyncPods(t)
        <3>1. Smaller(rss[t].avail, rss[t].spec) \in Nat
            BY <1>1 DEF Smaller
        <3>2. rss' = [rss EXCEPT ![t].actual = rss[t].spec,
                                 ![t].avail = Smaller(rss[t].avail, rss[t].spec),
                                 ![t].observed = TRUE]
            BY <2>1, Zenon DEF SyncPods
        <3> QED
            BY <1>1, <3>1, <3>2, RssUpdates, Zenon
    <2>2. CASE PodReady(t)
        <3>1. rss[t].avail + 1 \in Nat
            BY <1>1
        <3>2. rss' = [rss EXCEPT ![t].avail = rss[t].avail + 1]
            BY <2>2, Zenon DEF PodReady
        <3> QED
            BY <1>1, <3>1, <3>2, RssUpdates, Zenon
    <2>3. CASE PodFails(t)
        <3>1. rss[t].avail - 1 \in Nat
            BY <1>1, <2>3 DEF PodFails
        <3>2. rss' = [rss EXCEPT ![t].avail = rss[t].avail - 1]
            BY <2>3, Zenon DEF PodFails
        <3> QED
            BY <1>1, <3>1, <3>2, RssUpdates, Zenon
    <2> QED
        BY <2>1, <2>2, <2>3
<1>3. TouchRS({t}) /\ UNCHANGED <<rollout, retired, pc, ctx, staleRO, pauses, edits>>
      /\ faults' \in {faults, faults + 1}
    BY DEF SyncPods, PodReady, PodFails, bounds
<1>4. PassOK'
    BY <1>3, TypeOKParts DEF TouchRS, PassOK
<1>5. ClusterOK' /\ BoundsOK'
    BY <1>2, <1>3, TypeOKParts DEF ClusterOK, BoundsOK, pauses
<1> QED
    BY <1>3, <1>4, <1>5, TypeOKParts, Unchanged

LEMMA NextTypeOK == TypeOK /\ [Next]_vars => TypeOK'
<1> SUFFICES ASSUME TypeOK, [Next]_vars PROVE TypeOK'
    OBVIOUS
<1>1. CASE Pass
    BY <1>1, GetRolloutTypeOK, checkPausedConditionsTypeOK, syncReplicaSetRevisionTypeOK,
       createDesiredReplicaSetTypeOK, setRolloutRevisionTypeOK, AnnounceReplicaSetTypeOK,
       reconcileRevisionHistoryLimitTypeOK, StopsBeforeScalingTypeOK,
       reconcileNewReplicaSetTypeOK, reconcileOldReplicaSetsTypeOK,
       cleanupUnhealthyReplicasTypeOK, StartScaleDownTypeOK, scaleDownOldReplicaSetsTypeOK,
       TryToCompleteTypeOK, PassEndsTypeOK, Zenon DEF Pass
<1>2. CASE Failure
    BY <1>2, PassEndsTypeOK, OldScalingFailsTypeOK, PodsTypeOK, Zenon DEF Failure
<1>3. CASE User
    BY <1>3, UserTypeOK, Zenon DEF User
<1>4. CASE Kube
    BY <1>4, PodsTypeOK, Zenon DEF Kube
<1>5. CASE PauseElapses
    <2>1. BoundsOK'
        BY <1>5, TypeOKParts DEF PauseElapses, BoundsOK, bounds
    <2> QED
        BY <1>5, <2>1, TypeOKParts, Unchanged DEF PauseElapses
<1>6. CASE UNCHANGED vars
    BY <1>6, TypeOKParts, Unchanged DEF vars
<1> QED
    BY <1>1, <1>2, <1>3, <1>4, <1>5, <1>6, Zenon DEF Next

\* Every variable keeps its type, and a pass has found or created newRS
\* whenever the code dereferences it.
THEOREM TypeCorrect == Spec => []TypeOK
BY InitTypeOK, NextTypeOK, PTL DEF Spec

-----------------------------------------------------------------------------
(***************************************************************************)
(* Safety, from the inductive invariant IInv: nobody but the pass creates, *)
(* deletes or resizes ReplicaSets, or sets stableRS, so its snapshot,      *)
(* however old, is right about them.                                       *)
(***************************************************************************)
\* IInv but for the types and the revisions.
Safe == StableExists /\ AbsentHasNoPods /\ SnapshotIsCurrent /\ SizesAreCurrent

LEMMA IInvParts ==
    /\ IInv <=> TypeOK /\ Safe /\ RevisionsAreCurrent
    /\ TypeOK' /\ Safe' /\ RevisionsAreCurrent' => IInv'
BY Zenon DEF IInv, Safe

\* No ReplicaSet is created, deleted or resized.
SameReplicaSets ==
    \A t \in Templates : rss'[t].born = rss[t].born /\ rss'[t].spec = rss[t].spec

\* The pass still knows the same ReplicaSets and sizes.
SameSnapshot ==
    /\ ctx'.spec = ctx.spec
    /\ ctx'.new = ctx.new /\ ctx'.stable = ctx.stable /\ ctx'.others = ctx.others
    /\ ctx'.status.stableRS = ctx.status.stableRS
    /\ \A t \in Templates : ctx'.rss[t].spec = ctx.rss[t].spec

LEMMA ReplicaSetsType ==
    ASSUME TypeOK
    PROVE  \A t \in Templates : rss[t].born \in Nat /\ rss[t].spec \in Nat /\ rss[t].avail \in Nat
BY DEF TypeOK, ReplicaSet

LEMMA StableType ==
    ASSUME TypeOK
    PROVE  status.stableRS \in Templates \cup {Nil}
BY DEF TypeOK, RolloutStatus

\* What a running pass knows, by type.
LEMMA ContextType ==
    ASSUME TypeOK, pc # "idle"
    PROVE  /\ ctx \in Context
           /\ ctx.spec.template \in Templates
           /\ ctx.new \in Templates \cup {Nil} /\ ctx.stable \in Templates \cup {Nil}
           /\ ctx.others \subseteq Templates /\ ctx.todo \subseteq Templates
           /\ \A t \in Templates : ctx.rss[t].spec \in Nat /\ ctx.rss[t].avail \in Nat
           /\ pc \in PassPcs
<1>1. ctx \in Context /\ pc \in PassPcs
    BY DEF TypeOK
<1> QED
    BY <1>1 DEF Context, RolloutSpec, ReplicaSet

-----------------------------------------------------------------------------
(***************************************************************************)
(* Steps that leave the ReplicaSets as they are                            *)
(***************************************************************************)

\* Whatever leaves the pass, stableRS and the ReplicaSets' sizes alone.
LEMMA BesideThePass ==
    IInv /\ UNCHANGED <<pc, ctx>> /\ SameReplicaSets /\ status'.stableRS = status.stableRS
        => Safe'
<1> SUFFICES ASSUME IInv, UNCHANGED <<pc, ctx>>, SameReplicaSets,
                    status'.stableRS = status.stableRS
             PROVE  Safe'
    OBVIOUS
<1>1. TypeOK /\ Safe
    BY IInvParts
<1>2. \A t \in Templates : Exists(t)' <=> Exists(t)
    BY DEF SameReplicaSets, Exists
<1>3. status.stableRS \in Templates \cup {Nil}
    BY <1>1, StableType
<1>4. StableExists'
    BY <1>1, <1>2, <1>3 DEF Safe, StableExists
<1>5. AbsentHasNoPods'
    BY <1>1, <1>2 DEF Safe, AbsentHasNoPods, SameReplicaSets
<1>6. SnapshotIsCurrent'
    <2>1. CASE pc = "idle"
        BY <2>1 DEF SnapshotIsCurrent
    <2>2. CASE pc # "idle"
        <3>1. ctx.new \in Templates \cup {Nil} /\ ctx.spec.template \in Templates
            BY <1>1, <2>2, ContextType
        <3>2. SnapshotIsCurrent
            BY <1>1 DEF Safe
        <3>3. PodTemplateOrStepsChanged(ctx)' <=> PodTemplateOrStepsChanged(ctx)
            BY DEF PodTemplateOrStepsChanged
        <3> QED
            BY <1>2, <2>2, <3>1, <3>2, <3>3 DEF SnapshotIsCurrent
    <2> QED
        BY <2>1, <2>2
<1>7. SizesAreCurrent'
    <2>1. SizesAreCurrent /\ \A t \in Templates : rss'[t].spec = rss[t].spec
        BY <1>1 DEF Safe, SameReplicaSets
    <2>2. CASE pc \in PassPcs \ {"scaleDown", "persist"}
        BY <2>1, <2>2 DEF SizesAreCurrent
    <2>3. CASE pc = "scaleDown"
        <3>1. ctx.others \subseteq Templates /\ ctx.todo \subseteq Templates
            BY <1>1, <2>3, ContextType
        <3> QED
            BY <2>1, <2>3, <3>1 DEF SizesAreCurrent
    <2> QED
        BY <2>2, <2>3 DEF SizesAreCurrent
<1> QED
    BY <1>4, <1>5, <1>6, <1>7 DEF Safe

\* The end of a pass.
LEMMA PassOver ==
    IInv /\ EndPass /\ SameReplicaSets /\ StableExists' => Safe'
<1> SUFFICES ASSUME IInv, EndPass, SameReplicaSets, StableExists' PROVE Safe'
    OBVIOUS
<1>1. AbsentHasNoPods
    BY IInvParts DEF Safe
<1>2. AbsentHasNoPods'
    BY <1>1 DEF AbsentHasNoPods, SameReplicaSets, Exists
<1>3. pc' = "idle"
    BY DEF EndPass
<1>4. SnapshotIsCurrent' /\ SizesAreCurrent'
    BY <1>3 DEF SnapshotIsCurrent, SizesAreCurrent, PassPcs
<1> QED
    BY <1>2, <1>4 DEF Safe

\* A step of a pass that has newRS, from before the loop over the old
\* ReplicaSets or to the end of it.
LEMMA PassOn ==
    /\ IInv /\ pc # "idle" /\ ctx.new # Nil
    /\ pc' \in PassPcs \ {"create", "scaleDown"}
    /\ pc' = "persist" \/ pc \notin {"scaleDown", "persist"}
    /\ SameSnapshot /\ SameReplicaSets /\ status'.stableRS = status.stableRS
    => Safe'
<1> SUFFICES ASSUME IInv, pc # "idle", ctx.new # Nil,
                    pc' \in PassPcs \ {"create", "scaleDown"},
                    pc' = "persist" \/ pc \notin {"scaleDown", "persist"},
                    SameSnapshot, SameReplicaSets, status'.stableRS = status.stableRS
             PROVE  Safe'
    OBVIOUS
<1>1. TypeOK /\ StableExists /\ AbsentHasNoPods /\ SnapshotIsCurrent /\ SizesAreCurrent
    BY IInvParts DEF Safe
<1>2. \A t \in Templates : Exists(t)' <=> Exists(t)
    BY DEF SameReplicaSets, Exists
<1>3. ctx.new \in Templates /\ pc \in PassPcs
    BY <1>1, ContextType
<1>4. StableExists' /\ AbsentHasNoPods'
    BY <1>1, <1>2, StableType DEF StableExists, AbsentHasNoPods, SameReplicaSets
<1>5. SnapshotIsCurrent'
    BY <1>1, <1>2, <1>3 DEF SnapshotIsCurrent, SameSnapshot
<1>6. SizesAreCurrent'
    BY <1>1, <1>3 DEF SizesAreCurrent, SameSnapshot, SameReplicaSets
<1> QED
    BY <1>4, <1>5, <1>6 DEF Safe

-----------------------------------------------------------------------------
(***************************************************************************)
(* IInv holds at first, and every step keeps it.                           *)
(***************************************************************************)
LEMMA InitIInv == Init => IInv
<1> SUFFICES ASSUME Init PROVE IInv
    OBVIOUS
<1>0. PICK d \in Deployed : InitialRollout(d)
    BY DEF Init
<1>1. TypeOK
    BY InitTypeOK
<1>2. d # Nil => d = spec.template /\ d \in Templates
    BY <1>0, ConstantsAssumption DEF InitialRollout
<1>3. \A t \in Templates : rss[t] = IF t = d THEN DeployedRS(spec.replicas) ELSE Absent
    BY <1>0 DEF InitialRollout
<1>4. StableExists
    <2>1. CASE d = Nil
        BY <1>0, <2>1 DEF InitialRollout, StableExists, EmptyStatus
    <2>2. CASE d # Nil
        <3>1. status.stableRS = d
            BY <1>0, <1>2, <2>2 DEF InitialRollout, DeployedStatus, EmptyStatus
        <3> QED
            BY <1>2, <1>3, <2>2, <3>1 DEF StableExists, Exists, DeployedRS
    <2> QED
        BY <2>1, <2>2
<1>5. AbsentHasNoPods
    BY <1>3 DEF AbsentHasNoPods, Exists, DeployedRS, Absent
<1>6. SnapshotIsCurrent /\ SizesAreCurrent
    BY DEF Init, SnapshotIsCurrent, SizesAreCurrent, PassPcs
<1>7. RevisionsAreCurrent
    BY <1>3 DEF Init, RevisionsAreCurrent, Exists, Absent, DeployedRS, RevisionIsOpen, RevisionIsSet
<1> QED
    BY <1>1, <1>4, <1>5, <1>6, <1>7 DEF IInv

LEMMA GetRolloutSafe == IInv /\ GetRollout => Safe'
<1> SUFFICES ASSUME IInv, GetRollout PROVE Safe'
    OBVIOUS
<1> DEFINE new == IF Exists(spec.template) THEN spec.template ELSE Nil
           stable == IF status.stableRS # Nil /\ Exists(status.stableRS)
                     THEN status.stableRS ELSE Nil
           others == {t \in Templates : Exists(t)} \ {new, stable}
<1>1. TypeOK /\ StableExists /\ AbsentHasNoPods
    BY IInvParts DEF Safe
<1>2. /\ ctx'.spec = spec /\ ctx'.status = status /\ ctx'.rss = rss
      /\ ctx'.new = new /\ ctx'.stable = stable /\ ctx'.others = others
    BY DEF GetRollout
<1>3. pc' = "checkPaused" /\ status' = status /\ rss' = rss
    BY DEF GetRollout, rollout, cluster
<1>4. spec.template \in Templates /\ status.stableRS \in Templates \cup {Nil}
    BY <1>1 DEF TypeOK, RolloutSpec, RolloutStatus
<1>5. \A t \in Templates : Exists(t)' <=> Exists(t)
    BY <1>3 DEF Exists
<1>6. StableExists' /\ AbsentHasNoPods'
    BY <1>1, <1>3, <1>4, <1>5 DEF StableExists, AbsentHasNoPods
<1>7. SnapshotIsCurrent'
    BY <1>1, <1>2, <1>3, <1>4, <1>5, ConstantsAssumption DEF SnapshotIsCurrent, StableExists
<1>8. SizesAreCurrent'
    BY <1>2, <1>3 DEF SizesAreCurrent
<1> QED
    BY <1>6, <1>7, <1>8 DEF Safe

LEMMA checkPausedConditionsSafe == IInv /\ checkPausedConditions => Safe'
<1> SUFFICES ASSUME IInv, checkPausedConditions PROVE Safe'
    OBVIOUS
<1> DEFINE marked == [ctx.status EXCEPT !.progPaused = IsPaused(ctx),
                                        !.condPaused = IsPaused(ctx)]
<1>1. TypeOK /\ StableExists /\ AbsentHasNoPods /\ SnapshotIsCurrent /\ SizesAreCurrent
    BY IInvParts DEF Safe
<1>2. pc = "checkPaused" /\ pc' = SyncRevisionPc(ctx) /\ rss' = rss
    BY DEF checkPausedConditions, cluster
<1>3. ctx \in Context /\ ctx.new \in Templates \cup {Nil} /\ ctx.spec.template \in Templates
    BY <1>1, <1>2, ContextType
<1>4. ctx' = [ctx EXCEPT !.status = marked]
    BY Zenon DEF checkPausedConditions
<1>5. marked.stableRS = ctx.status.stableRS /\ marked.stepHash = ctx.status.stepHash
      /\ marked.podHash = ctx.status.podHash
    <2> HIDE DEF IsPaused
    <2>1. ctx.status \in RolloutStatus
        BY <1>3 DEF Context
    <2> QED
        BY <2>1 DEF RolloutStatus
<1>6. ctx'.status = marked
    <2> HIDE DEF marked
    <2> QED
        BY <1>3, <1>4 DEF Context
<1>7. /\ ctx'.spec = ctx.spec /\ ctx'.rss = ctx.rss
      /\ ctx'.new = ctx.new /\ ctx'.stable = ctx.stable /\ ctx'.others = ctx.others
    <2> HIDE DEF marked
    <2> QED
        BY <1>3, <1>4 DEF Context
<1>8. status'.stableRS = status.stableRS
    <2>1. CASE ctx.status = marked
        BY <2>1, Zenon DEF checkPausedConditions
    <2>2. CASE ctx.status # marked
        <3>1. status' = marked
            BY <2>2, Zenon DEF checkPausedConditions, UpdateStatus
        <3>2. ctx.status.stableRS = status.stableRS
            BY <1>1, <1>2 DEF SnapshotIsCurrent
        <3> QED
            BY <1>5, <3>1, <3>2, Zenon
    <2> QED
        BY <2>1, <2>2
<1> HIDE DEF marked
<1>9. \A t \in Templates : Exists(t)' <=> Exists(t)
    BY <1>2 DEF Exists
<1>10. StableExists' /\ AbsentHasNoPods'
    BY <1>1, <1>2, <1>8, <1>9, StableType DEF StableExists, AbsentHasNoPods
<1>11. PodTemplateOrStepsChanged(ctx)' <=> PodTemplateOrStepsChanged(ctx)
    BY <1>5, <1>6, <1>7 DEF PodTemplateOrStepsChanged
<1>12. SnapshotIsCurrent'
    <2>1. ctx'.status.stableRS = ctx.status.stableRS
        BY <1>5, <1>6
    <2>2. ctx.new = Nil => ~Exists(ctx.spec.template)
        BY <1>1, <1>2 DEF SnapshotIsCurrent
    <2>3. /\ ctx.new = Nil =>
                \/ pc' = "persist" /\ PodTemplateOrStepsChanged(ctx)
                \/ pc' = "create"
          /\ pc' = "create" => ctx.new = Nil
        BY <1>2 DEF SyncRevisionPc
    <2> QED
        BY <1>1, <1>2, <1>3, <1>7, <1>8, <1>9, <1>11, <2>1, <2>2, <2>3 DEF SnapshotIsCurrent
<1>13. SizesAreCurrent'
    <2>1. pc' # "scaleDown"
        BY <1>2 DEF SyncRevisionPc
    <2> QED
        BY <1>1, <1>2, <1>7, <2>1 DEF SizesAreCurrent, PassPcs
<1> QED
    BY <1>10, <1>12, <1>13 DEF Safe

LEMMA syncReplicaSetRevisionSafe == IInv /\ syncReplicaSetRevision => Safe'
<1> SUFFICES ASSUME IInv, syncReplicaSetRevision PROVE Safe'
    OBVIOUS
<1>1. TypeOK /\ pc = "syncRevision" /\ ctx.new # Nil
    BY IInvParts DEF syncReplicaSetRevision, TypeOK
<1>2. ctx \in Context /\ ctx.new \in Templates
    BY <1>1, ContextType
<1>3. rss \in [Templates -> ReplicaSet] /\ ctx.rss \in [Templates -> ReplicaSet]
    BY <1>1, <1>2 DEF TypeOK, Context
<1>4. SameReplicaSets
    BY <1>2, <1>3 DEF syncReplicaSetRevision, UpdateRS, SameReplicaSets, ReplicaSet
<1>5. SameSnapshot
    <2>1. /\ ctx'.spec = ctx.spec /\ ctx'.status = ctx.status
          /\ ctx'.new = ctx.new /\ ctx'.stable = ctx.stable /\ ctx'.others = ctx.others
        BY <1>2 DEF syncReplicaSetRevision, Context
    <2>2. ctx'.rss = [ctx.rss EXCEPT ![ctx.new].rev = NewRevision(ctx)]
        BY <1>2 DEF syncReplicaSetRevision, Context
    <2>3. \A t \in Templates : ctx'.rss[t].spec = ctx.rss[t].spec
        BY <1>2, <1>3, <2>2 DEF ReplicaSet
    <2> QED
        BY <2>1, <2>3 DEF SameSnapshot
<1>6. pc' \in {"persist", "history"} /\ status' = status
    BY DEF syncReplicaSetRevision, rollout
<1> QED
    BY <1>1, <1>4, <1>5, <1>6, PassOn DEF PassPcs

LEMMA createDesiredReplicaSetSafe == IInv /\ createDesiredReplicaSet => Safe'
<1> SUFFICES ASSUME IInv, createDesiredReplicaSet PROVE Safe'
    OBVIOUS
<1> DEFINE t == ctx.spec.template
<1>1. TypeOK /\ StableExists /\ AbsentHasNoPods /\ SnapshotIsCurrent /\ SizesAreCurrent
    BY IInvParts DEF Safe
<1>2. pc = "create" /\ pc' = "setRevision" /\ status' = status
    BY DEF createDesiredReplicaSet, rollout
<1>3. ctx \in Context /\ t \in Templates /\ ctx.stable \in Templates \cup {Nil}
    BY <1>1, <1>2, ContextType
<1>4. ~Exists(t)
    BY <1>1, <1>2 DEF SnapshotIsCurrent
<1>5. CreatedRS \in ReplicaSet /\ CreatedRS.spec = 0 /\ CreatedRS.born > 0
    BY <1>1, <1>2, <1>3, CreatedRSType
<1>6. rss' = [rss EXCEPT ![t] = CreatedRS]
    BY DEF createDesiredReplicaSet
<1>7. /\ ctx'.spec = ctx.spec /\ ctx'.status = ctx.status /\ ctx'.rss = ctx.rss
      /\ ctx'.new = t /\ ctx'.stable = ctx.stable /\ ctx'.others = ctx.others
    BY <1>3 DEF createDesiredReplicaSet, Context
<1> HIDE DEF t
<1>8. /\ rss'[t].born > 0 /\ rss'[t].spec = 0
      /\ \A u \in Templates \ {t} : rss'[u] = rss[u] /\ (Exists(u)' <=> Exists(u))
    <2>1. rss \in [Templates -> ReplicaSet]
        BY <1>1 DEF TypeOK
    <2>2. rss'[t] = CreatedRS /\ \A u \in Templates \ {t} : rss'[u] = rss[u]
        BY <1>3, <1>6, <2>1, Zenon
    <2> QED
        BY <1>5, <2>2 DEF Exists
<1>9. StableExists'
    <2>1. status.stableRS \in Templates \cup {Nil}
        BY <1>1, StableType
    <2> QED
        BY <1>1, <1>2, <1>3, <1>8, <2>1 DEF StableExists, Exists
<1>10. AbsentHasNoPods'
    BY <1>1, <1>8 DEF AbsentHasNoPods, Exists
<1>11. SnapshotIsCurrent'
    BY <1>1, <1>2, <1>3, <1>7, <1>8, ConstantsAssumption DEF SnapshotIsCurrent, Exists, t
<1>12. SizesAreCurrent'
    <2>1. rss[t].spec = 0
        BY <1>1, <1>3, <1>4 DEF AbsentHasNoPods
    <2>2. \A u \in Templates : rss'[u].spec = rss[u].spec
        BY <1>8, <2>1
    <2> QED
        BY <1>1, <1>2, <1>7, <2>2 DEF SizesAreCurrent, PassPcs
<1> QED
    BY <1>9, <1>10, <1>11, <1>12 DEF Safe

LEMMA setRolloutRevisionSafe == IInv /\ setRolloutRevision => Safe'
<1> SUFFICES ASSUME IInv, setRolloutRevision PROVE Safe'
    OBVIOUS
<1>1. TypeOK /\ pc \in {"setRevision", "syncRevision"} /\ ctx.new # Nil
    BY IInvParts DEF setRolloutRevision, TypeOK
<1>2. ctx \in Context
    BY <1>1, ContextType
<1>3. SameSnapshot
    <2>1. /\ ctx'.spec = ctx.spec /\ ctx'.status = ctx.status /\ ctx'.rss = ctx.rss
          /\ ctx'.new = ctx.new /\ ctx'.stable = ctx.stable /\ ctx'.others = ctx.others
        BY <1>2 DEF setRolloutRevision, Context
    <2> QED
        BY <2>1 DEF SameSnapshot
<1>4. pc' \in {"announce", "persist", "history"} /\ status' = status /\ rss' = rss
    BY DEF setRolloutRevision, cluster
<1> QED
    BY <1>1, <1>3, <1>4, PassOn DEF PassPcs, SameReplicaSets

LEMMA AnnounceReplicaSetSafe == IInv /\ AnnounceReplicaSet => Safe'
<1> SUFFICES ASSUME IInv, AnnounceReplicaSet PROVE Safe'
    OBVIOUS
<1> DEFINE announced == [ctx.status EXCEPT !.progPaused = FALSE]
<1>1. TypeOK /\ pc = "announce" /\ ctx.new # Nil /\ SnapshotIsCurrent
    BY IInvParts DEF AnnounceReplicaSet, TypeOK, Safe
<1>2. ctx \in Context
    BY <1>1, ContextType
<1>3. announced.stableRS = ctx.status.stableRS
    BY <1>2 DEF Context, RolloutStatus
<1>4. /\ status' = announced /\ ctx' = [ctx EXCEPT !.status = announced]
      /\ pc' = "history" /\ rss' = rss
    BY DEF AnnounceReplicaSet, UpdateStatus, cluster
<1> HIDE DEF announced
<1>5. SameSnapshot
    <2>1. /\ ctx'.spec = ctx.spec /\ ctx'.status = announced /\ ctx'.rss = ctx.rss
          /\ ctx'.new = ctx.new /\ ctx'.stable = ctx.stable /\ ctx'.others = ctx.others
        BY <1>2, <1>4 DEF Context
    <2> QED
        BY <1>3, <2>1 DEF SameSnapshot
<1>6. status'.stableRS = status.stableRS
    BY <1>1, <1>3, <1>4 DEF SnapshotIsCurrent
<1> QED
    BY <1>1, <1>4, <1>5, <1>6, PassOn DEF PassPcs, SameReplicaSets

\* The steps of a pass, once it has newRS, that write nothing.
LEMMA WritesNothingSafe ==
    IInv /\ (reconcileCanaryPause \/ haltProgress \/ reconcileOldReplicaSets) => Safe'
<1> SUFFICES ASSUME IInv, reconcileCanaryPause \/ haltProgress \/ reconcileOldReplicaSets
             PROVE  Safe'
    OBVIOUS
<1>1. pc = "scale" /\ pc' \in {"persist", "cleanup"} /\ status' = status /\ rss' = rss
    BY DEF reconcileCanaryPause, haltProgress, reconcileOldReplicaSets, rollout, cluster
<1>2. TypeOK /\ ctx.new # Nil
    BY <1>1, IInvParts DEF TypeOK
<1>3. ctx \in Context
    BY <1>1, <1>2, ContextType
<1>4. SameSnapshot
    BY <1>3 DEF reconcileCanaryPause, haltProgress, reconcileOldReplicaSets, SameSnapshot, Context
<1> QED
    BY <1>1, <1>2, <1>4, PassOn DEF PassPcs, SameReplicaSets

-----------------------------------------------------------------------------
(***************************************************************************)
(* What the pass writes to the ReplicaSets                                 *)
(***************************************************************************)

\* rss' is rss but for the size of t, which exists.
Resized(t, n) ==
    /\ Exists(t)
    /\ rss' = [rss EXCEPT ![t] = Resize(rss[t], n)]

LEMMA ResizedOnly ==
    ASSUME TypeOK, NEW t \in Templates, NEW n \in Nat, Resized(t, n)
    PROVE  /\ rss'[t].spec = n /\ rss'[t].born = rss[t].born
           /\ \A u \in Templates \ {t} : rss'[u] = rss[u]
           /\ \A u \in Templates : Exists(u)' <=> Exists(u)
<1>1. rss \in [Templates -> ReplicaSet] /\ rss[t] \in ReplicaSet
    BY DEF TypeOK
<1>2. rss'[t] = Resize(rss[t], n) /\ \A u \in Templates \ {t} : rss'[u] = rss[u]
    BY <1>1, Zenon DEF Resized
<1>3. rss'[t].spec = n /\ rss'[t].born = rss[t].born
    BY <1>1, <1>2 DEF ReplicaSet, Resize
<1> QED
    BY <1>2, <1>3 DEF Exists

\* Resizing leaves stableRS and every ReplicaSet in place.
LEMMA ResizedSafe ==
    ASSUME IInv, NEW t \in Templates, NEW n \in Nat, Resized(t, n),
           status'.stableRS = status.stableRS
    PROVE  StableExists' /\ AbsentHasNoPods'
<1>1. TypeOK /\ StableExists /\ AbsentHasNoPods
    BY IInvParts DEF Safe
<1>2. /\ \A u \in Templates \ {t} : rss'[u] = rss[u]
      /\ \A u \in Templates : Exists(u)' <=> Exists(u)
    BY <1>1, ResizedOnly
<1>3. status.stableRS \in Templates \cup {Nil} /\ Exists(t)
    BY <1>1, StableType DEF Resized
<1>4. StableExists'
    BY <1>1, <1>2, <1>3 DEF StableExists
<1>5. AbsentHasNoPods'
    BY <1>1, <1>2, <1>3 DEF AbsentHasNoPods
<1> QED
    BY <1>4, <1>5

\* The history limit only ever deletes one of otherRSs that has no pods.
LEMMA HistoryDeletes ==
    ASSUME IInv, reconcileRevisionHistoryLimit
    PROVE  \/ rss' = rss
           \/ \E t \in ctx.others : ctx.rss[t].spec = 0 /\ rss' = [rss EXCEPT ![t] = Absent]
<1> DEFINE left == {t \in Doomed(ctx) : Exists(t)}
           gone == retired > ctx.retired - DoomedRetired(ctx)
<1>1. ctx \in Context
    BY IInvParts, ContextType DEF reconcileRevisionHistoryLimit
<1>2. left \subseteq ctx.others /\ \A t \in left : ctx.rss[t].spec = 0
    BY DEF Doomed, HasNoPods
<1>3. ctx.others \subseteq Templates
    BY <1>1 DEF Context
<1>4. CASE gone \/ left = {}
    BY <1>4, Zenon DEF reconcileRevisionHistoryLimit, cluster
<1>5. CASE ~gone /\ left # {}
    <2>1. rss' = [rss EXCEPT ![OldestFirst(ctx, left)] = Absent]
        BY <1>5, Zenon DEF reconcileRevisionHistoryLimit
    <2>2. OldestFirst(ctx, left) \in left
        <3>1. left \subseteq Templates
            BY <1>2, <1>3
        <3> HIDE DEF left
        <3> QED
            BY <1>1, <1>5, <3>1, PicksFromSet
    <2> HIDE DEF left
    <2> QED
        BY <1>2, <2>1, <2>2
<1> QED
    BY <1>4, <1>5

\* The cleanup shrinks one of otherRSs to what it has available.
LEMMA CleanupShrinks ==
    ASSUME IInv, cleanupUnhealthyReplicas
    PROVE  \/ pc' = "persist" /\ ctx' = ctx /\ rss' = rss
           \/ \E t \in ctx.others, n \in Nat :
                 /\ Resized(t, n) /\ n <= rss[t].spec /\ n = ctx.rss[t].avail
                 /\ ctx' = [ctx EXCEPT !.rss[t].spec = n] /\ pc' = "cleanup"
<1> DEFINE t == OldestFirst(ctx, Unhealthy(ctx))
           stops == MoreAvailableThanWanted(ctx.rss[t]) \/ t \in staleRS
<1>1. TypeOK /\ pc = "cleanup" /\ AbsentHasNoPods /\ SizesAreCurrent
    BY IInvParts DEF cleanupUnhealthyReplicas, Safe
<1>2. ctx \in Context /\ ctx.others \subseteq Templates
    BY <1>1, ContextType
<1>3. t \in Unhealthy(ctx)
    <2>1. Unhealthy(ctx) \subseteq Templates /\ Unhealthy(ctx) # {}
        BY <1>2 DEF Unhealthy, cleanupUnhealthyReplicas
    <2> QED
        BY <1>2, <2>1, PicksFromSet
<1>4. t \in ctx.others /\ t \in Templates /\ ctx.rss[t].spec > 0
    <2> HIDE DEF t
    <2> QED
        BY <1>2, <1>3 DEF Unhealthy
<1>5. CASE stops
    BY <1>5, Zenon DEF cleanupUnhealthyReplicas
<1>6. CASE ~stops
    <2>1. /\ rss' = [rss EXCEPT ![t] = Resize(rss[t], ctx.rss[t].avail)]
          /\ ctx' = [ctx EXCEPT !.rss[t].spec = ctx.rss[t].avail]
          /\ pc' = pc
          /\ ~(ctx.rss[t].avail > ctx.rss[t].spec)
        BY <1>6, Zenon DEF cleanupUnhealthyReplicas, UpdateRS, MoreAvailableThanWanted
    <2> HIDE DEF t
    <2>2. ctx.rss[t].avail \in Nat /\ ctx.rss[t].spec \in Nat /\ rss[t].spec = ctx.rss[t].spec
        BY <1>1, <1>4, ContextType DEF SizesAreCurrent, PassPcs
    <2>3. Exists(t)
        BY <1>1, <1>4, <2>2 DEF AbsentHasNoPods
    <2>4. Resized(t, ctx.rss[t].avail) /\ ctx.rss[t].avail <= rss[t].spec
        BY <2>1, <2>2, <2>3 DEF Resized
    <2> QED
        BY <1>1, <1>4, <2>1, <2>2, <2>4
<1> QED
    BY <1>5, <1>6

\* The loop shrinks one of otherRSs, or the stable one once all of them are at
\* zero; it only goes on after it has taken all the pods of one of them.
LEMMA ScaleDownShrinks ==
    ASSUME IInv, scaleDownOldReplicaSetsForCanary
    PROVE  \/ pc' = "persist" /\ ctx' = ctx /\ rss' = rss
           \/ \E t \in Templates, n \in Nat :
                 /\ Resized(t, n) /\ n <= rss[t].spec
                 /\ \/ t \in ctx.todo
                    \/ t = ctx.stable /\ \A u \in ctx.todo : ctx.rss[u].spec = 0
                 /\ \E left \in Nat :
                       /\ left = ctx.budget - (rss[t].spec - n)
                       /\ ctx' = [ctx EXCEPT !.todo = ctx.todo \ {t}, !.budget = left]
                       /\ \/ pc' = "persist"
                          \/ pc' = "scaleDown" /\ left > 0 /\ n = 0 /\ t # ctx.stable
<1> DEFINE t == Victim(ctx)
           left == ctx.budget - (ctx.rss[t].spec - ScaleDownTo(ctx))
           stops == ctx.rss[t].spec = 0 \/ t \in staleRS
<1>1. TypeOK /\ pc = "scaleDown" /\ t # Nil /\ AbsentHasNoPods /\ SizesAreCurrent
    BY IInvParts DEF scaleDownOldReplicaSetsForCanary, Safe
<1>2. ctx \in Context
    BY <1>1, ContextType
<1>3. /\ t \in Templates /\ (t \in ctx.todo \/ t = ctx.stable)
      /\ \/ t \in ctx.todo
         \/ t = ctx.stable /\ \A u \in ctx.todo : ctx.rss[u].spec = 0
      /\ ScaleDownTo(ctx) \in Nat /\ left \in Nat /\ ScaleDownTo(ctx) <= ctx.rss[t].spec
      /\ left > 0 => ScaleDownTo(ctx) = 0
    BY <1>1, <1>2, VictimType
<1>4. CASE stops
    BY <1>4, Zenon DEF scaleDownOldReplicaSetsForCanary
<1>5. CASE ~stops
    <2>1. /\ rss' = [rss EXCEPT ![t] = Resize(rss[t], ScaleDownTo(ctx))]
          /\ ctx' = [ctx EXCEPT !.todo = ctx.todo \ {t}, !.budget = left]
          /\ pc' = IF t = ctx.stable \/ left = 0 THEN "persist" ELSE "scaleDown"
        BY <1>5, Zenon DEF scaleDownOldReplicaSetsForCanary, UpdateRS
    <2> HIDE DEF t, left
    <2>2. ctx.rss[t].spec \in Nat /\ rss[t].spec = ctx.rss[t].spec
        BY <1>1, <1>3, ContextType DEF SizesAreCurrent
    <2>3. Exists(t)
        BY <1>1, <1>3, <1>5, <2>2 DEF AbsentHasNoPods
    <2>4. Resized(t, ScaleDownTo(ctx)) /\ ScaleDownTo(ctx) <= rss[t].spec
        BY <1>3, <2>1, <2>2, <2>3 DEF Resized
    <2>5. \/ pc' = "persist"
          \/ pc' = "scaleDown" /\ left > 0 /\ ScaleDownTo(ctx) = 0 /\ t # ctx.stable
        BY <1>3, <2>1
    <2>6. left = ctx.budget - (rss[t].spec - ScaleDownTo(ctx))
        BY <2>2 DEF left
    <2> QED
        BY <1>3, <2>1, <2>4, <2>5, <2>6
<1> QED
    BY <1>4, <1>5

-----------------------------------------------------------------------------
(***************************************************************************)
(* Those writes keep the invariant.                                        *)
(***************************************************************************)
LEMMA HistorySafe == IInv /\ reconcileRevisionHistoryLimit => Safe'
<1> SUFFICES ASSUME IInv, reconcileRevisionHistoryLimit PROVE Safe'
    OBVIOUS
<1>1. TypeOK /\ StableExists /\ AbsentHasNoPods /\ SnapshotIsCurrent /\ SizesAreCurrent
    BY IInvParts DEF Safe
<1>2. /\ pc = "history" /\ pc' \in {"history", "scale"} /\ ctx' = ctx /\ status' = status
      /\ ctx.new # Nil
    BY <1>1 DEF reconcileRevisionHistoryLimit, rollout, TypeOK
<1>3. CASE rss' = rss
    BY <1>2, <1>3, PassOn DEF SameSnapshot, SameReplicaSets, PassPcs
<1>4. CASE rss' # rss
    <2>1. PICK d \in ctx.others : ctx.rss[d].spec = 0 /\ rss' = [rss EXCEPT ![d] = Absent]
        BY <1>4, HistoryDeletes
    <2>2. /\ ctx.others \subseteq Templates /\ ctx.new \in Templates
          /\ ctx.stable \in Templates \cup {Nil}
        BY <1>1, <1>2, ContextType
    <2>3. rss'[d] = Absent /\ \A t \in Templates \ {d} : rss'[t] = rss[t]
        BY <1>1, <2>1, <2>2 DEF TypeOK
    <2>4. /\ \A t \in Templates : t # d => (Exists(t)' <=> Exists(t))
          /\ ~(rss'[d].born > 0) /\ rss'[d].spec = 0
        BY <2>3 DEF Exists, Absent
    <2>5. status.stableRS # Nil => status.stableRS # d /\ status.stableRS \in Templates
        BY <1>1, <1>2, <2>1, StableType DEF SnapshotIsCurrent
    <2>6. StableExists'
        BY <1>1, <1>2, <2>4, <2>5 DEF StableExists
    <2>7. AbsentHasNoPods'
        BY <1>1, <2>3, <2>4 DEF AbsentHasNoPods
    <2>8. ctx.new # d
        BY <1>1, <1>2, <2>1 DEF SnapshotIsCurrent
    <2>9. SnapshotIsCurrent'
        BY <1>1, <1>2, <2>1, <2>2, <2>4, <2>8 DEF SnapshotIsCurrent, Exists
    <2>10. SizesAreCurrent'
        BY <1>1, <1>2, <2>1, <2>3, <2>4 DEF SizesAreCurrent, PassPcs
    <2> QED
        BY <2>6, <2>7, <2>9, <2>10 DEF Safe
<1> QED
    BY <1>3, <1>4

LEMMA reconcileNewReplicaSetSafe == IInv /\ reconcileNewReplicaSet => Safe'
<1> SUFFICES ASSUME IInv, reconcileNewReplicaSet PROVE Safe'
    OBVIOUS
<1>1. TypeOK /\ SnapshotIsCurrent
    BY IInvParts DEF Safe
<1>2. pc = "scale" /\ ctx.new # Nil /\ pc' = "persist" /\ ctx' = ctx /\ status' = status
    BY <1>1 DEF reconcileNewReplicaSet, rollout, TypeOK
<1>3. ctx \in Context /\ ctx.new \in Templates /\ NewReplicasCount(ctx) \in Nat
    BY <1>1, <1>2, ContextType, SizesType
<1>4. Resized(ctx.new, NewReplicasCount(ctx))
    BY <1>1, <1>2 DEF reconcileNewReplicaSet, UpdateRS, Resized, SnapshotIsCurrent
<1>5. StableExists' /\ AbsentHasNoPods'
    BY <1>2, <1>3, <1>4, ResizedSafe
<1>6. \A u \in Templates : Exists(u)' <=> Exists(u)
    BY <1>1, <1>3, <1>4, ResizedOnly
<1>7. SnapshotIsCurrent'
    BY <1>1, <1>2, <1>3, <1>6 DEF SnapshotIsCurrent
<1>8. SizesAreCurrent'
    BY <1>2 DEF SizesAreCurrent
<1> QED
    BY <1>5, <1>7, <1>8 DEF Safe

\* The snapshot after a resizing, of which only the sizes may be new.
LEMMA ResizedSnapshot ==
    ASSUME IInv, NEW t \in Templates, NEW n \in Nat, Resized(t, n), pc # "idle",
           ctx.new # Nil, pc' # "create", status' = status,
           ctx'.spec = ctx.spec, ctx'.status = ctx.status, ctx'.new = ctx.new,
           ctx'.stable = ctx.stable, ctx'.others = ctx.others
    PROVE  SnapshotIsCurrent'
<1>1. TypeOK /\ SnapshotIsCurrent
    BY IInvParts DEF Safe
<1>2. \A u \in Templates : Exists(u)' <=> Exists(u)
    BY <1>1, ResizedOnly
<1>3. ctx.new \in Templates
    BY <1>1, ContextType
<1> QED
    BY <1>1, <1>2, <1>3 DEF SnapshotIsCurrent

LEMMA cleanupUnhealthyReplicasSafe == IInv /\ cleanupUnhealthyReplicas => Safe'
<1> SUFFICES ASSUME IInv, cleanupUnhealthyReplicas PROVE Safe'
    OBVIOUS
<1>1. TypeOK /\ SizesAreCurrent
    BY IInvParts DEF Safe
<1>2. pc = "cleanup" /\ ctx.new # Nil /\ status' = status
    BY <1>1 DEF cleanupUnhealthyReplicas, rollout, TypeOK
<1>3. CASE pc' = "persist" /\ ctx' = ctx /\ rss' = rss
    BY <1>2, <1>3, PassOn DEF SameSnapshot, SameReplicaSets, PassPcs
<1>4. CASE ~(pc' = "persist" /\ ctx' = ctx /\ rss' = rss)
    <2>1. PICK t \in ctx.others, n \in Nat :
              /\ Resized(t, n) /\ n <= rss[t].spec
              /\ ctx' = [ctx EXCEPT !.rss[t].spec = n] /\ pc' = "cleanup"
        BY <1>4, CleanupShrinks
    <2>2. ctx \in Context /\ t \in Templates
        BY <1>1, <1>2, <2>1, ContextType
    <2>3. StableExists' /\ AbsentHasNoPods'
        BY <1>2, <2>1, <2>2, ResizedSafe
    <2>4. /\ ctx'.spec = ctx.spec /\ ctx'.status = ctx.status
          /\ ctx'.new = ctx.new /\ ctx'.stable = ctx.stable /\ ctx'.others = ctx.others
          /\ ctx'.rss = [ctx.rss EXCEPT ![t].spec = n]
        BY <2>1, <2>2 DEF Context
    <2>5. SnapshotIsCurrent'
        BY <1>2, <2>1, <2>2, <2>4, ResizedSnapshot
    <2>6. SizesAreCurrent'
        <3>1. rss'[t].spec = n /\ \A u \in Templates \ {t} : rss'[u] = rss[u]
            BY <1>1, <2>1, <2>2, ResizedOnly
        <3>2. ctx'.rss[t].spec = n /\ \A u \in Templates \ {t} : ctx'.rss[u] = ctx.rss[u]
            BY <2>2, <2>4 DEF Context, ReplicaSet
        <3> QED
            BY <1>1, <1>2, <2>1, <2>2, <3>1, <3>2 DEF SizesAreCurrent, PassPcs
    <2> QED
        BY <2>3, <2>5, <2>6 DEF Safe
<1> QED
    BY <1>3, <1>4

LEMMA StartScaleDownSafe == IInv /\ StartScaleDown => Safe'
<1> SUFFICES ASSUME IInv, StartScaleDown PROVE Safe'
    OBVIOUS
<1>1. TypeOK /\ StableExists /\ AbsentHasNoPods /\ SnapshotIsCurrent /\ SizesAreCurrent
    BY IInvParts DEF Safe
<1>2. pc = "cleanup" /\ ctx.new # Nil /\ status' = status /\ rss' = rss
    BY <1>1 DEF StartScaleDown, rollout, cluster, TypeOK
<1>3. ctx \in Context /\ ctx.new \in Templates /\ MaxScaleDown(ctx) \in Int
    BY <1>1, <1>2, ContextType, MaxScaleDownType
<1>4. ctx' = [ctx EXCEPT !.budget = Larger(0, MaxScaleDown(ctx)), !.todo = ctx.others]
    BY Zenon DEF StartScaleDown
<1>5. /\ ctx'.spec = ctx.spec /\ ctx'.status = ctx.status /\ ctx'.rss = ctx.rss
      /\ ctx'.new = ctx.new /\ ctx'.stable = ctx.stable /\ ctx'.others = ctx.others
      /\ ctx'.budget = Larger(0, MaxScaleDown(ctx)) /\ ctx'.todo = ctx.others
    BY <1>3, <1>4 DEF Context
<1>6. CASE pc' = "persist"
    BY <1>2, <1>5, <1>6, PassOn DEF SameSnapshot, SameReplicaSets, PassPcs
<1>7. CASE pc' # "persist"
    <2>1. pc' = "scaleDown" /\ MaxScaleDown(ctx) > 0
        BY <1>3, <1>7 DEF StartScaleDown
    <2>2. StableExists' /\ AbsentHasNoPods'
        BY <1>1, <1>2 DEF StableExists, AbsentHasNoPods, Exists
    <2>3. SnapshotIsCurrent'
        BY <1>1, <1>2, <1>3, <1>5, <2>1 DEF SnapshotIsCurrent, Exists
    <2>4. SizesAreCurrent'
        BY <1>1, <1>2, <1>3, <1>5, <2>1 DEF SizesAreCurrent, PassPcs, Larger
    <2> QED
        BY <2>2, <2>3, <2>4 DEF Safe
<1> QED
    BY <1>6, <1>7

LEMMA scaleDownOldReplicaSetsSafe == IInv /\ scaleDownOldReplicaSetsForCanary => Safe'
<1> SUFFICES ASSUME IInv, scaleDownOldReplicaSetsForCanary PROVE Safe'
    OBVIOUS
<1>1. TypeOK /\ SizesAreCurrent /\ SnapshotIsCurrent
    BY IInvParts DEF Safe
<1>2. pc = "scaleDown" /\ ctx.new # Nil /\ status' = status
    BY <1>1 DEF scaleDownOldReplicaSetsForCanary, rollout, TypeOK
<1>3. CASE pc' = "persist" /\ ctx' = ctx /\ rss' = rss
    BY <1>2, <1>3, PassOn DEF SameSnapshot, SameReplicaSets, PassPcs
<1>4. CASE ~(pc' = "persist" /\ ctx' = ctx /\ rss' = rss)
    <2>1. PICK t \in Templates, n \in Nat :
              /\ Resized(t, n)
              /\ \E left \in Nat :
                    /\ ctx' = [ctx EXCEPT !.todo = ctx.todo \ {t}, !.budget = left]
                    /\ \/ pc' = "persist"
                       \/ pc' = "scaleDown" /\ left > 0 /\ n = 0 /\ t # ctx.stable
        BY <1>4, ScaleDownShrinks
    <2>2. PICK left \in Nat :
              /\ ctx' = [ctx EXCEPT !.todo = ctx.todo \ {t}, !.budget = left]
              /\ \/ pc' = "persist"
                 \/ pc' = "scaleDown" /\ left > 0 /\ n = 0 /\ t # ctx.stable
        BY <2>1
    <2>3. ctx \in Context /\ ctx.others \subseteq Templates /\ ctx.todo \subseteq Templates
        BY <1>1, <1>2, ContextType
    <2>4. StableExists' /\ AbsentHasNoPods'
        BY <1>2, <2>1, ResizedSafe
    <2>5. /\ ctx'.spec = ctx.spec /\ ctx'.status = ctx.status /\ ctx'.rss = ctx.rss
          /\ ctx'.new = ctx.new /\ ctx'.stable = ctx.stable /\ ctx'.others = ctx.others
          /\ ctx'.todo = ctx.todo \ {t} /\ ctx'.budget = left
        BY <2>2, <2>3 DEF Context
    <2>6. SnapshotIsCurrent'
        BY <1>2, <2>1, <2>2, <2>5, ResizedSnapshot
    <2>7. SizesAreCurrent'
        <3>1. rss'[t].spec = n /\ \A u \in Templates \ {t} : rss'[u] = rss[u]
            BY <1>1, <2>1, ResizedOnly
        <3> QED
            BY <1>1, <1>2, <2>2, <2>3, <2>5, <3>1 DEF SizesAreCurrent
    <2> QED
        BY <2>4, <2>6, <2>7 DEF Safe
<1> QED
    BY <1>3, <1>4

LEMMA OldScalingFailsSafe == IInv /\ OldScalingFails => Safe'
<1> SUFFICES ASSUME IInv, OldScalingFails PROVE Safe'
    OBVIOUS
<1>1. pc \in {"cleanup", "scaleDown"} /\ pc' = "persist" /\ ctx' = ctx /\ rss' = rss
      /\ status' = status
    BY DEF OldScalingFails, rollout, cluster
<1>2. ctx.new # Nil
    BY <1>1, IInvParts DEF TypeOK
<1> QED
    BY <1>1, <1>2, PassOn DEF SameSnapshot, SameReplicaSets, PassPcs

-----------------------------------------------------------------------------
(***************************************************************************)
(* The end of a pass: what becomes stable exists.                          *)
(***************************************************************************)
LEMMA TryToCompleteSafe == IInv /\ tryToCompleteStepAndSyncRolloutStatusCanary => Safe'
<1> SUFFICES ASSUME IInv, tryToCompleteStepAndSyncRolloutStatusCanary PROVE Safe'
    OBVIOUS
<1>1. TypeOK /\ StableExists /\ SnapshotIsCurrent
    BY IInvParts DEF Safe
<1>2. pc = "persist" /\ EndPass /\ rss' = rss
    BY Zenon DEF tryToCompleteStepAndSyncRolloutStatusCanary, cluster
<1>3. ctx \in Context /\ NewStatus(ctx) \in RolloutStatus
    BY <1>1, <1>2, ContextType, NewStatusType
<1>4. status'.stableRS = NewStatus(ctx).stableRS
    <2>1. PICK kept \in BOOLEAN :
              status' = [NewStatus(ctx) EXCEPT !.progPaused = @ /\ kept]
        BY Zenon DEF tryToCompleteStepAndSyncRolloutStatusCanary
    <2> QED
        BY <1>3, <2>1 DEF RolloutStatus
<1>5. CASE NewStatus(ctx).stableRS = ctx.status.stableRS
    <2>1. status'.stableRS = status.stableRS
        BY <1>1, <1>2, <1>4, <1>5 DEF SnapshotIsCurrent
    <2>2. StableExists'
        BY <1>1, <1>2, <2>1 DEF StableExists, Exists
    <2> QED
        BY <1>2, <2>2, PassOver DEF SameReplicaSets
<1>6. CASE NewStatus(ctx).stableRS # ctx.status.stableRS
    <2>1. ~PodTemplateOrStepsChanged(ctx) /\ NewStatus(ctx).stableRS = ctx.spec.template
        BY <1>3, <1>6, NewStatusType, StableOnlyByPromotion
    <2>2. Exists(ctx.spec.template) /\ ctx.spec.template = status'.stableRS
        BY <1>1, <1>2, <1>4, <2>1 DEF SnapshotIsCurrent
    <2>3. StableExists'
        BY <1>2, <2>2 DEF StableExists, Exists
    <2> QED
        BY <1>2, <2>3, PassOver DEF SameReplicaSets
<1> QED
    BY <1>5, <1>6

\* A pass that panics, meets a conflict or fails.
LEMMA PassEndsSafe == IInv /\ (PanicOnNilStable \/ Conflict \/ PassFails) => Safe'
<1> SUFFICES ASSUME IInv, PanicOnNilStable \/ Conflict \/ PassFails PROVE Safe'
    OBVIOUS
<1>1. EndPass /\ rss' = rss /\ status' = status
    BY DEF PanicOnNilStable, Conflict, PassFails, rollout, cluster
<1>2. StableExists'
    BY <1>1, IInvParts DEF Safe, StableExists, Exists
<1> QED
    BY <1>1, <1>2, PassOver DEF SameReplicaSets

\* The user, the pods and the clock.
LEMMA EnvironmentSafe ==
    /\ IInv /\ (User \/ Kube \/ PauseElapses \/ UNCHANGED vars) => Safe'
    /\ IInv /\ (\E t \in Templates : PodFails(t)) => Safe'
<1>1. ASSUME IInv, User \/ PauseElapses \/ UNCHANGED vars
      PROVE  Safe'
    <2>1. pc' = pc /\ ctx' = ctx /\ rss' = rss
        BY <1>1 DEF User, EditSpec, Resume, PauseElapses, vars, cluster, pass
    <2>2. status'.stableRS = status.stableRS
        <3>1. CASE Resume
            <4>1. status \in RolloutStatus
                BY <1>1, IInvParts DEF TypeOK
            <4>2. status' = [status EXCEPT !.pauseCondition = FALSE]
                BY <3>1, Zenon DEF Resume
            <4> QED
                BY <4>1, <4>2 DEF RolloutStatus
        <3>2. CASE ~Resume
            BY <1>1, <3>2 DEF User, EditSpec, PauseElapses, vars, rollout
        <3> QED
            BY <3>1, <3>2
    <2> QED
        BY <1>1, <2>1, <2>2, BesideThePass DEF SameReplicaSets
<1>2. ASSUME IInv, NEW t \in Templates, SyncPods(t) \/ PodReady(t) \/ PodFails(t)
      PROVE  Safe'
    <2>1. rss \in [Templates -> ReplicaSet]
        BY <1>2, IInvParts DEF TypeOK
    <2>2. SameReplicaSets
        BY <1>2, <2>1 DEF SyncPods, PodReady, PodFails, SameReplicaSets, ReplicaSet
    <2>3. pc' = pc /\ ctx' = ctx /\ status' = status
        BY <1>2 DEF SyncPods, PodReady, PodFails, rollout
    <2> QED
        BY <1>2, <2>2, <2>3, BesideThePass
<1> QED
    BY <1>1, <1>2, Zenon DEF Kube

-----------------------------------------------------------------------------
(***************************************************************************)
(* Revisions: only the pass writes them, and only that of newRS.           *)
(***************************************************************************)
LEMMA MaxRevisionBounds ==
    ASSUME NEW c \in Context
    PROVE  /\ NewRevision(c) \in Nat /\ NewRevision(c) = MaxRevision(c) + 1 /\ NewRevision(c) > 0
           /\ \A t \in Older(c) : c.rss[t].rev < NewRevision(c)
<1>1. /\ c.rss \in [Templates -> ReplicaSet] /\ Older(c) \subseteq Templates
      /\ MaxRevision(c) \in Nat
    BY RevisionsType DEF Context, Older, Seen
<1> DEFINE f == [t \in Older(c) |-> c.rss[t].rev]
<1>2. \A t \in Older(c) : f[t] \in Nat
    BY <1>1 DEF ReplicaSet
<1>3. IsFiniteSet(Older(c))
    BY <1>1, TemplatesFinite
<1>4. \A t \in Older(c) : f[t] <= Max({0} \cup {f[u] : u \in Older(c)})
    <2> HIDE DEF f
    <2> QED
        BY <1>2, <1>3, MaxWithZero
<1>5. {f[t] : t \in Older(c)} = {c.rss[t].rev : t \in Older(c)}
    OBVIOUS
<1>6. \A t \in Older(c) : c.rss[t].rev <= MaxRevision(c)
    BY <1>4, <1>5 DEF MaxRevision
<1> QED
    BY <1>1, <1>2, <1>6 DEF NewRevision

\* An absent ReplicaSet has no revision to exceed either.
LEMMA NewRevisionExceeds ==
    ASSUME IInv, pc # "idle"
    PROVE  /\ NewRevision(ctx) \in Nat
           /\ \A t \in Templates \ {ctx.new} : ctx.rss[t].rev < NewRevision(ctx)
<1>1. ctx \in Context /\ RevisionsAreCurrent
    BY IInvParts, ContextType
<1>2. \A t \in Templates \ {ctx.new} : t \in Older(ctx) \/ ctx.rss[t].rev = 0
    BY <1>1 DEF RevisionsAreCurrent, Older
<1> QED
    BY <1>1, <1>2, MaxRevisionBounds

\* No revision changes, in the snapshot or outside.
SameRevisions ==
    \A t \in Templates : rss'[t].rev = rss[t].rev /\ rss'[t].born = rss[t].born

SameSnapshotRevisions ==
    /\ pc # "idle" /\ ctx'.new = ctx.new
    /\ \A t \in Templates : /\ ctx'.rss[t].rev = ctx.rss[t].rev
                            /\ ctx'.rss[t].born = ctx.rss[t].born
    /\ pc' \in RevisionIsOpen => pc \in RevisionIsOpen
    /\ pc' \in RevisionIsSet => pc \in RevisionIsSet

LEMMA RevisionsStay ==
    ASSUME IInv, SameRevisions, pc' = "idle" \/ SameSnapshotRevisions
    PROVE  RevisionsAreCurrent'
<1>1. RevisionsAreCurrent
    BY IInvParts
<1>2. \A t \in Templates : ~Exists(t)' => rss'[t].rev = 0
    BY <1>1 DEF RevisionsAreCurrent, SameRevisions, Exists
<1>3. CASE pc' = "idle"
    BY <1>2, <1>3 DEF RevisionsAreCurrent, RevisionIsOpen, RevisionIsSet
<1>4. CASE SameSnapshotRevisions
    <2>1. \A t \in Templates : t \in Seen(ctx') <=> t \in Seen(ctx)
        BY <1>4 DEF SameSnapshotRevisions, Seen
    <2>2. pc' \in RevisionIsSet => ctx.new \in Templates
        <3>1. TypeOK
            BY IInvParts
        <3>2. pc \in RevisionIsSet => ctx.new # Nil
            BY <3>1 DEF TypeOK, RevisionIsSet
        <3> QED
            BY <1>4, <3>1, <3>2, ContextType DEF SameSnapshotRevisions
    <2> QED
        BY <1>1, <1>2, <1>4, <2>1, <2>2
        DEF RevisionsAreCurrent, SameRevisions, SameSnapshotRevisions
<1> QED
    BY <1>3, <1>4

LEMMA GetRolloutRevisions == IInv /\ GetRollout => RevisionsAreCurrent'
<1> SUFFICES ASSUME IInv, GetRollout PROVE RevisionsAreCurrent'
    OBVIOUS
<1>1. TypeOK /\ RevisionsAreCurrent
    BY IInvParts
<1>2. ctx'.rss = rss /\ rss' = rss /\ pc' = "checkPaused"
    BY DEF GetRollout, cluster
<1>3. \A t \in Templates : rss[t].rev \in Nat /\ rss[t].born \in Nat
    BY <1>1 DEF TypeOK, ReplicaSet
<1> QED
    BY <1>1, <1>2, <1>3 DEF RevisionsAreCurrent, Seen, Exists, RevisionIsOpen, RevisionIsSet

\* newRS gets a revision beyond those of all other ReplicaSets.
LEMMA syncRevisions == IInv /\ syncReplicaSetRevision => RevisionsAreCurrent'
<1> SUFFICES ASSUME IInv, syncReplicaSetRevision PROVE RevisionsAreCurrent'
    OBVIOUS
<1> DEFINE n == NewRevision(ctx)
<1>1. TypeOK /\ SnapshotIsCurrent /\ RevisionsAreCurrent
    BY IInvParts DEF Safe
<1>2. pc = "syncRevision" /\ ctx.new # Nil
    BY <1>1 DEF syncReplicaSetRevision, TypeOK
<1>3. ctx \in Context /\ ctx.new \in Templates /\ Exists(ctx.new)
    BY <1>1, <1>2, ContextType DEF SnapshotIsCurrent
<1>4. n \in Nat /\ \A t \in Templates \ {ctx.new} : ctx.rss[t].rev < n
    BY <1>2, NewRevisionExceeds
<1>5. /\ rss' = [rss EXCEPT ![ctx.new] = [rss[ctx.new] EXCEPT !.rev = n]]
      /\ ctx' = [ctx EXCEPT !.rss[ctx.new].rev = n]
      /\ pc' \in {"persist", "history"}
    BY DEF syncReplicaSetRevision, UpdateRS
<1> HIDE DEF n
<1>6. rss \in [Templates -> ReplicaSet] /\ ctx.rss \in [Templates -> ReplicaSet]
    BY <1>1, <1>3 DEF TypeOK, Context
<1>7. /\ rss'[ctx.new].rev = n /\ rss'[ctx.new].born = rss[ctx.new].born
      /\ \A t \in Templates \ {ctx.new} : rss'[t] = rss[t]
    BY <1>3, <1>5, <1>6 DEF ReplicaSet
<1>8. ctx'.new = ctx.new /\ ctx'.rss = [ctx.rss EXCEPT ![ctx.new].rev = n]
    BY <1>3, <1>5 DEF Context
<1>9. \A t \in Templates \ {ctx.new} : ctx'.rss[t] = ctx.rss[t] /\ (t \in Seen(ctx') <=> t \in Seen(ctx))
    BY <1>3, <1>6, <1>8 DEF Seen
<1>10. \A t \in Templates : ~Exists(t)' => rss'[t].rev = 0
    BY <1>1, <1>3, <1>7 DEF RevisionsAreCurrent, Exists
<1> QED
    BY <1>1, <1>2, <1>4, <1>5, <1>7, <1>8, <1>9, <1>10
    DEF RevisionsAreCurrent, RevisionIsOpen, RevisionIsSet

LEMMA createRevisions == IInv /\ createDesiredReplicaSet => RevisionsAreCurrent'
<1> SUFFICES ASSUME IInv, createDesiredReplicaSet PROVE RevisionsAreCurrent'
    OBVIOUS
<1> DEFINE t == ctx.spec.template
<1>1. TypeOK /\ SnapshotIsCurrent /\ RevisionsAreCurrent
    BY IInvParts DEF Safe
<1>2. pc = "create" /\ pc' = "setRevision" /\ ctx.new = Nil
    BY <1>1 DEF createDesiredReplicaSet, SnapshotIsCurrent
<1>3. ctx \in Context /\ t \in Templates
    BY <1>1, <1>2, ContextType
<1>4. \A u \in Templates : ctx.rss[u].rev < NewRevision(ctx)
    BY <1>2, ConstantsAssumption, NewRevisionExceeds
<1>5. CreatedRS \in ReplicaSet /\ CreatedRS.born > 0 /\ CreatedRS.rev = NewRevision(ctx)
    <2>1. CreatedRS.rev = 1 + MaxRevision(ctx)
        BY DEF CreatedRS, Absent
    <2> QED
        BY <1>1, <1>3, <2>1, CreatedRSType, MaxRevisionBounds, RevisionsType
<1>6. rss' = [rss EXCEPT ![t] = CreatedRS]
    BY DEF createDesiredReplicaSet
<1>7. ctx'.rss = ctx.rss /\ ctx'.new = t
    BY <1>3 DEF createDesiredReplicaSet, Context
<1> HIDE DEF t
<1>8. rss'[t] = CreatedRS /\ \A u \in Templates \ {t} : rss'[u] = rss[u]
    BY <1>1, <1>3, <1>6, Zenon DEF TypeOK
<1>9. \A u \in Templates : u \in Seen(ctx') <=> u \in Seen(ctx)
    BY <1>7 DEF Seen
<1>10. \A u \in Templates : ~Exists(u)' => rss'[u].rev = 0
    BY <1>1, <1>5, <1>8 DEF RevisionsAreCurrent, Exists
<1>11. \A u \in Templates \ {t} : u # ctx.new
    BY <1>2, ConstantsAssumption
<1> QED
    BY <1>1, <1>2, <1>4, <1>5, <1>7, <1>8, <1>9, <1>10, <1>11
    DEF RevisionsAreCurrent, RevisionIsOpen, RevisionIsSet

\* newRS keeps the revision that it has, when that is late enough.
LEMMA setRevisions == IInv /\ setRolloutRevision => RevisionsAreCurrent'
<1> SUFFICES ASSUME IInv, setRolloutRevision PROVE RevisionsAreCurrent'
    OBVIOUS
<1>1. TypeOK /\ RevisionsAreCurrent
    BY IInvParts
<1>2. /\ \/ pc = "setRevision"
         \/ pc = "syncRevision" /\ ~RevisionIsStale(ctx)
      /\ pc' \in {"announce", "persist", "history"} /\ rss' = rss
      /\ ctx' = [ctx EXCEPT !.revision = RolloutRevision(ctx)]
    BY DEF setRolloutRevision, cluster
<1>3. ctx \in Context /\ ctx.new \in Templates
    BY <1>1, <1>2, ContextType DEF TypeOK
<1>4. ctx'.new = ctx.new /\ ctx'.rss = ctx.rss
    BY <1>2, <1>3 DEF Context
<1>5. \A t \in Templates \ {ctx.new} : ctx.rss[t].rev < rss[ctx.new].rev
    <2>1. CASE pc = "setRevision"
        BY <1>1, <2>1 DEF RevisionsAreCurrent, RevisionIsSet
    <2>2. CASE pc = "syncRevision" /\ ~RevisionIsStale(ctx)
        <3>1. rss[ctx.new].rev = ctx.rss[ctx.new].rev /\ rss[ctx.new].rev \in Nat
            BY <1>1, <1>3, <2>2 DEF RevisionsAreCurrent, RevisionIsOpen, TypeOK, ReplicaSet
        <3>2. /\ NewRevision(ctx) \in Nat
              /\ \A t \in Templates \ {ctx.new} : ctx.rss[t].rev < NewRevision(ctx)
            BY <2>2, NewRevisionExceeds
        <3>3. \A t \in Templates : ctx.rss[t].rev \in Nat
            BY <1>3 DEF Context, ReplicaSet
        <3> QED
            BY <2>2, <3>1, <3>2, <3>3 DEF RevisionIsStale
    <2> QED
        BY <1>2, <2>1, <2>2
<1>6. \A t \in Templates : /\ Exists(t)' <=> Exists(t)
                           /\ t \in Seen(ctx') <=> t \in Seen(ctx)
    BY <1>2, <1>4 DEF Exists, Seen
<1> QED
    BY <1>1, <1>2, <1>4, <1>5, <1>6
    DEF RevisionsAreCurrent, RevisionIsOpen, RevisionIsSet

LEMMA historyRevisions == IInv /\ reconcileRevisionHistoryLimit => RevisionsAreCurrent'
<1> SUFFICES ASSUME IInv, reconcileRevisionHistoryLimit PROVE RevisionsAreCurrent'
    OBVIOUS
<1>1. TypeOK /\ SnapshotIsCurrent /\ RevisionsAreCurrent
    BY IInvParts DEF Safe
<1>2. pc = "history" /\ pc' \in {"history", "scale"} /\ ctx' = ctx /\ ctx.new # Nil
    BY <1>1 DEF reconcileRevisionHistoryLimit, TypeOK
<1>3. CASE rss' = rss
    BY <1>2, <1>3, RevisionsStay
    DEF SameRevisions, SameSnapshotRevisions, RevisionIsOpen, RevisionIsSet
<1>4. CASE rss' # rss
    <2>1. PICK d \in ctx.others : rss' = [rss EXCEPT ![d] = Absent]
        BY <1>4, HistoryDeletes
    <2>2. /\ ctx \in Context /\ d \in Templates /\ ctx.new \in Templates
          /\ \A t \in Templates : ctx.rss[t].rev \in Nat
        BY <1>1, <1>2, ContextType DEF Context, ReplicaSet
    <2>3. rss'[d] = Absent /\ \A t \in Templates \ {d} : rss'[t] = rss[t]
        BY <1>1, <2>1, <2>2 DEF TypeOK
    <2>4. d # ctx.new
        BY <1>1, <1>2, <2>1 DEF SnapshotIsCurrent
    <2>5. Absent.rev = 0
        BY DEF Absent
    <2> QED
        BY <1>1, <1>2, <2>2, <2>3, <2>4, <2>5
        DEF RevisionsAreCurrent, Exists, RevisionIsOpen, RevisionIsSet
<1> QED
    BY <1>3, <1>4

\* Resizing changes no revision.
LEMMA ResizedRevisions ==
    ASSUME TypeOK, NEW t \in Templates, NEW n \in Nat, Resized(t, n)
    PROVE  SameRevisions
<1>1. rss \in [Templates -> ReplicaSet] /\ rss' = [rss EXCEPT ![t] = Resize(rss[t], n)]
    BY DEF TypeOK, Resized
<1> QED
    BY <1>1 DEF SameRevisions, ReplicaSet, Resize

LEMMA ScalingRevisions ==
    IInv /\ (reconcileNewReplicaSet \/ cleanupUnhealthyReplicas \/ scaleDownOldReplicaSetsForCanary)
    => RevisionsAreCurrent'
<1> SUFFICES ASSUME IInv, \/ reconcileNewReplicaSet \/ cleanupUnhealthyReplicas
                          \/ scaleDownOldReplicaSetsForCanary
             PROVE  RevisionsAreCurrent'
    OBVIOUS
<1> USE DEF RevisionIsOpen, RevisionIsSet
<1>1. TypeOK /\ SnapshotIsCurrent /\ pc \in {"scale", "cleanup", "scaleDown"}
    BY IInvParts
    DEF Safe, reconcileNewReplicaSet, cleanupUnhealthyReplicas, scaleDownOldReplicaSetsForCanary
<1>2. ctx \in Context /\ ctx.new \in Templates
    BY <1>1, ContextType DEF TypeOK
<1>3. CASE reconcileNewReplicaSet
    <2>1. NewReplicasCount(ctx) \in Nat /\ pc = "scale"
        BY <1>2, <1>3, SizesType DEF reconcileNewReplicaSet
    <2>2. Resized(ctx.new, NewReplicasCount(ctx))
        BY <1>1, <1>2, <1>3, <2>1, ConstantsAssumption
        DEF reconcileNewReplicaSet, UpdateRS, Resized, SnapshotIsCurrent
    <2>3. SameRevisions
        BY <1>1, <1>2, <2>1, <2>2, ResizedRevisions
    <2>4. SameSnapshotRevisions
        BY <1>3 DEF reconcileNewReplicaSet, SameSnapshotRevisions
    <2> QED
        BY <2>3, <2>4, RevisionsStay
<1>4. CASE pc' = "persist" /\ ctx' = ctx /\ rss' = rss
    BY <1>1, <1>4, RevisionsStay DEF SameRevisions, SameSnapshotRevisions
<1>5. CASE cleanupUnhealthyReplicas /\ ~(pc' = "persist" /\ ctx' = ctx /\ rss' = rss)
    <2>1. PICK t \in ctx.others, n \in Nat :
              /\ Resized(t, n)
              /\ ctx' = [ctx EXCEPT !.rss[t].spec = n] /\ pc' = "cleanup"
        BY <1>5, CleanupShrinks
    <2>2. t \in Templates
        BY <1>1, <2>1, ContextType
    <2>3. ctx'.new = ctx.new /\ ctx'.rss = [ctx.rss EXCEPT ![t].spec = n]
        BY <1>2, <2>1 DEF Context
    <2>4. \A u \in Templates : ctx'.rss[u].rev = ctx.rss[u].rev /\ ctx'.rss[u].born = ctx.rss[u].born
        BY <1>2, <2>2, <2>3 DEF Context, ReplicaSet
    <2>5. SameSnapshotRevisions
        BY <1>1, <2>1, <2>3, <2>4 DEF SameSnapshotRevisions
    <2>6. SameRevisions
        BY <1>1, <2>1, <2>2, ResizedRevisions
    <2> QED
        BY <2>5, <2>6, RevisionsStay
<1>6. CASE scaleDownOldReplicaSetsForCanary /\ ~(pc' = "persist" /\ ctx' = ctx /\ rss' = rss)
    <2>1. PICK t \in Templates, n \in Nat :
              /\ Resized(t, n)
              /\ \E left \in Nat :
                    /\ ctx' = [ctx EXCEPT !.todo = ctx.todo \ {t}, !.budget = left]
                    /\ pc' \in {"persist", "scaleDown"}
        BY <1>6, ScaleDownShrinks
    <2>2. ctx'.new = ctx.new /\ ctx'.rss = ctx.rss
        BY <1>2, <2>1 DEF Context
    <2>3. SameSnapshotRevisions
        BY <1>1, <2>1, <2>2 DEF SameSnapshotRevisions
    <2>4. SameRevisions
        BY <1>1, <2>1, ResizedRevisions
    <2> QED
        BY <2>3, <2>4, RevisionsStay
<1> QED
    BY <1>3, <1>4, <1>5, <1>6

\* The other steps of a pass write no ReplicaSet.
LEMMA OtherRevisions ==
    IInv /\ (\/ checkPausedConditions \/ AnnounceReplicaSet \/ reconcileCanaryPause
             \/ haltProgress \/ reconcileOldReplicaSets \/ StartScaleDown \/ OldScalingFails)
    => RevisionsAreCurrent'
<1> SUFFICES ASSUME IInv, \/ checkPausedConditions \/ AnnounceReplicaSet
                          \/ reconcileCanaryPause \/ haltProgress \/ reconcileOldReplicaSets
                          \/ StartScaleDown \/ OldScalingFails
             PROVE  RevisionsAreCurrent'
    OBVIOUS
<1>1. rss' = rss /\ pc # "idle"
    BY DEF checkPausedConditions, AnnounceReplicaSet, reconcileCanaryPause, haltProgress,
           reconcileOldReplicaSets, StartScaleDown, OldScalingFails, cluster
<1>2. ctx \in Context
    BY <1>1, IInvParts, ContextType
<1>3. ctx'.new = ctx.new /\ ctx'.rss = ctx.rss
    <2>1. \/ \E x : ctx' = [ctx EXCEPT !.status = x]
          \/ \E x : ctx' = [ctx EXCEPT !.addPause = x]
          \/ \E x, y : ctx' = [ctx EXCEPT !.budget = x, !.todo = y]
          \/ ctx' = ctx
        BY Zenon DEF checkPausedConditions, AnnounceReplicaSet, reconcileCanaryPause, haltProgress,
               reconcileOldReplicaSets, StartScaleDown, OldScalingFails
    <2> QED
        BY <1>2, <2>1 DEF Context
<1>4. /\ pc' \in RevisionIsOpen => pc \in RevisionIsOpen
      /\ pc' \in RevisionIsSet => pc \in RevisionIsSet
    BY DEF checkPausedConditions, AnnounceReplicaSet, reconcileCanaryPause, haltProgress,
           reconcileOldReplicaSets, StartScaleDown, OldScalingFails, SyncRevisionPc,
           RevisionIsOpen, RevisionIsSet
<1> QED
    BY <1>1, <1>3, <1>4, RevisionsStay DEF SameRevisions, SameSnapshotRevisions

\* A pass that ends, and all that goes on beside it, leave the revisions alone.
LEMMA BesideRevisions ==
    IInv /\ (\/ tryToCompleteStepAndSyncRolloutStatusCanary \/ PanicOnNilStable \/ Conflict
             \/ PassFails \/ User \/ Kube \/ PauseElapses \/ UNCHANGED vars
             \/ \E t \in Templates : PodFails(t))
    => RevisionsAreCurrent'
<1>1. ASSUME IInv, \/ tryToCompleteStepAndSyncRolloutStatusCanary \/ PanicOnNilStable
                   \/ Conflict \/ PassFails
      PROVE  RevisionsAreCurrent'
    <2>1. EndPass /\ UNCHANGED cluster
        BY <1>1, Zenon DEF tryToCompleteStepAndSyncRolloutStatusCanary, PanicOnNilStable,
                           Conflict, PassFails
    <2> QED
        BY <1>1, <2>1, RevisionsStay DEF EndPass, cluster, SameRevisions
<1>2. ASSUME IInv, UNCHANGED <<pc, ctx>>, SameRevisions PROVE RevisionsAreCurrent'
    BY <1>2, RevisionsStay DEF SameSnapshotRevisions
<1>3. ASSUME IInv, User \/ PauseElapses \/ UNCHANGED vars PROVE RevisionsAreCurrent'
    BY <1>2, <1>3 DEF User, EditSpec, Resume, PauseElapses, vars, pass, cluster, SameRevisions
<1>4. ASSUME IInv, NEW t \in Templates, SyncPods(t) \/ PodReady(t) \/ PodFails(t)
      PROVE  RevisionsAreCurrent'
    <2>1. rss \in [Templates -> ReplicaSet]
        BY <1>4, IInvParts DEF TypeOK
    <2>2. SameRevisions /\ UNCHANGED <<pc, ctx>>
        BY <1>4, <2>1 DEF SyncPods, PodReady, PodFails, SameRevisions, ReplicaSet
    <2> QED
        BY <1>2, <1>4, <2>2
<1> QED
    BY <1>1, <1>3, <1>4, Zenon DEF Kube

LEMMA NextIInv == IInv /\ [Next]_vars => IInv'
<1> SUFFICES ASSUME IInv, [Next]_vars PROVE IInv'
    OBVIOUS
<1>1. CASE Pass
    BY <1>1, GetRolloutSafe, checkPausedConditionsSafe, syncReplicaSetRevisionSafe,
       createDesiredReplicaSetSafe, setRolloutRevisionSafe, AnnounceReplicaSetSafe,
       HistorySafe, WritesNothingSafe, reconcileNewReplicaSetSafe,
       cleanupUnhealthyReplicasSafe, StartScaleDownSafe, scaleDownOldReplicaSetsSafe,
       TryToCompleteSafe, PassEndsSafe, NextTypeOK, IInvParts,
       GetRolloutRevisions, syncRevisions, createRevisions, setRevisions, historyRevisions,
       ScalingRevisions, OtherRevisions, BesideRevisions, Zenon DEF Pass, Next
<1>2. CASE Failure
    BY <1>2, PassEndsSafe, OldScalingFailsSafe, EnvironmentSafe, NextTypeOK, IInvParts,
       OtherRevisions, BesideRevisions, Zenon DEF Failure, Next
<1>3. CASE User \/ Kube \/ PauseElapses \/ UNCHANGED vars
    BY <1>3, EnvironmentSafe, NextTypeOK, IInvParts, BesideRevisions, Zenon DEF Next
<1> QED
    BY <1>1, <1>2, <1>3, Zenon DEF Next

-----------------------------------------------------------------------------
(***************************************************************************)
(* The theorems                                                            *)
(***************************************************************************)

\* The pass is right about which ReplicaSets exist and what sizes they have.
THEOREM Inductive == Spec => []IInv
BY InitIInv, NextIInv, PTL DEF Spec

\* The stable ReplicaSet, which a rollback needs, is never collected as history.
THEOREM StableIsKept == Spec => []StableExists
<1>1. IInv => StableExists
    BY DEF IInv
<1> QED
    BY <1>1, Inductive, PTL

\* When newRS is scaled, and when the old ones are, it has the greatest revision
\* of all ReplicaSets (syncReplicaSetRevision, createDesiredReplicaSet).
THEOREM NewRevisionIsGreatest == Spec => []NewHasGreatestRevision
<1>1. IInv => NewHasGreatestRevision
    <2> SUFFICES ASSUME IInv, pc \in {"history", "scale", "cleanup", "scaleDown"},
                        NEW t \in Templates \ {ctx.new}
                 PROVE  rss[t].rev < rss[ctx.new].rev
        BY DEF NewHasGreatestRevision
    <2>1. TypeOK /\ RevisionsAreCurrent
        BY IInvParts
    <2>2. rss[t].rev <= ctx.rss[t].rev /\ ctx.rss[t].rev < rss[ctx.new].rev
        BY <2>1 DEF RevisionsAreCurrent, RevisionIsSet
    <2>3. ctx \in Context /\ ctx.new \in Templates
        BY <2>1, ContextType DEF TypeOK
    <2>4. rss[t].rev \in Nat /\ ctx.rss[t].rev \in Nat /\ rss[ctx.new].rev \in Nat
        BY <2>1, <2>3 DEF TypeOK, Context, ReplicaSet
    <2> QED
        BY <2>2, <2>4
<1> QED
    BY <1>1, Inductive, PTL

\* newRS only shrinks to the size of the rollout.
LEMMA NewSize ==
    ASSUME NEW c \in Context, c.new \in Templates
    PROVE  NewReplicasCount(c) = c.spec.replicas \/ NewReplicasCount(c) >= c.rss[c.new].spec
<1>1. NewRSNewReplicas(c) \in Int
    BY SizesType
<1>2. c.rss[c.new].spec \in Nat
    BY DEF Context, ReplicaSet
<1> QED
    BY <1>1, <1>2 DEF NewReplicasCount, Larger

SameSizes == \A t \in Templates : rss'[t].spec = rss[t].spec

NewIsResized ==
    \E n \in Nat : /\ pc = "scale" /\ n = NewReplicasCount(ctx)
                   /\ ctx.new \in Templates /\ Resized(ctx.new, n)
                   /\ n = ctx.spec.replicas \/ n >= rss[ctx.new].spec

OldIsShrunk ==
    \E t \in Templates, n \in Nat :
        /\ Resized(t, n) /\ n <= rss[t].spec
        /\ \/ t # ctx.new /\ t # ctx.stable
           \/ /\ t = ctx.stable
              /\ \A u \in Templates \ {ctx.new, ctx.stable} : rss[u].spec = 0
        /\ \/ pc = "cleanup" /\ n = ctx.rss[t].avail
           \/ /\ pc = "scaleDown" /\ t \in ctx.todo \cup {ctx.stable}
              /\ rss[t].spec - n <= ctx.budget

\* A step resizes newRS, or shrinks one old ReplicaSet, or resizes nothing.
LEMMA SizeChanges == IInv /\ [Next]_vars => SameSizes \/ NewIsResized \/ OldIsShrunk
<1> SUFFICES ASSUME IInv, [Next]_vars PROVE SameSizes \/ NewIsResized \/ OldIsShrunk
    OBVIOUS
<1>1. TypeOK /\ AbsentHasNoPods /\ SnapshotIsCurrent /\ SizesAreCurrent
    BY IInvParts DEF Safe
<1>2. rss \in [Templates -> ReplicaSet]
    BY <1>1 DEF TypeOK
<1>3. CASE rss' = rss
    BY <1>3 DEF SameSizes
<1>4. CASE syncReplicaSetRevision
    BY <1>2, <1>4 DEF syncReplicaSetRevision, UpdateRS, SameSizes, ReplicaSet
<1>5. CASE createDesiredReplicaSet
    <2>1. pc = "create"
        BY <1>5 DEF createDesiredReplicaSet
    <2>2. ctx \in Context /\ ctx.spec.template \in Templates
        BY <1>1, <2>1, ContextType
    <2>3. rss[ctx.spec.template].spec = 0
        BY <1>1, <2>1, <2>2 DEF SnapshotIsCurrent, AbsentHasNoPods
    <2>4. CreatedRS.spec = 0
        BY <1>1, <2>2, CreatedRSType
    <2>5. rss' = [rss EXCEPT ![ctx.spec.template] = CreatedRS]
        BY <1>5, Zenon DEF createDesiredReplicaSet
    <2> QED
        BY <1>2, <2>2, <2>3, <2>4, <2>5 DEF SameSizes
<1>6. CASE reconcileRevisionHistoryLimit /\ rss' # rss
    <2>1. PICK d \in ctx.others : ctx.rss[d].spec = 0 /\ rss' = [rss EXCEPT ![d] = Absent]
        BY <1>6, HistoryDeletes
    <2>2. pc = "history"
        BY <1>6 DEF reconcileRevisionHistoryLimit
    <2>3. d \in Templates
        BY <1>1, <2>1, <2>2, ContextType
    <2>4. rss[d].spec = 0
        BY <1>1, <2>1, <2>2, <2>3 DEF SizesAreCurrent, PassPcs
    <2> QED
        BY <1>2, <2>1, <2>3, <2>4 DEF SameSizes, Absent
<1>7. CASE reconcileNewReplicaSet
    <2>1. pc = "scale" /\ ctx.new # Nil
        BY <1>1, <1>7 DEF reconcileNewReplicaSet, TypeOK
    <2>2. ctx \in Context /\ ctx.new \in Templates
        BY <1>1, <2>1, ContextType
    <2>3. NewReplicasCount(ctx) \in Nat
        BY <2>2, SizesType
    <2>4. Resized(ctx.new, NewReplicasCount(ctx))
        BY <1>1, <1>7, <2>1 DEF reconcileNewReplicaSet, UpdateRS, Resized, SnapshotIsCurrent
    <2>5. rss[ctx.new].spec = ctx.rss[ctx.new].spec
        BY <1>1, <2>1, <2>2 DEF SizesAreCurrent, PassPcs
    <2> QED
        BY <2>1, <2>2, <2>3, <2>4, <2>5, NewSize DEF NewIsResized
<1>8. CASE cleanupUnhealthyReplicas /\ rss' # rss
    <2>1. PICK t \in ctx.others, n \in Nat :
              Resized(t, n) /\ n <= rss[t].spec /\ n = ctx.rss[t].avail
        BY <1>8, CleanupShrinks
    <2>2. pc = "cleanup" /\ ctx.new # Nil
        BY <1>1, <1>8 DEF cleanupUnhealthyReplicas, TypeOK
    <2>3. t \in Templates
        BY <1>1, <2>1, <2>2, ContextType
    <2>4. t # ctx.new /\ t # ctx.stable
        BY <1>1, <2>1, <2>2 DEF SnapshotIsCurrent
    <2> QED
        BY <2>1, <2>2, <2>3, <2>4 DEF OldIsShrunk
<1>9. CASE scaleDownOldReplicaSetsForCanary /\ rss' # rss
    <2>1. PICK t \in Templates, n \in Nat :
              /\ Resized(t, n) /\ n <= rss[t].spec
              /\ \/ t \in ctx.todo
                 \/ t = ctx.stable /\ \A u \in ctx.todo : ctx.rss[u].spec = 0
              /\ ctx.budget - (rss[t].spec - n) \in Nat
        BY <1>9, ScaleDownShrinks
    <2>2. pc = "scaleDown" /\ ctx.new # Nil
        BY <1>1, <1>9 DEF scaleDownOldReplicaSetsForCanary, TypeOK
    <2>3. ctx.todo \subseteq ctx.others /\ ctx.others \subseteq Templates
        BY <1>1, <2>2, ContextType DEF SizesAreCurrent
    <2>4. rss[t].spec - n <= ctx.budget
        <3>1. rss[t].spec \in Nat /\ ctx.budget \in Nat
            BY <1>1, <2>2, ReplicaSetsType, ContextType DEF Context
        <3> QED
            BY <2>1, <3>1
    <2>5. CASE t \in ctx.todo
        <3>1. t # ctx.new /\ t # ctx.stable
            BY <1>1, <2>2, <2>3, <2>5 DEF SnapshotIsCurrent
        <3> QED
            BY <2>1, <2>2, <2>4, <2>5, <3>1 DEF OldIsShrunk
    <2>6. CASE t = ctx.stable /\ \A u \in ctx.todo : ctx.rss[u].spec = 0
        <3>1. \A u \in ctx.others : rss[u].spec = 0
            BY <1>1, <2>2, <2>3, <2>6 DEF SizesAreCurrent
        <3>2. \A u \in Templates \ {ctx.new, ctx.stable} : rss[u].spec = 0
            BY <1>1, <2>2, <3>1 DEF SnapshotIsCurrent, AbsentHasNoPods
        <3> QED
            BY <2>1, <2>2, <2>4, <2>6, <3>2 DEF OldIsShrunk
    <2> QED
        BY <2>1, <2>5, <2>6
<1>10. CASE \E t \in Templates : SyncPods(t) \/ PodReady(t) \/ PodFails(t)
    <2>1. PICK t \in Templates : SyncPods(t) \/ PodReady(t) \/ PodFails(t)
        BY <1>10
    <2> QED
        BY <1>2, <2>1 DEF SyncPods, PodReady, PodFails, SameSizes, ReplicaSet
<1>11. ASSUME Pass PROVE SameSizes \/ NewIsResized \/ OldIsShrunk
    <2>1. CASE \/ syncReplicaSetRevision \/ createDesiredReplicaSet
               \/ reconcileRevisionHistoryLimit \/ reconcileNewReplicaSet
               \/ cleanupUnhealthyReplicas \/ scaleDownOldReplicaSetsForCanary
        BY <1>3, <1>4, <1>5, <1>6, <1>7, <1>8, <1>9, <2>1, Zenon
    <2>2. CASE \/ GetRollout \/ checkPausedConditions \/ setRolloutRevision
               \/ AnnounceReplicaSet \/ reconcileCanaryPause \/ haltProgress
               \/ reconcileOldReplicaSets \/ StartScaleDown
        <3>1. rss' = rss
            BY <2>2 DEF GetRollout, checkPausedConditions, setRolloutRevision,
               AnnounceReplicaSet, reconcileCanaryPause, haltProgress,
               reconcileOldReplicaSets, StartScaleDown, cluster
        <3> QED
            BY <1>3, <3>1
    <2>3. CASE PanicOnNilStable \/ Conflict
        BY <1>3, <2>3 DEF PanicOnNilStable, Conflict, cluster
    <2>4. CASE tryToCompleteStepAndSyncRolloutStatusCanary
        <3>1. rss' = rss
            BY <2>4, Zenon DEF tryToCompleteStepAndSyncRolloutStatusCanary, cluster
        <3> QED
            BY <1>3, <3>1
    <2> QED
        BY <1>11, <2>1, <2>2, <2>3, <2>4, Zenon DEF Pass
<1>12. CASE PassFails \/ OldScalingFails \/ User \/ PauseElapses \/ UNCHANGED vars
    BY <1>3, <1>12
    DEF PassFails, OldScalingFails, User, EditSpec, Resume, PauseElapses, vars, cluster
<1> QED
    BY <1>10, <1>11, <1>12, Zenon DEF Next, Failure, Kube

\* The effect of a resizing on what the properties look at.
LEMMA ResizedEffect ==
    ASSUME IInv, NEW t \in Templates, NEW n \in Nat, Resized(t, n)
    PROVE  /\ \A u \in Templates : (ScaledUp(u) \/ ScaledDown(u)) => u = t
           /\ ScaledUp(t) => n > rss[t].spec
           /\ ScaledDown(t) => n < rss[t].spec
           /\ rss'[t].spec = n
<1>1. TypeOK
    BY IInvParts
<1>2. rss'[t].spec = n /\ \A u \in Templates \ {t} : rss'[u] = rss[u]
    BY <1>1, ResizedOnly
<1>3. \A u \in Templates : rss[u].spec \in Nat
    BY <1>1, ReplicaSetsType
<1> QED
    BY <1>2, <1>3 DEF ScaledUp, ScaledDown

LEMMA NothingResized ==
    ASSUME IInv, SameSizes, NEW t \in Templates
    PROVE  ~ScaledUp(t) /\ ~ScaledDown(t)
BY IInvParts, ReplicaSetsType DEF SameSizes, ScaledUp, ScaledDown

\* README principle 2: a stable or another old ReplicaSet is never scaled up.
THEOREM OldIsNeverScaledUp == Spec => OldNeverScaledUp
<1>1. IInv /\ [Next]_vars => \A t \in Templates : ScaledUp(t) => t = ctx.new
    <2> SUFFICES ASSUME IInv, [Next]_vars, NEW t \in Templates, ScaledUp(t)
                 PROVE  t = ctx.new
        OBVIOUS
    <2>1. ~SameSizes
        BY NothingResized
    <2>2. ~OldIsShrunk
        BY ResizedEffect, ReplicaSetsType, IInvParts DEF OldIsShrunk
    <2>3. NewIsResized
        BY <2>1, <2>2, SizeChanges
    <2> QED
        BY <2>3, ResizedEffect DEF NewIsResized
<1>2. IInv /\ [Next]_vars => [\A t \in Templates : ScaledUp(t) => t = ctx.new]_vars
    BY <1>1
<1> QED
    BY <1>2, Inductive, PTL DEF Spec, OldNeverScaledUp

\* README principle 3: the new ReplicaSet, when it is not the stable one, is
\* only scaled down to the size of the rollout.
THEOREM NewOnlyShrinksToRolloutSize == Spec => NewShrinksOnlyToRolloutSize
<1>1. IInv /\ [Next]_vars =>
         \A t \in Templates : ScaledDown(t) /\ t = ctx.new /\ t # ctx.stable
            => rss'[t].spec = ctx.spec.replicas
    <2> SUFFICES ASSUME IInv, [Next]_vars, NEW t \in Templates, ScaledDown(t),
                        t = ctx.new, t # ctx.stable
                 PROVE  rss'[t].spec = ctx.spec.replicas
        OBVIOUS
    <2>1. ~SameSizes
        BY NothingResized
    <2>2. ~OldIsShrunk
        BY ResizedEffect DEF OldIsShrunk
    <2>3. PICK n \in Nat : /\ Resized(ctx.new, n)
                           /\ n = ctx.spec.replicas \/ n >= rss[ctx.new].spec
        BY <2>1, <2>2, SizeChanges DEF NewIsResized
    <2>4. n < rss[t].spec /\ rss'[t].spec = n
        BY <2>3, ResizedEffect
    <2>5. rss[t].spec \in Nat
        BY IInvParts, ReplicaSetsType
    <2> QED
        BY <2>3, <2>4, <2>5
<1> QED
    BY <1>1, Inductive, PTL DEF Spec, NewShrinksOnlyToRolloutSize

\* README principle 4: the stable ReplicaSet is scaled down last.
THEOREM StableIsScaledDownLast == Spec => StableScaledDownLast
<1>1. IInv /\ [Next]_vars =>
         \A t \in Templates : ScaledDown(t) /\ t = ctx.stable /\ t # ctx.new
            => \A u \in Templates \ {ctx.new, ctx.stable} : rss[u].spec = 0
    <2> SUFFICES ASSUME IInv, [Next]_vars, NEW t \in Templates, ScaledDown(t),
                        t = ctx.stable, t # ctx.new
                 PROVE  \A u \in Templates \ {ctx.new, ctx.stable} : rss[u].spec = 0
        OBVIOUS
    <2>1. ~SameSizes
        BY NothingResized
    <2>2. ~NewIsResized
        BY ResizedEffect DEF NewIsResized
    <2>3. OldIsShrunk
        BY <2>1, <2>2, SizeChanges
    <2> QED
        BY <2>3, ResizedEffect DEF OldIsShrunk
<1> QED
    BY <1>1, Inductive, PTL DEF Spec, StableScaledDownLast

=============================================================================
