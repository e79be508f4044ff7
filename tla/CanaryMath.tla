----------------------------- MODULE CanaryMath -----------------------------
(***************************************************************************)
(* The replica arithmetic of a canary rollout: how many pods the new       *)
(* ReplicaSet may have, given the step's weight, the surge and             *)
(* unavailability limits and the ReplicaSets that exist.  Every operator   *)
(* is a pure function of the code in utils/replicaset; nothing here has    *)
(* state.                                                                  *)
(*                                                                         *)
(* A rolloutContext, called c, is a record with at least                   *)
(*   spec    the rollout's spec: replicas, steps, surge, unavailable       *)
(*   status  the rollout's status: stepIndex                               *)
(*   new     the ReplicaSet of spec.template (newRS)                       *)
(*   stable  the stable ReplicaSet, Nil  when it is nil                    *)
(*   others  the ReplicaSets that are neither (otherRSs)                   *)
(*   retired how many more otherRSs there are, all without pods            *)
(*   rss     for each ReplicaSet its spec.replicas (spec),                 *)
(*           status.replicas (actual) and status.availableReplicas (avail) *)
(* Numbers are unbounded: the code's int32 products need 21 million        *)
(* replicas to wrap.                                                       *)
(***************************************************************************)
EXTENDS Integers, Sequences, FiniteSets, FiniteSetsExt

CONSTANT
    Nil        \* a nil pointer (of a ReplicaSet), or an empty hash

NoIndex == -1  \* a nil status.currentStepIndex

(***************************************************************************)
(* Canary steps.  SetCanaryScale alone is rejected by the validation and   *)
(* is not part of the model.                                               *)
(***************************************************************************)
SetWeight(w)  == [pause |-> FALSE, timed |-> FALSE, weight |-> w]
Pause(timed)  == [pause |-> TRUE, timed |-> timed, weight |-> 0]
CanaryStep    == [pause : BOOLEAN, timed : BOOLEAN, weight : 0..100]

(***************************************************************************)
(* An IntOrString.  Every string is a percentage, with or without "%".     *)
(***************************************************************************)
Count(n)      == [percent |-> FALSE, value |-> n]
Percent(n)    == [percent |-> TRUE, value |-> n]
IntOrString   == [percent : BOOLEAN, value : Nat]

Larger(a, b)  == IF a < b THEN b ELSE a
Smaller(a, b) == IF a > b THEN b ELSE a

FloorPercent(p, total) == (p * total) \div 100
CeilPercent(p, total)  == (p * total + 99) \div 100

-----------------------------------------------------------------------------
(***************************************************************************)
(* Limits                                                                  *)
(***************************************************************************)
GetValueFromIntOrPercent(limit, total, roundUp) ==
    IF ~limit.percent THEN limit.value
    ELSE IF roundUp THEN CeilPercent(limit.value, total)
                    ELSE FloorPercent(limit.value, total)

\* Surge is rounded up and unavailability down; two zeros become one pod down.
\* Mutant: two zeros stay.
FencePostsUnresolved(spec) ==
    [surge       |-> GetValueFromIntOrPercent(spec.surge, spec.replicas, TRUE),
     unavailable |-> GetValueFromIntOrPercent(spec.unavailable, spec.replicas, FALSE)]
resolveFencePosts(spec) ==
    LET surge       == GetValueFromIntOrPercent(spec.surge, spec.replicas, TRUE)
        unavailable == GetValueFromIntOrPercent(spec.unavailable, spec.replicas, FALSE)
    IN  [surge       |-> surge,
         unavailable |-> IF surge = 0 /\ unavailable = 0 THEN 1 ELSE unavailable]

MaxSurge(spec) == resolveFencePosts(spec).surge

MaxUnavailable(spec) ==
    IF spec.replicas = 0 THEN 0
    ELSE Smaller(resolveFencePosts(spec).unavailable, spec.replicas)

MinAvailable(spec) == spec.replicas - MaxUnavailable(spec)

-----------------------------------------------------------------------------
(***************************************************************************)
(* Totals over a set R of ReplicaSets.  The pods of R are numbered within  *)
(* their ReplicaSet, and counted.                                          *)
(***************************************************************************)
Pods(R, size) == UNION {{rs} \X (1..size[rs]) : rs \in R}

GetReplicaCount(rss, R) == Cardinality(Pods(R, [rs \in R |-> rss[rs].spec]))

GetAvailableReplicaCount(rss, R) == Cardinality(Pods(R, [rs \in R |-> rss[rs].avail]))

-----------------------------------------------------------------------------
(***************************************************************************)
(* Steps and weights                                                       *)
(***************************************************************************)
CurrentStepIndex(c) == IF c.status.stepIndex = NoIndex THEN 0 ELSE c.status.stepIndex

StepsRemain(c) == CurrentStepIndex(c) < Len(c.spec.steps)

GetCurrentCanaryStep(c) == c.spec.steps[CurrentStepIndex(c) + 1]

\* The latest setWeight up to the current step; 100 past the end, 0 before any.
GetCurrentSetWeight(c) ==
    LET seen == {i \in 1..(CurrentStepIndex(c) + 1) : ~c.spec.steps[i].pause}
    IN  IF ~StepsRemain(c) THEN 100
        ELSE IF seen = {} THEN 0
        ELSE c.spec.steps[Max(seen)].weight

\* The ceiling and the floor of total * weight are equally far from it.
\* Mutant: there is any fraction.
HasFraction(weight, total) == (total * weight) % 100 # 0
floorCeilingTied(weight, total) == (total * weight) % 100 = 50

(***************************************************************************)
(* An option: a number of new pods of a total, if the code considers it.   *)
(***************************************************************************)
\* Mutant: every option is considered.
AlwaysAnOption(considered, new, total) == [considered |-> TRUE, new |-> new, total |-> total]
Option(considered, new, total) == [considered |-> considered, new |-> new, total |-> total]

\* How far an option is from the weight, in units of 1 / total percent.
\* Mutant: without the absolute value.
SignedDelta(weight, o) == 100 * o.new - weight * o.total
weightDelta(weight, o) ==
    Larger(100 * o.new - weight * o.total, weight * o.total - 100 * o.new)

\* The next option is better only when it is strictly closer.
Better(weight, best, next) ==
    IF /\ next.considered
       /\ best.considered =>
              weightDelta(weight, next) * best.total < weightDelta(weight, best) * next.total
    THEN next ELSE best

\* The size of the new ReplicaSet whose share of the pods is closest to the
\* weight; 0 when no option is considered.  Mutant: of the surged total.
SurgedCeiling(replicas, weight, surge) == CeilPercent(weight, replicas + surge)
approximateWeightedRolloutStableReplicaCounts(replicas, weight, surge) ==
    LET ceil  == CeilPercent(weight, replicas)
        floor == FloorPercent(weight, replicas)
        zeroAllowed == weight \in {0, 100} \/ (replicas = 1 /\ surge = 0)
        floorAllowed(total) == ~floorCeilingTied(weight, total) /\ (floor # 0 \/ zeroAllowed)
        best1 == Option(ceil < replicas \/ zeroAllowed, ceil, replicas)
        best2 == Better(weight, best1, Option(floorAllowed(replicas), floor, replicas))
        best3 == Better(weight, best2, Option(surge > 0, ceil, replicas + 1))
        best4 == Better(weight, best3,
                     Option(surge > 0 /\ floorAllowed(replicas + 1), floor, replicas + 1))
    IN  IF replicas = 0 \/ ~best4.considered THEN 0 ELSE best4.new

-----------------------------------------------------------------------------
(***************************************************************************)
(* The size of the new ReplicaSet                                          *)
(***************************************************************************)

\* A stable ReplicaSet exists and is not the new one.
CheckStableRSExists(c) == c.stable # Nil  /\ c.stable # c.new

AllDesiredAreAvailable(rs, desired) ==
    rs.spec > desired \/ (desired = rs.spec /\ desired = rs.avail)

allDesiredAreCreated(rs, desired) == desired <= rs.spec /\ desired <= rs.actual

\* What append leaves behind: the capacity of a slice grown to n elements.
SliceCapacity(n) ==
    IF n = 0 THEN 0 ELSE CHOOSE k \in {2^i : i \in 0..n} : n <= k /\ k < 2 * n

\* append(otherRSs, newRS) and append(otherRSs, stableRS) write the same cell
\* of one array when it has room for both allRSs elements.
AppendsShareArray(c) ==
    LET n == Cardinality(c.others) + c.retired
    IN  SliceCapacity(n) >= n + 2

\* totalCurrentReplicaCount: the sum over the slice allRSs as it then reads.
CountedReplicas(c) ==
    IF CheckStableRSExists(c) /\ AppendsShareArray(c)
    THEN GetReplicaCount(c.rss, c.others) + 2 * c.rss[c.stable].spec
    ELSE GetReplicaCount(c.rss, c.others \cup {c.new} \cup ({c.stable} \ {Nil}))

\* Back inside the surge, then up by what availability lacks.
adjustReplicaWithinLimits(c, older, desired) ==
    LET maxAllowed == c.spec.replicas + MaxSurge(c.spec)
        overTheLimit == Larger(0, GetReplicaCount(c.rss, older) + desired - maxAllowed)
        lessTheLimit == Smaller(0, GetAvailableReplicaCount(c.rss, older)
                                     + c.rss[c.new].avail - MinAvailable(c.spec))
    IN  desired - overTheLimit - lessTheLimit

\* The step's own target for the new ReplicaSet.
DesiredNewReplicas(c) ==
    approximateWeightedRolloutStableReplicaCounts(
        c.spec.replicas, GetCurrentSetWeight(c), MaxSurge(c.spec))

\* What the new ReplicaSet may have now, on its way to DesiredNewReplicas.
CalculateReplicaCountsForBasicCanary(c) ==
    LET desired == DesiredNewReplicas(c)
        current == c.rss[c.new].spec
        scaleUp == c.spec.replicas + MaxSurge(c.spec) - CountedReplicas(c)
        older   == IF CheckStableRSExists(c) THEN c.others \cup {c.stable} ELSE c.others
        wanted  == IF current < desired /\ scaleUp > 0
                   THEN Smaller(current + scaleUp, desired)
                   ELSE current
    IN  IF c.stable # Nil  THEN adjustReplicaWithinLimits(c, older, wanted) ELSE wanted

\* The setWeight step is done.
AtDesiredReplicaCountsForCanary(c) ==
    /\ allDesiredAreCreated(c.rss[c.new], DesiredNewReplicas(c))
    /\ AllDesiredAreAvailable(c.rss[c.new], CalculateReplicaCountsForBasicCanary(c))

\* With too few pods in all, the new ReplicaSet makes up the difference at once.
\* Mutant: the second of Calculate's results in place of the first.
NewRSDesired(c) == DesiredNewReplicas(c)
NewRSNewReplicas(c) ==
    LET older == c.others \cup {c.stable}
        all   == c.others \cup {c.new, c.stable}
    IN  IF /\ CheckStableRSExists(c)
           /\ GetReplicaCount(c.rss, all) + MaxUnavailable(c.spec) < c.spec.replicas
        THEN c.spec.replicas - GetReplicaCount(c.rss, older)
        ELSE CalculateReplicaCountsForBasicCanary(c)
=============================================================================
