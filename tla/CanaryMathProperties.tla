------------------------- MODULE CanaryMathProperties -------------------------
(***************************************************************************)
(* What the rounding of CanaryMath promises, for a rollout of so many      *)
(* replicas, a weight, and a surge.                                        *)
(***************************************************************************)
EXTENDS CanaryMath

New(replicas, weight, surge) ==
    approximateWeightedRolloutStableReplicaCounts(replicas, weight, surge)

\* The totals the weight may be taken of, and how far n pods of a total are
\* from the weight, in units of 1 / total percent.
Totals(replicas, surge) == {replicas} \cup {replicas + 1 : s \in {surge} \ {0}}

Error(weight, n, total) ==
    IF 100 * n > weight * total THEN 100 * n - weight * total ELSE weight * total - 100 * n

\* The code excludes rounding down a tie, and rounding up to all replicas
\* unless there is surge.  When both are excluded it gives 0, in a branch that
\* the code calls unreachable: two replicas, weight 75 and no surge.
NoOption(replicas, weight, surge) ==
    /\ surge = 0 /\ weight \notin {0, 100} /\ replicas > 1
    /\ floorCeilingTied(weight, replicas) /\ CeilPercent(weight, replicas) = replicas

\* No other number of new pods is strictly closer to the weight, of any total.
\* A partial weight may not give 0, unless a single pod cannot be surged.
IsClosest(replicas, weight, surge) ==
    \E t \in Totals(replicas, surge) :
        \A u \in Totals(replicas, surge), n \in 0..replicas :
            \/ Error(weight, New(replicas, weight, surge), t) * u <= Error(weight, n, u) * t
            \/ n = 0 /\ weight # 0 /\ (replicas > 1 \/ surge > 0)
            \/ n = replicas /\ u = replicas /\ weight # 100

\* New and old pods, unless the weight is 0 or 100.
GivesBothPods(replicas, weight, surge) ==
    weight \in 1..99 /\ replicas > 1 =>
        /\ New(replicas, weight, surge) > 0
        /\ surge = 0 => New(replicas, weight, surge) < replicas

\* A greater weight does not ask for fewer new pods.
NeverShrinks(replicas, weight, greater, surge) ==
    New(replicas, weight, surge) <= New(replicas, greater, surge)
=============================================================================
