-------------------------- MODULE CanaryLimitsProofs --------------------------
(***************************************************************************)
(* The surge and the availability limits of CanaryRollout, as far as they  *)
(* hold: a pass that sees enough available pods never goes beyond the      *)
(* surge, and leaves enough of the pods that it sees.                      *)
(***************************************************************************)
EXTENDS CanaryRolloutProofs

-----------------------------------------------------------------------------
(***************************************************************************)
(* Totals over ReplicaSets                                                 *)
(***************************************************************************)
SpecOf(m)  == [t \in Templates |-> m[t].spec]
AvailOf(m) == [t \in Templates |-> m[t].avail]

LEMMA SizesOf ==
    ASSUME NEW m \in [Templates -> ReplicaSet]
    PROVE  \A t \in Templates : /\ SpecOf(m)[t] = m[t].spec /\ SpecOf(m)[t] \in Nat
                                /\ AvailOf(m)[t] = m[t].avail /\ AvailOf(m)[t] \in Nat
BY DEF SpecOf, AvailOf, ReplicaSet

\* Both totals count the pods of one function of all templates.
LEMMA TotalsOf ==
    ASSUME NEW m \in [Templates -> ReplicaSet], NEW R, R \subseteq Templates
    PROVE  /\ GetReplicaCount(m, R) = Cardinality(Pods(R, SpecOf(m)))
           /\ GetAvailableReplicaCount(m, R) = Cardinality(Pods(R, AvailOf(m)))
<1>1. Pods(R, [rs \in R |-> m[rs].spec]) = Pods(R, SpecOf(m))
    <2> DEFINE s == [rs \in R |-> m[rs].spec]
    <2>1. \A rs \in R : s[rs] = SpecOf(m)[rs]
        BY SizesOf
    <2> HIDE DEF s
    <2>2. Pods(R, s) = Pods(R, SpecOf(m))
        BY <2>1, PodsSame
    <2> QED
        BY <2>2 DEF s
<1>2. Pods(R, [rs \in R |-> m[rs].avail]) = Pods(R, AvailOf(m))
    <2> DEFINE s == [rs \in R |-> m[rs].avail]
    <2>1. \A rs \in R : s[rs] = AvailOf(m)[rs]
        BY SizesOf
    <2> HIDE DEF s
    <2>2. Pods(R, s) = Pods(R, AvailOf(m))
        BY <2>1, PodsSame
    <2> QED
        BY <2>2 DEF s
<1> QED
    BY <1>1, <1>2, Zenon DEF GetReplicaCount, GetAvailableReplicaCount

LEMMA CountOneMore ==
    ASSUME NEW m \in [Templates -> ReplicaSet], NEW R, R \subseteq Templates,
           NEW t \in Templates, t \notin R
    PROVE  /\ GetReplicaCount(m, R \cup {t}) = GetReplicaCount(m, R) + m[t].spec
           /\ GetAvailableReplicaCount(m, R \cup {t})
                = GetAvailableReplicaCount(m, R) + m[t].avail
<1>1. IsFiniteSet(R) /\ R \cup {t} \subseteq Templates
    BY TemplatesFinite
<1>2. \A u \in R \cup {t} : SpecOf(m)[u] \in Nat /\ AvailOf(m)[u] \in Nat
    BY SizesOf
<1>3. /\ Cardinality(Pods(R \cup {t}, SpecOf(m)))
           = Cardinality(Pods(R, SpecOf(m))) + SpecOf(m)[t]
      /\ Cardinality(Pods(R \cup {t}, AvailOf(m)))
           = Cardinality(Pods(R, AvailOf(m))) + AvailOf(m)[t]
    BY <1>1, <1>2, PodsOfOneMore
<1>4. SpecOf(m)[t] = m[t].spec /\ AvailOf(m)[t] = m[t].avail
    BY SizesOf
<1> QED
    BY <1>1, <1>3, <1>4, TotalsOf, Zenon

\* ReplicaSets without pods do not count.
LEMMA CountOnly ==
    ASSUME NEW m \in [Templates -> ReplicaSet], NEW R, R \subseteq Templates,
           NEW Q, Q \subseteq R
    PROVE  /\ (\A t \in R \ Q : m[t].spec = 0) => GetReplicaCount(m, R) = GetReplicaCount(m, Q)
           /\ (\A t \in R \ Q : m[t].avail = 0)
                => GetAvailableReplicaCount(m, R) = GetAvailableReplicaCount(m, Q)
<1>1. Q \subseteq Templates /\ \A t \in R \ Q : t \in Templates
    OBVIOUS
<1>2. ASSUME \A t \in R \ Q : m[t].spec = 0
      PROVE  GetReplicaCount(m, R) = GetReplicaCount(m, Q)
    <2>1. \A t \in R \ Q : SpecOf(m)[t] = 0
        BY <1>1, <1>2, SizesOf, Zenon
    <2>2. Pods(R, SpecOf(m)) = Pods(Q, SpecOf(m))
        BY <2>1, PodsOfEmpty
    <2> QED
        BY <1>1, <2>2, TotalsOf, Zenon
<1>3. ASSUME \A t \in R \ Q : m[t].avail = 0
      PROVE  GetAvailableReplicaCount(m, R) = GetAvailableReplicaCount(m, Q)
    <2>1. \A t \in R \ Q : AvailOf(m)[t] = 0
        BY <1>1, <1>3, SizesOf, Zenon
    <2>2. Pods(R, AvailOf(m)) = Pods(Q, AvailOf(m))
        BY <2>1, PodsOfEmpty
    <2> QED
        BY <1>1, <2>2, TotalsOf, Zenon
<1> QED
    BY <1>2, <1>3

LEMMA CountSame ==
    ASSUME NEW m \in [Templates -> ReplicaSet], NEW k \in [Templates -> ReplicaSet],
           NEW R, R \subseteq Templates, \A t \in R : m[t].spec = k[t].spec
    PROVE  GetReplicaCount(m, R) = GetReplicaCount(k, R)
<1>1. \A t \in R : SpecOf(m)[t] = SpecOf(k)[t]
    BY SizesOf
<1>2. Pods(R, SpecOf(m)) = Pods(R, SpecOf(k))
    BY <1>1, PodsSame
<1> QED
    BY <1>2, TotalsOf, Zenon

\* Fewer ReplicaSets do not have more available pods.
LEMMA AvailableMonotone ==
    ASSUME NEW m \in [Templates -> ReplicaSet], NEW R, R \subseteq Templates
    PROVE  GetAvailableReplicaCount(m, R) <= GetAvailableReplicaCount(m, Templates)
<1>1. IsFiniteSet(Templates)
    BY TemplatesFinite
<1>2. \A t \in Templates : AvailOf(m)[t] \in Nat /\ AvailOf(m)[t] <= AvailOf(m)[t]
    BY SizesOf
<1>3. Cardinality(Pods(R, AvailOf(m))) <= Cardinality(Pods(Templates, AvailOf(m)))
    BY <1>1, <1>2, PodsMonotone
<1> QED
    BY <1>3, TotalsOf, Zenon

-----------------------------------------------------------------------------
(***************************************************************************)
(* Available pods of a snapshot m that sizes r leave running               *)
(***************************************************************************)
KeptOf(r, m)    == [t \in Templates |-> Smaller(r[t].spec, m[t].avail)]
Survivors(r, m) == Cardinality(Pods(Templates, KeptOf(r, m)))

LEMMA KeptType ==
    ASSUME NEW r \in [Templates -> ReplicaSet], NEW m \in [Templates -> ReplicaSet]
    PROVE  /\ \A t \in Templates : /\ KeptOf(r, m)[t] = Smaller(r[t].spec, m[t].avail)
                                   /\ KeptOf(r, m)[t] \in Nat
           /\ Survivors(r, m) \in Nat
<1>1. \A t \in Templates : r[t].spec \in Nat /\ m[t].avail \in Nat
    BY DEF ReplicaSet
<1>2. \A t \in Templates : /\ KeptOf(r, m)[t] = Smaller(r[t].spec, m[t].avail)
                            /\ KeptOf(r, m)[t] \in Nat
    BY <1>1 DEF KeptOf, Smaller
<1>3. IsFiniteSet(Templates)
    BY TemplatesFinite
<1> QED
    BY <1>2, <1>3, PodsFinite DEF Survivors

LEMMA SurvivorsSame ==
    ASSUME NEW r \in [Templates -> ReplicaSet], NEW m \in [Templates -> ReplicaSet],
           NEW q \in [Templates -> ReplicaSet], NEW k \in [Templates -> ReplicaSet],
           \A t \in Templates : q[t].spec = r[t].spec /\ k[t].avail = m[t].avail
    PROVE  Survivors(q, k) = Survivors(r, m)
<1>1. \A t \in Templates : KeptOf(q, k)[t] = KeptOf(r, m)[t]
    BY KeptType
<1>2. Pods(Templates, KeptOf(q, k)) = Pods(Templates, KeptOf(r, m))
    BY <1>1, PodsSame
<1> QED
    BY <1>2 DEF Survivors

\* A ReplicaSet that shrinks takes at most what it loses.
LEMMA SurvivorsOfShrunk ==
    ASSUME NEW r \in [Templates -> ReplicaSet], NEW m \in [Templates -> ReplicaSet],
           NEW q \in [Templates -> ReplicaSet], NEW t \in Templates,
           \A u \in Templates \ {t} : q[u].spec = r[u].spec,
           q[t].spec <= r[t].spec
    PROVE  Survivors(q, m) >= Survivors(r, m) - (r[t].spec - q[t].spec)
<1>1. IsFiniteSet(Templates)
    BY TemplatesFinite
<1>2. \A u \in Templates : KeptOf(r, m)[u] \in Nat /\ KeptOf(q, m)[u] \in Nat
    BY KeptType
<1>3. \A u \in Templates \ {t} : KeptOf(q, m)[u] = KeptOf(r, m)[u]
    BY KeptType
<1>4. Survivors(q, m) = Survivors(r, m) - KeptOf(r, m)[t] + KeptOf(q, m)[t]
    BY <1>1, <1>2, <1>3, PodsOneChanged DEF Survivors
<1>5. r[t].spec \in Nat /\ q[t].spec \in Nat /\ m[t].avail \in Nat
    BY DEF ReplicaSet
<1>6. KeptOf(r, m)[t] - KeptOf(q, m)[t] <= r[t].spec - q[t].spec
    BY <1>5, KeptType DEF Smaller
<1>7. Survivors(q, m) \in Nat /\ Survivors(r, m) \in Nat
    BY KeptType
<1> QED
    BY <1>2, <1>4, <1>5, <1>6, <1>7

\* Where every size is at least what is available, nothing is lost.
LEMMA SurvivorsAreAll ==
    ASSUME NEW r \in [Templates -> ReplicaSet], NEW m \in [Templates -> ReplicaSet],
           \A t \in Templates : m[t].avail <= r[t].spec
    PROVE  Survivors(r, m) = GetAvailableReplicaCount(m, Templates)
<1>1. \A t \in Templates : m[t].avail \in Nat /\ r[t].spec \in Nat
    BY DEF ReplicaSet
<1>2. ASSUME NEW t \in Templates PROVE KeptOf(r, m)[t] = AvailOf(m)[t]
    <2>1. Smaller(r[t].spec, m[t].avail) = m[t].avail
        BY <1>1 DEF Smaller
    <2> QED
        BY <2>1, KeptType, SizesOf, Zenon
<1>3. Pods(Templates, KeptOf(r, m)) = Pods(Templates, AvailOf(m))
    BY <1>2, PodsSame
<1> QED
    BY <1>3, TotalsOf DEF Survivors

-----------------------------------------------------------------------------
(***************************************************************************)
(* The size of newRS                                                       *)
(***************************************************************************)

\* The older ReplicaSets, and the size wanted of newRS, before they are limited.
OlderPods(c) == IF CheckStableRSExists(c) THEN c.others \cup {c.stable} ELSE c.others

RoomFor(c) == c.spec.replicas + MaxSurge(c.spec) - CountedReplicas(c)

WantedOf(c) ==
    IF c.rss[c.new].spec < DesiredNewReplicas(c) /\ RoomFor(c) > 0
    THEN Smaller(c.rss[c.new].spec + RoomFor(c), DesiredNewReplicas(c))
    ELSE c.rss[c.new].spec

LEMMA CalculatedFrom ==
    ASSUME NEW c
    PROVE  CalculateReplicaCountsForBasicCanary(c) =
               IF c.stable # Nil THEN adjustReplicaWithinLimits(c, OlderPods(c), WantedOf(c))
               ELSE WantedOf(c)
BY Zenon DEF CalculateReplicaCountsForBasicCanary, OlderPods, WantedOf, RoomFor

\* When newRS grows, and enough pods are available, it leaves the others room.
LEMMA NewSizeWithinSurge ==
    ASSUME NEW c \in Context, c.new \in Templates,
           c.new \notin c.others, c.stable \notin c.others,
           \A t \in Templates \ (c.others \cup {c.new, c.stable}) :
               c.rss[t].spec = 0 /\ c.rss[t].avail = 0,
           AvailableEnough(c),
           NewReplicasCount(c) > c.rss[c.new].spec
    PROVE  GetReplicaCount(c.rss, Templates \ {c.new}) + NewReplicasCount(c)
               <= c.spec.replicas + MaxSurge(c.spec)
<1> DEFINE older == OlderPods(c)
           room == c.spec.replicas + MaxSurge(c.spec)
           total == GetReplicaCount(c.rss, older)
           n == NewReplicasCount(c)
           current == c.rss[c.new].spec
           few == /\ CheckStableRSExists(c)
                  /\ GetReplicaCount(c.rss, c.others \cup {c.new, c.stable})
                        + MaxUnavailable(c.spec) < c.spec.replicas
<1>1. /\ c.spec \in RolloutSpec /\ c.rss \in [Templates -> ReplicaSet]
      /\ c.others \subseteq Templates /\ c.stable \in Templates \cup {Nil}
    BY DEF Context
<1>2. /\ c.spec.replicas \in Nat /\ MaxSurge(c.spec) \in Nat
      /\ MaxUnavailable(c.spec) \in Int /\ MinAvailable(c.spec) \in Int
    BY <1>1, LimitsType
<1>3. older \subseteq Templates /\ c.new \notin older
    BY <1>1 DEF CheckStableRSExists, OlderPods
<1>4. total \in Nat /\ current \in Nat /\ n \in Nat
    <2>1. total \in Nat
        <3> HIDE DEF older
        <3> QED
            BY <1>1, <1>3, CountsType
    <2> QED
        BY <1>1, <2>1, SizesType DEF ReplicaSet
<1>5. \A t \in Templates \ (older \cup {c.new}) : c.rss[t].spec = 0 /\ c.rss[t].avail = 0
    BY <1>1, ConstantsAssumption DEF CheckStableRSExists, OlderPods
<1>6. GetReplicaCount(c.rss, Templates \ {c.new}) = total
    <2> HIDE DEF older
    <2>1. /\ Templates \ {c.new} \subseteq Templates /\ older \subseteq Templates \ {c.new}
          /\ \A t \in (Templates \ {c.new}) \ older : c.rss[t].spec = 0
        BY <1>3, <1>5
    <2> QED
        BY <1>1, <2>1, CountOnly
<1>7. n = NewRSNewReplicas(c)
    <2>1. NewRSNewReplicas(c) \in Int
        BY SizesType
    <2> QED
        BY <1>2, <1>4, <2>1 DEF NewReplicasCount, Larger
<1>8. SUFFICES total + n <= room
    BY <1>6, Zenon
<1>9. CASE few
    <2>1. n = c.spec.replicas - total
        BY <1>7, <1>9, Zenon DEF NewRSNewReplicas, OlderPods
    <2> HIDE DEF total, n
    <2> QED
        BY <1>2, <1>4, <2>1
<1>10. ~few => n = CalculateReplicaCountsForBasicCanary(c)
    BY <1>7, Zenon DEF NewRSNewReplicas
<1>11. CASE ~few /\ c.stable # Nil
    <2> DEFINE wanted == WantedOf(c)
               over == Larger(0, total + wanted - room)
               less == Smaller(0, GetAvailableReplicaCount(c.rss, older)
                                    + c.rss[c.new].avail - MinAvailable(c.spec))
    <2>1. n = wanted - over - less
        <3>1. CalculateReplicaCountsForBasicCanary(c) = adjustReplicaWithinLimits(c, older, wanted)
            BY <1>11, CalculatedFrom, Zenon
        <3>2. adjustReplicaWithinLimits(c, older, wanted) = wanted - over - less
            BY Zenon DEF adjustReplicaWithinLimits
        <3> HIDE DEF n, few, wanted, over, less, older
        <3> QED
            BY <1>10, <1>11, <3>1, <3>2
    <2>2. less = 0
        <3> HIDE DEF older
        <3>1. /\ older \cup {c.new} \subseteq Templates
              /\ \A t \in Templates \ (older \cup {c.new}) : c.rss[t].avail = 0
            BY <1>3, <1>5
        <3>2. GetAvailableReplicaCount(c.rss, Templates)
                 = GetAvailableReplicaCount(c.rss, older \cup {c.new})
            BY <1>1, <3>1, CountOnly
        <3>3. GetAvailableReplicaCount(c.rss, older \cup {c.new})
                 = GetAvailableReplicaCount(c.rss, older) + c.rss[c.new].avail
            BY <1>1, <1>3, CountOneMore
        <3>4. GetAvailableReplicaCount(c.rss, older) \in Nat /\ c.rss[c.new].avail \in Nat
            BY <1>1, <1>3, CountsType DEF ReplicaSet
        <3>5. GetAvailableReplicaCount(c.rss, older) + c.rss[c.new].avail
                 >= MinAvailable(c.spec)
            BY <3>2, <3>3, Zenon DEF AvailableEnough
        <3> QED
            BY <1>2, <3>4, <3>5 DEF Smaller
    <2>3. wanted \in Int
        <3>1. DesiredNewReplicas(c) \in Nat /\ RoomFor(c) \in Int
            BY <1>2, DesiredType, SizesType DEF RoomFor
        <3> QED
            BY <1>4, <3>1 DEF WantedOf, Smaller
    <2>4. over >= total + wanted - room /\ over \in Nat
        <3> HIDE DEF wanted, total, older
        <3> QED
            BY <1>2, <1>4, <2>3 DEF Larger
    <2> HIDE DEF wanted, over, less, total, n, older
    <2> QED
        BY <1>2, <1>4, <2>1, <2>2, <2>3, <2>4
<1>12. CASE c.stable = Nil
    <2>1. ~CheckStableRSExists(c)
        BY <1>12 DEF CheckStableRSExists
    <2>2. n = WantedOf(c)
        BY <1>10, <1>12, <2>1, CalculatedFrom, Zenon
    <2>3. CountedReplicas(c) = total + current
        <3>1. c.others \cup {c.new} \cup ({c.stable} \ {Nil}) = c.others \cup {c.new}
            BY <1>12
        <3>2. CountedReplicas(c) = GetReplicaCount(c.rss, c.others \cup {c.new})
            BY <2>1, <3>1, Zenon DEF CountedReplicas
        <3>3. GetReplicaCount(c.rss, c.others \cup {c.new})
                 = GetReplicaCount(c.rss, c.others) + current
            BY <1>1, CountOneMore
        <3> QED
            BY <2>1, <3>2, <3>3, Zenon DEF OlderPods
    <2>4. DesiredNewReplicas(c) \in Nat
        BY DesiredType
    <2>5. n > current
        OBVIOUS
    <2>6. RoomFor(c) = room - total - current
        BY <1>2, <1>4, <2>3 DEF RoomFor
    <2>7. n <= current + RoomFor(c)
        <3> HIDE DEF n, total
        <3> QED
            BY <1>2, <1>4, <2>2, <2>4, <2>5, <2>6 DEF WantedOf, Smaller
    <2> HIDE DEF n, total, current
    <2> QED
        BY <1>2, <1>4, <2>6, <2>7
<1> HIDE DEF few
<1> QED
    BY <1>9, <1>11, <1>12

-----------------------------------------------------------------------------
(***************************************************************************)
(* Unseen ReplicaSets                                                      *)
(***************************************************************************)

\* A pass that goes on keeps what it knows.
SameKnown ==
    /\ pc # "idle"
    /\ ctx'.others = ctx.others /\ ctx'.stable = ctx.stable
    /\ ctx'.new = ctx.new \/ ctx.new = Nil
    /\ \A t \in Templates : ctx'.rss[t].avail = ctx.rss[t].avail

LEMMA KnownStays == IInv /\ [Next]_vars => pc' = "idle" \/ GetRollout \/ SameKnown
<1> SUFFICES ASSUME IInv, [Next]_vars, pc' # "idle", ~GetRollout
             PROVE  SameKnown
    OBVIOUS
<1>1. TypeOK
    BY IInvParts
<1>2. CASE ctx' = ctx /\ pc # "idle"
    BY <1>2 DEF SameKnown
<1>3. CASE pc # "idle" /\ (\/ checkPausedConditions \/ setRolloutRevision
                          \/ AnnounceReplicaSet \/ reconcileCanaryPause
                          \/ StartScaleDown \/ createDesiredReplicaSet)
    <2>1. ctx \in Context
        BY <1>1, <1>3, ContextType
    <2>2. ctx.new = Nil \/ ~createDesiredReplicaSet
        BY IInvParts DEF createDesiredReplicaSet, Safe, SnapshotIsCurrent
    <2>3. \/ \E st : ctx' = [ctx EXCEPT !.status = st]
          \/ \E r : ctx' = [ctx EXCEPT !.revision = r]
          \/ \E a : ctx' = [ctx EXCEPT !.addPause = a]
          \/ \E b, o : ctx' = [ctx EXCEPT !.budget = b, !.todo = o]
          \/ \E n : ctx' = [ctx EXCEPT !.new = n] /\ ctx.new = Nil
        BY <1>3, <2>2, Zenon DEF checkPausedConditions, setRolloutRevision,
           AnnounceReplicaSet, reconcileCanaryPause, StartScaleDown, createDesiredReplicaSet
    <2> QED
        BY <1>3, <2>1, <2>3 DEF SameKnown, Context
<1>4. CASE syncReplicaSetRevision
    <2>1. pc # "idle" /\ ctx.new # Nil
        BY <1>1, <1>4 DEF syncReplicaSetRevision, TypeOK
    <2>2. ctx \in Context /\ ctx.new \in Templates
        BY <1>1, <2>1, ContextType
    <2>3. ctx' = [ctx EXCEPT !.rss = [ctx.rss EXCEPT ![ctx.new].rev = NewRevision(ctx)]]
        BY <1>4 DEF syncReplicaSetRevision
    <2>4. \A t \in Templates :
             [ctx.rss EXCEPT ![ctx.new].rev = NewRevision(ctx)][t].avail = ctx.rss[t].avail
        BY <2>2 DEF Context, ReplicaSet
    <2> QED
        BY <2>1, <2>2, <2>3, <2>4 DEF SameKnown, Context
<1>5. CASE cleanupUnhealthyReplicas /\ ctx' # ctx
    <2>1. PICK t \in ctx.others, n \in Nat : ctx' = [ctx EXCEPT !.rss[t].spec = n]
        BY <1>5, CleanupShrinks
    <2>2. pc # "idle"
        BY <1>5 DEF cleanupUnhealthyReplicas
    <2>3. ctx \in Context
        BY <1>1, <2>2, ContextType
    <2>4. \A u \in Templates :
             [ctx.rss EXCEPT ![t].spec = n][u].avail = ctx.rss[u].avail
        BY <2>3 DEF Context, ReplicaSet
    <2>5. ctx' = [ctx EXCEPT !.rss = [ctx.rss EXCEPT ![t].spec = n]]
        BY <2>1
    <2> QED
        BY <2>2, <2>3, <2>4, <2>5 DEF SameKnown, Context
<1>6. CASE scaleDownOldReplicaSetsForCanary /\ ctx' # ctx
    <2>1. pc # "idle"
        BY <1>6 DEF scaleDownOldReplicaSetsForCanary
    <2>2. ctx \in Context
        BY <1>1, <2>1, ContextType
    <2>3. \E b, o : ctx' = [ctx EXCEPT !.todo = o, !.budget = b]
        BY <1>6, ScaleDownShrinks
    <2> QED
        BY <2>1, <2>2, <2>3 DEF SameKnown, Context
<1>7. CASE Pass
    <2>1. ~EndPass
        BY DEF EndPass
    <2>2. ~PanicOnNilStable /\ ~Conflict /\ ~tryToCompleteStepAndSyncRolloutStatusCanary
        BY <2>1, Zenon DEF PanicOnNilStable, Conflict, tryToCompleteStepAndSyncRolloutStatusCanary
    <2>3. CASE \/ haltProgress \/ reconcileNewReplicaSet \/ reconcileOldReplicaSets
               \/ reconcileRevisionHistoryLimit
        <3>1. ctx' = ctx /\ pc # "idle"
            BY <2>3 DEF haltProgress, reconcileNewReplicaSet, reconcileOldReplicaSets,
               reconcileRevisionHistoryLimit
        <3> QED
            BY <1>2, <3>1
    <2>4. CASE \/ checkPausedConditions \/ setRolloutRevision
               \/ AnnounceReplicaSet \/ reconcileCanaryPause
               \/ StartScaleDown \/ createDesiredReplicaSet
        <3>1. pc # "idle"
            BY <2>4 DEF checkPausedConditions, setRolloutRevision, AnnounceReplicaSet,
               reconcileCanaryPause, StartScaleDown, createDesiredReplicaSet
        <3> QED
            BY <1>3, <2>4, <3>1
    <2>5. CASE cleanupUnhealthyReplicas \/ scaleDownOldReplicaSetsForCanary
        <3>1. pc # "idle"
            BY <2>5 DEF cleanupUnhealthyReplicas, scaleDownOldReplicaSetsForCanary
        <3> QED
            BY <1>2, <1>5, <1>6, <2>5, <3>1
    <2> QED
        BY <1>4, <1>7, <2>2, <2>3, <2>4, <2>5, Zenon DEF Pass
<1>8. CASE ~Pass
    <2>1. ~PassFails
        BY DEF PassFails, EndPass
    <2>2. ctx' = ctx /\ (pc' = pc \/ pc # "idle")
        BY <1>8, <2>1 DEF Next, Failure, OldScalingFails, PodFails, User, EditSpec, Resume,
           Kube, SyncPods, PodReady, PauseElapses, vars, pass
    <2> QED
        BY <1>2, <2>2
<1> QED
    BY <1>7, <1>8

\* A ReplicaSet that does not exist was never there, or was deleted.
LEMMA AbsentStays ==
    IInv /\ UnseenHasNoPods /\ [Next]_vars =>
        \A t \in Templates : ~Exists(t)' => rss'[t].actual = 0 /\ rss'[t].avail = 0
<1> SUFFICES ASSUME IInv, UnseenHasNoPods, [Next]_vars, NEW t \in Templates, ~Exists(t)'
             PROVE  rss'[t].actual = 0 /\ rss'[t].avail = 0
    OBVIOUS
<1>1. TypeOK /\ rss \in [Templates -> ReplicaSet] /\ AbsentHasNoPods
    BY IInvParts DEF TypeOK, Safe
<1>2. CASE rss'[t] = rss[t]
    BY <1>2 DEF UnseenHasNoPods, Exists
<1>3. ASSUME NEW u \in Templates, NEW r \in ReplicaSet, rss' = [rss EXCEPT ![u] = r],
             r.born > 0 \/ r = Absent
      PROVE  rss'[t].actual = 0 /\ rss'[t].avail = 0
    <2>1. CASE t = u
        <3>1. rss'[t] = r
            BY <1>1, <1>3, <2>1
        <3> QED
            BY <1>3, <3>1 DEF Exists, Absent
    <2>2. CASE t # u
        BY <1>1, <1>2, <1>3, <2>2
    <2> QED
        BY <2>1, <2>2
<1>4. ASSUME NEW u \in Templates, NEW n \in Nat, Resized(u, n)
      PROVE  rss'[t].actual = 0 /\ rss'[t].avail = 0
    <2>1. Resize(rss[u], n) \in ReplicaSet /\ Resize(rss[u], n).born > 0
        BY <1>1, <1>4 DEF Resized, Resize, Exists, ReplicaSet
    <2> QED
        BY <1>3, <1>4, <2>1 DEF Resized
<1>5. CASE syncReplicaSetRevision
    <2>1. pc = "syncRevision" /\ ctx.new # Nil
        BY <1>1, <1>5 DEF syncReplicaSetRevision, TypeOK
    <2>2. ctx \in Context /\ ctx.new \in Templates /\ Exists(ctx.new)
        BY <1>1, <2>1, ContextType, IInvParts DEF Safe, SnapshotIsCurrent
    <2>3. rss' = [rss EXCEPT ![ctx.new] = [rss[ctx.new] EXCEPT !.rev = NewRevision(ctx)]]
        BY <1>5, Zenon DEF syncReplicaSetRevision, UpdateRS
    <2>4. rss'[ctx.new].born = rss[ctx.new].born /\ (t # ctx.new => rss'[t] = rss[t])
        BY <1>1, <2>2, <2>3 DEF ReplicaSet
    <2> QED
        BY <1>2, <2>2, <2>4 DEF Exists
<1>6. CASE createDesiredReplicaSet
    <2>1. pc = "create"
        BY <1>6 DEF createDesiredReplicaSet
    <2>2. ctx \in Context /\ ctx.spec.template \in Templates
        BY <1>1, <2>1, ContextType
    <2>3. CreatedRS \in ReplicaSet /\ CreatedRS.born > 0
        BY <1>1, <2>2, CreatedRSType
    <2>4. rss' = [rss EXCEPT ![ctx.spec.template] = CreatedRS]
        BY <1>6, Zenon DEF createDesiredReplicaSet
    <2> QED
        BY <1>3, <2>2, <2>3, <2>4
<1>7. CASE reconcileRevisionHistoryLimit /\ rss' # rss
    <2>1. PICK d \in ctx.others : rss' = [rss EXCEPT ![d] = Absent]
        BY <1>7, HistoryDeletes
    <2>2. d \in Templates
        BY <1>1, <1>7, <2>1, ContextType DEF reconcileRevisionHistoryLimit
    <2> QED
        BY <1>3, <2>1, <2>2 DEF Absent, ReplicaSet
<1>8. CASE reconcileNewReplicaSet
    <2>1. pc = "scale" /\ ctx.new # Nil
        BY <1>1, <1>8 DEF reconcileNewReplicaSet, TypeOK
    <2>2. ctx \in Context /\ ctx.new \in Templates /\ Exists(ctx.new)
        BY <1>1, <2>1, ContextType, IInvParts DEF Safe, SnapshotIsCurrent
    <2>3. NewReplicasCount(ctx) \in Nat
        BY <2>2, SizesType
    <2>4. Resized(ctx.new, NewReplicasCount(ctx))
        BY <1>8, <2>2 DEF reconcileNewReplicaSet, UpdateRS, Resized
    <2> QED
        BY <1>4, <2>2, <2>3, <2>4
<1>9. CASE cleanupUnhealthyReplicas /\ rss' # rss
    <2>1. PICK u \in ctx.others, n \in Nat : Resized(u, n)
        BY <1>9, CleanupShrinks
    <2>2. u \in Templates
        BY <1>1, <1>9, <2>1, ContextType DEF cleanupUnhealthyReplicas
    <2> QED
        BY <1>4, <2>1, <2>2
<1>10. CASE scaleDownOldReplicaSetsForCanary /\ rss' # rss
    <2>1. PICK u \in Templates, n \in Nat : Resized(u, n)
        BY <1>10, ScaleDownShrinks
    <2> QED
        BY <1>4, <2>1
<1>11. CASE \E u \in Templates : SyncPods(u) \/ PodReady(u) \/ PodFails(u)
    <2>1. PICK u \in Templates : SyncPods(u) \/ PodReady(u) \/ PodFails(u)
        BY <1>11
    <2>2. rss'[t].born = rss[t].born
        BY <1>1, <2>1 DEF SyncPods, PodReady, PodFails, ReplicaSet
    <2>3. ~Exists(t)
        BY <2>2 DEF Exists
    <2>4. rss[t].spec = 0 /\ rss[t].actual = 0 /\ rss[t].avail = 0
        BY <1>1, <2>3 DEF AbsentHasNoPods, UnseenHasNoPods
    <2>5. u # t
        BY <2>1, <2>3, <2>4 DEF SyncPods, PodReady, PodFails
    <2>6. rss'[t] = rss[t]
        BY <1>1, <2>1, <2>5 DEF SyncPods, PodReady, PodFails
    <2> QED
        BY <1>2, <2>6
<1>12. CASE rss' = rss
    BY <1>2, <1>12
<1>13. CASE Pass
    <2>1. CASE \/ GetRollout \/ checkPausedConditions \/ setRolloutRevision
               \/ AnnounceReplicaSet \/ reconcileCanaryPause \/ haltProgress
               \/ reconcileOldReplicaSets \/ StartScaleDown \/ PanicOnNilStable \/ Conflict
        <3>1. rss' = rss
            BY <2>1 DEF GetRollout, checkPausedConditions, setRolloutRevision,
               AnnounceReplicaSet, reconcileCanaryPause, haltProgress,
               reconcileOldReplicaSets, StartScaleDown, PanicOnNilStable, Conflict, cluster
        <3> QED
            BY <1>12, <3>1
    <2>2. CASE tryToCompleteStepAndSyncRolloutStatusCanary
        <3>1. rss' = rss
            BY <2>2, Zenon DEF tryToCompleteStepAndSyncRolloutStatusCanary, cluster
        <3> QED
            BY <1>12, <3>1
    <2> QED
        BY <1>5, <1>6, <1>7, <1>8, <1>9, <1>10, <1>12, <1>13, <2>1, <2>2, Zenon DEF Pass
<1>14. CASE PassFails \/ OldScalingFails \/ User \/ PauseElapses \/ UNCHANGED vars
    BY <1>12, <1>14
    DEF PassFails, OldScalingFails, User, EditSpec, Resume, PauseElapses, vars, cluster
<1> QED
    BY <1>11, <1>13, <1>14, Zenon DEF Next, Failure, Kube

\* A pass that begins knows every ReplicaSet that exists.
LEMMA UnseenStays == IInv /\ UnseenHasNoPods /\ [Next]_vars => UnseenHasNoPods'
<1> SUFFICES ASSUME IInv, UnseenHasNoPods, [Next]_vars
             PROVE  UnseenHasNoPods'
    OBVIOUS
<1>1. \A t \in Templates : ~Exists(t)' => rss'[t].actual = 0 /\ rss'[t].avail = 0
    BY AbsentStays
<1>2. CASE pc' = "idle"
    BY <1>1, <1>2 DEF UnseenHasNoPods
<1>3. CASE GetRollout
    <2>1. /\ ctx'.rss = rss
          /\ \A t \in Templates : Exists(t) => t \in ctx'.others \cup {ctx'.new, ctx'.stable}
        BY <1>3 DEF GetRollout
    <2>2. \A t \in Templates \ (ctx'.others \cup {ctx'.new, ctx'.stable}) : ctx'.rss[t].avail = 0
        BY <2>1 DEF UnseenHasNoPods
    <2> QED
        BY <1>1, <2>2 DEF UnseenHasNoPods
<1>4. CASE SameKnown
    <2>1. ctx.new \in Templates \cup {Nil}
        BY <1>4, IInvParts, ContextType DEF SameKnown
    <2>2. \A t \in Templates \ (ctx'.others \cup {ctx'.new, ctx'.stable}) : ctx'.rss[t].avail = 0
        BY <1>4, <2>1, ConstantsAssumption DEF SameKnown, UnseenHasNoPods
    <2> QED
        BY <1>1, <2>2 DEF UnseenHasNoPods
<1> QED
    BY <1>2, <1>3, <1>4, KnownStays

-----------------------------------------------------------------------------
(***************************************************************************)
(* What the loop over the old ReplicaSets may take                         *)
(***************************************************************************)
LEMMA SurvivingIs ==
    /\ SurvivingPods(rss) = Survivors(rss, ctx.rss)
    /\ SurvivingPods(rss') = Survivors(rss', ctx.rss)
    /\ SurvivingPods(rss)' = Survivors(rss', ctx'.rss)
BY DEF SurvivingPods, Survivors, KeptOf

LEMMA NextTypes ==
    ASSUME IInv, [Next]_vars
    PROVE  rss \in [Templates -> ReplicaSet] /\ rss' \in [Templates -> ReplicaSet]
<1>1. TypeOK /\ TypeOK'
    BY IInvParts, NextTypeOK
<1> QED
    BY <1>1 DEF TypeOK

\* It begins with what the available pods can spare.
LEMMA BudgetBegins ==
    ASSUME IInv, StartScaleDown, pc' = "scaleDown",
           \A t \in Templates : ~Terminating(ctx'.rss[t])
    PROVE  Survivors(rss', ctx'.rss) - ctx'.budget >= MinAvailable(ctx'.spec)
<1>1. TypeOK /\ pc = "cleanup" /\ rss' = rss /\ SizesAreCurrent
    BY IInvParts DEF StartScaleDown, cluster, Safe
<1>2. ctx \in Context /\ rss \in [Templates -> ReplicaSet]
    BY <1>1, ContextType DEF TypeOK
<1>3. ctx.rss \in [Templates -> ReplicaSet] /\ ctx.spec \in RolloutSpec
    BY <1>2 DEF Context
<1>4. /\ ctx'.rss = ctx.rss /\ ctx'.spec = ctx.spec
      /\ ctx'.budget = Larger(0, MaxScaleDown(ctx)) /\ ~(MaxScaleDown(ctx) <= 0)
    BY <1>2 DEF StartScaleDown, Context
<1>5. ctx'.budget = MaxScaleDown(ctx)
    <2>1. MaxScaleDown(ctx) \in Int
        BY <1>2, MaxScaleDownType
    <2> QED
        BY <1>4, <2>1 DEF Larger
<1>6. \A t \in Templates : ctx.rss[t].avail <= rss[t].spec
    <2> SUFFICES ASSUME NEW t \in Templates PROVE ctx.rss[t].avail <= rss[t].spec
        OBVIOUS
    <2>1. ~(ctx.rss[t].avail > ctx.rss[t].spec)
        BY <1>4 DEF Terminating
    <2>2. rss[t].spec = ctx.rss[t].spec
        BY <1>1 DEF SizesAreCurrent, PassPcs
    <2>3. ctx.rss[t].avail \in Nat /\ ctx.rss[t].spec \in Nat
        BY <1>3 DEF ReplicaSet
    <2> QED
        BY <2>1, <2>2, <2>3
<1>7. Survivors(rss, ctx.rss) = GetAvailableReplicaCount(ctx.rss, Templates)
    BY <1>2, <1>3, <1>6, SurvivorsAreAll
<1>8. Seen(ctx) \subseteq Templates
    BY DEF Seen
<1>9. /\ GetAvailableReplicaCount(ctx.rss, Seen(ctx))
            <= GetAvailableReplicaCount(ctx.rss, Templates)
      /\ GetAvailableReplicaCount(ctx.rss, Seen(ctx)) \in Nat
      /\ GetAvailableReplicaCount(ctx.rss, Templates) \in Nat
      /\ MinAvailable(ctx.spec) \in Int
    BY <1>3, <1>8, AvailableMonotone, CountsType, LimitsType
<1> QED
    BY <1>1, <1>4, <1>5, <1>7, <1>9 DEF MaxScaleDown

\* What a ReplicaSet loses is taken from the budget.
LEMMA BudgetGoesOn ==
    ASSUME IInv, BudgetIsLeft, [Next]_vars, scaleDownOldReplicaSetsForCanary,
           pc' = "scaleDown", \A t \in Templates : ~Terminating(ctx'.rss[t])
    PROVE  Survivors(rss', ctx'.rss) - ctx'.budget >= MinAvailable(ctx'.spec)
<1>1. TypeOK /\ pc = "scaleDown"
    BY IInvParts DEF scaleDownOldReplicaSetsForCanary
<1>2. PICK t \in Templates, n \in Nat :
          /\ Resized(t, n) /\ n <= rss[t].spec
          /\ \E left \in Nat : /\ left = ctx.budget - (rss[t].spec - n)
                              /\ ctx' = [ctx EXCEPT !.todo = ctx.todo \ {t}, !.budget = left]
    BY ScaleDownShrinks
<1>3. ctx \in Context /\ rss \in [Templates -> ReplicaSet] /\ rss' \in [Templates -> ReplicaSet]
    BY <1>1, ContextType, NextTypes
<1>4. /\ ctx'.rss = ctx.rss /\ ctx'.spec = ctx.spec
      /\ ctx'.budget = ctx.budget - (rss[t].spec - n)
    BY <1>2, <1>3 DEF Context
<1>5. rss'[t].spec = n /\ \A u \in Templates \ {t} : rss'[u] = rss[u]
    BY <1>1, <1>2, ResizedOnly
<1>6. Survivors(rss', ctx.rss) >= Survivors(rss, ctx.rss) - (rss[t].spec - n)
    BY <1>2, <1>3, <1>5, SurvivorsOfShrunk DEF Context
<1>7. Survivors(rss, ctx.rss) - ctx.budget >= MinAvailable(ctx.spec)
    BY <1>1, <1>4, SurvivingIs DEF BudgetIsLeft
<1>8. /\ Survivors(rss, ctx.rss) \in Nat /\ Survivors(rss', ctx.rss) \in Nat
      /\ ctx.budget \in Nat /\ rss[t].spec \in Nat /\ MinAvailable(ctx.spec) \in Int
    BY <1>3, KeptType, LimitsType DEF Context, ReplicaSet
<1> QED
    BY <1>4, <1>6, <1>7, <1>8

\* No other call of a pass goes there.
LEMMA OnlyScalingGoesOn ==
    ASSUME Pass, pc' = "scaleDown"
    PROVE  StartScaleDown \/ scaleDownOldReplicaSetsForCanary
<1>1. ~EndPass
    BY DEF EndPass
<1>2. ~PanicOnNilStable /\ ~Conflict /\ ~tryToCompleteStepAndSyncRolloutStatusCanary
    BY <1>1, Zenon DEF PanicOnNilStable, Conflict, tryToCompleteStepAndSyncRolloutStatusCanary
<1>3. ~GetRollout /\ ~syncReplicaSetRevision /\ ~createDesiredReplicaSet
    BY DEF GetRollout, syncReplicaSetRevision, createDesiredReplicaSet
<1>4. ~checkPausedConditions /\ ~setRolloutRevision /\ ~AnnounceReplicaSet
    BY DEF checkPausedConditions, SyncRevisionPc, setRolloutRevision, AnnounceReplicaSet
<1>5. ~reconcileCanaryPause /\ ~haltProgress /\ ~reconcileNewReplicaSet
    BY DEF reconcileCanaryPause, haltProgress, reconcileNewReplicaSet
<1>6. ~reconcileOldReplicaSets /\ ~cleanupUnhealthyReplicas
    BY DEF reconcileOldReplicaSets, cleanupUnhealthyReplicas
<1>7. ~reconcileRevisionHistoryLimit
    BY DEF reconcileRevisionHistoryLimit
<1> QED
    BY <1>2, <1>3, <1>4, <1>5, <1>6, <1>7, Zenon DEF Pass

LEMMA BudgetStays == IInv /\ BudgetIsLeft /\ [Next]_vars => BudgetIsLeft'
<1> SUFFICES ASSUME IInv, BudgetIsLeft, [Next]_vars, pc' = "scaleDown",
                    \A t \in Templates : ~Terminating(ctx'.rss[t])
             PROVE  Survivors(rss', ctx'.rss) - ctx'.budget >= MinAvailable(ctx'.spec)
    BY SurvivingIs DEF BudgetIsLeft, Terminating
<1>1. CASE StartScaleDown
    BY <1>1, BudgetBegins
<1>2. CASE scaleDownOldReplicaSetsForCanary
    BY <1>2, BudgetGoesOn
<1>3. ASSUME pc' = pc, ctx' = ctx, SameSizes
      PROVE  Survivors(rss', ctx'.rss) - ctx'.budget >= MinAvailable(ctx'.spec)
    <2>1. ctx \in Context
        BY <1>3, IInvParts, ContextType
    <2>2. ctx.rss \in [Templates -> ReplicaSet]
        BY <2>1 DEF Context
    <2>3. Survivors(rss', ctx.rss) = Survivors(rss, ctx.rss)
        BY <1>3, <2>2, NextTypes, SurvivorsSame DEF SameSizes
    <2> QED
        BY <1>3, <2>3, SurvivingIs DEF BudgetIsLeft
<1>4. CASE Pass
    BY <1>1, <1>2, <1>4, OnlyScalingGoesOn
<1>5. CASE ~Pass
    <2>1. ~PassFails /\ ~OldScalingFails
        BY DEF PassFails, OldScalingFails, EndPass
    <2>2. pc' = pc /\ ctx' = ctx
        BY <1>5, <2>1 DEF Next, Failure, PodFails, User, EditSpec, Resume,
           Kube, SyncPods, PodReady, PauseElapses, pass, vars
    <2>3. CASE \E t \in Templates : SyncPods(t) \/ PodReady(t) \/ PodFails(t)
        <3>1. PICK t \in Templates : SyncPods(t) \/ PodReady(t) \/ PodFails(t)
            BY <2>3
        <3>2. SameSizes
            BY <3>1, NextTypes DEF SyncPods, PodReady, PodFails, SameSizes, ReplicaSet
        <3> QED
            BY <1>3, <2>2, <3>2
    <2>4. CASE User \/ PauseElapses \/ UNCHANGED vars
        <3>1. SameSizes
            BY <2>4 DEF SameSizes, User, EditSpec, Resume, PauseElapses, vars, cluster
        <3> QED
            BY <1>3, <2>2, <3>1
    <2> QED
        BY <1>5, <2>1, <2>3, <2>4, Zenon DEF Next, Failure, Kube
<1> QED
    BY <1>4, <1>5

\* What the limits rest on.
LEMMA LimitsInduct == IInv /\ LimitsInv /\ [Next]_vars => LimitsInv'
BY UnseenStays, BudgetStays DEF LimitsInv

THEOREM LimitsInvariant == Spec => []LimitsInv
<1>1. Init => LimitsInv
    <2> SUFFICES ASSUME Init PROVE LimitsInv
        OBVIOUS
    <2>1. pc = "idle"
        BY DEF Init
    <2>2. PICK d \in Deployed : InitialRollout(d)
        BY DEF Init
    <2>3. \A t \in Templates : rss[t] = IF t = d THEN DeployedRS(spec.replicas) ELSE Absent
        BY <2>2 DEF InitialRollout
    <2>4. \A t \in Templates : ~Exists(t) => rss[t].actual = 0 /\ rss[t].avail = 0
        BY <2>3 DEF Exists, DeployedRS, Absent
    <2> QED
        BY <2>1, <2>4 DEF LimitsInv, UnseenHasNoPods, BudgetIsLeft
<1> QED
    BY <1>1, LimitsInduct, Inductive, PTL DEF Spec

-----------------------------------------------------------------------------
(***************************************************************************)
(* The two limits                                                          *)
(***************************************************************************)
\* The ReplicaSets that a pass does not know have no pods in its snapshot.
LEMMA UnseenInSnapshot ==
    ASSUME IInv, UnseenHasNoPods, pc \in PassPcs \ {"scaleDown", "persist"}
    PROVE  \A t \in Templates \ (ctx.others \cup {ctx.new, ctx.stable}) :
               ctx.rss[t].spec = 0 /\ ctx.rss[t].avail = 0
BY IInvParts DEF Safe, AbsentHasNoPods, SnapshotIsCurrent, SizesAreCurrent,
   UnseenHasNoPods, PassPcs

\* README principle 5, as far as it holds: when a pass sees enough available
\* pods, what it scales up stays within the replicas of the rollout and the surge.
THEOREM ScalingUpStaysWithinSurge == Spec => ScaleUpWithinSurge
<1>1. ASSUME IInv, LimitsInv, [Next]_vars, NEW t \in Templates, ScaledUp(t), AvailableEnough(ctx)
      PROVE  GetReplicaCount(rss', Templates) <= ctx.spec.replicas + MaxSurge(ctx.spec)
    <2>1. TypeOK /\ SnapshotIsCurrent /\ SizesAreCurrent
        BY <1>1, IInvParts DEF Safe
    <2>2. ~SameSizes
        BY <1>1, NothingResized
    <2>3. ~OldIsShrunk
        BY <1>1, <2>1, ResizedEffect, ReplicaSetsType DEF OldIsShrunk
    <2>4. PICK n \in Nat : /\ pc = "scale" /\ n = NewReplicasCount(ctx)
                           /\ ctx.new \in Templates /\ Resized(ctx.new, n)
        BY <1>1, <2>2, <2>3, SizeChanges DEF NewIsResized
    <2>5. /\ ctx \in Context /\ ctx.rss \in [Templates -> ReplicaSet]
          /\ rss \in [Templates -> ReplicaSet] /\ rss' \in [Templates -> ReplicaSet]
        BY <1>1, <2>1, <2>4, ContextType, NextTypes DEF Context
    <2>6. t = ctx.new /\ n > rss[t].spec /\ rss'[t].spec = n
        BY <1>1, <2>4, ResizedEffect
    <2>7. \A u \in Templates : rss[u].spec = ctx.rss[u].spec
        BY <2>1, <2>4 DEF SizesAreCurrent, PassPcs
    <2>8. ctx.new \notin ctx.others /\ ctx.stable \notin ctx.others
        BY <2>1, <2>4, ConstantsAssumption DEF SnapshotIsCurrent
    <2>9. GetReplicaCount(ctx.rss, Templates \ {t}) + n <= ctx.spec.replicas + MaxSurge(ctx.spec)
        <3>1. \A u \in Templates \ (ctx.others \cup {ctx.new, ctx.stable}) :
                  ctx.rss[u].spec = 0 /\ ctx.rss[u].avail = 0
            BY <1>1, <2>4, UnseenInSnapshot DEF LimitsInv, PassPcs
        <3>2. NewReplicasCount(ctx) > ctx.rss[ctx.new].spec
            BY <2>4, <2>6, <2>7
        <3> QED
            BY <1>1, <2>4, <2>5, <2>6, <2>8, <3>1, <3>2, NewSizeWithinSurge
    <2>10. GetReplicaCount(rss', Templates) = GetReplicaCount(rss', Templates \ {t}) + n
        <3>1. Templates = (Templates \ {t}) \cup {t} /\ t \notin Templates \ {t}
              /\ Templates \ {t} \subseteq Templates
            BY <1>1
        <3> QED
            BY <1>1, <2>5, <2>6, <3>1, CountOneMore
    <2>11. GetReplicaCount(rss', Templates \ {t}) = GetReplicaCount(ctx.rss, Templates \ {t})
        <3>1. \A u \in Templates \ {t} : rss'[u].spec = ctx.rss[u].spec
            BY <2>1, <2>4, <2>6, <2>7, ResizedOnly
        <3> QED
            BY <2>5, <3>1, CountSame
    <2> QED
        BY <2>9, <2>10, <2>11
<1>2. IInv /\ LimitsInv /\ [Next]_vars =>
         [(\E t \in Templates : ScaledUp(t)) /\ AvailableEnough(ctx)
            => GetReplicaCount(rss', Templates) <= ctx.spec.replicas + MaxSurge(ctx.spec)]_vars
    BY <1>1
<1> QED
    BY <1>2, Inductive, LimitsInvariant, PTL DEF Spec, ScaleUpWithinSurge

\* A ReplicaSet at full size alone has as many pods as must be available.
LEMMA FullSizeIsEnough ==
    ASSUME NEW c \in Context, NEW r \in [Templates -> ReplicaSet], NEW t \in Templates,
           r[t].spec = c.spec.replicas, c.rss[t].avail >= c.spec.replicas
    PROVE  Survivors(r, c.rss) >= MinAvailable(c.spec)
<1> DEFINE kept == KeptOf(r, c.rss)
<1>1. c.rss \in [Templates -> ReplicaSet] /\ c.spec \in RolloutSpec
    BY DEF Context
<1>2. c.spec.replicas \in Nat /\ MaxUnavailable(c.spec) \in Nat /\ c.rss[t].avail \in Nat
    BY <1>1, LimitsType DEF ReplicaSet
<1>3. \A u \in Templates : kept[u] \in Nat
    BY <1>1, KeptType
<1>4. kept[t] = c.spec.replicas
    <2>1. kept[t] = Smaller(r[t].spec, c.rss[t].avail)
        BY <1>1, KeptType
    <2> QED
        BY <1>2, <2>1 DEF Smaller
<1> HIDE DEF kept
<1>5. Cardinality(Pods({t}, kept)) = kept[t]
    <2>1. IsFiniteSet({}) /\ {} \cup {t} = {t}
        BY FS_EmptySet
    <2>2. Cardinality(Pods({} \cup {t}, kept)) = Cardinality(Pods({}, kept)) + kept[t]
        BY <1>3, <2>1, PodsOfOneMore
    <2>3. Pods({}, kept) = {} /\ Cardinality({}) = 0
        BY FS_EmptySet DEF Pods
    <2> QED
        BY <1>3, <2>1, <2>2, <2>3
<1>6. Cardinality(Pods({t}, kept)) <= Cardinality(Pods(Templates, kept))
    <2>1. IsFiniteSet(Templates) /\ {t} \subseteq Templates
        BY TemplatesFinite
    <2>2. \A u \in Templates : kept[u] <= kept[u]
        BY <1>3
    <2> QED
        BY <1>3, <2>1, <2>2, PodsMonotone
<1>7. Survivors(r, c.rss) >= c.spec.replicas
    <2>1. Survivors(r, c.rss) = Cardinality(Pods(Templates, kept))
        BY Zenon DEF Survivors, kept
    <2>2. Survivors(r, c.rss) \in Nat
        BY <1>1, KeptType
    <2> QED
        BY <1>2, <1>4, <1>5, <1>6, <2>1, <2>2
<1>8. Survivors(r, c.rss) \in Nat
    BY <1>1, KeptType
<1> QED
    BY <1>2, <1>7, <1>8 DEF MinAvailable

\* README principle 6, as far as it holds: when a pass sees enough available
\* pods, and none that are about to be deleted, what it scales down leaves at
\* least spec.replicas - maxUnavailable of those pods running.
THEOREM PassLeavesMinAvailable == Spec => PassKeepsMinAvailable
<1>1. ASSUME IInv, LimitsInv, [Next]_vars, NEW t \in Templates, ScaledDown(t),
             AvailableEnough(ctx), \A u \in Templates : ~Terminating(ctx.rss[u])
      PROVE  Survivors(rss', ctx.rss) >= MinAvailable(ctx.spec)
    <2>1. TypeOK /\ SizesAreCurrent
        BY <1>1, IInvParts DEF Safe
    <2>2. rss \in [Templates -> ReplicaSet] /\ rss' \in [Templates -> ReplicaSet]
        BY <1>1, NextTypes
    <2>3. ASSUME pc \in PassPcs
          PROVE  /\ ctx \in Context /\ ctx.rss \in [Templates -> ReplicaSet]
                 /\ \A u \in Templates : /\ ctx.rss[u].avail \in Nat /\ ctx.rss[u].spec \in Nat
                                         /\ ctx.rss[u].avail <= ctx.rss[u].spec
        <3>1. ctx \in Context
            BY <2>1, <2>3, ContextType DEF PassPcs
        <3>2. ctx.rss \in [Templates -> ReplicaSet]
            BY <3>1 DEF Context
        <3> QED
            BY <1>1, <3>1, <3>2 DEF Terminating, ReplicaSet
    <2>4. ASSUME pc \in {"scale", "cleanup"}, NEW n \in Nat, Resized(t, n),
                 ctx.rss[t].avail <= n
          PROVE  Survivors(rss', ctx.rss) >= MinAvailable(ctx.spec)
        <3>1. \A u \in Templates : rss[u].spec = ctx.rss[u].spec
            BY <2>1, <2>4 DEF SizesAreCurrent, PassPcs
        <3>2. rss'[t].spec = n /\ \A u \in Templates \ {t} : rss'[u] = rss[u]
            BY <2>1, <2>4, ResizedOnly
        <3>3. \A u \in Templates : ctx.rss[u].avail <= rss'[u].spec
            BY <2>3, <2>4, <3>1, <3>2 DEF PassPcs
        <3>4. Survivors(rss', ctx.rss) = GetAvailableReplicaCount(ctx.rss, Templates)
            BY <2>2, <2>3, <2>4, <3>3, SurvivorsAreAll DEF PassPcs
        <3> QED
            BY <1>1, <3>4 DEF AvailableEnough
    <2>5. CASE NewIsResized
        <3>1. PICK n \in Nat : /\ pc = "scale" /\ ctx.new \in Templates /\ Resized(ctx.new, n)
                               /\ n = ctx.spec.replicas \/ n >= rss[ctx.new].spec
            BY <2>5 DEF NewIsResized
        <3>2. t = ctx.new /\ n < rss[t].spec /\ rss'[t].spec = n
            BY <1>1, <3>1, ResizedEffect
        <3>3. n = ctx.spec.replicas
            BY <2>1, <3>1, <3>2, ReplicaSetsType
        <3>4. CASE ctx.rss[t].avail <= n
            BY <2>4, <3>1, <3>2, <3>4
        <3>5. CASE ctx.rss[t].avail >= n
            <4>1. ctx \in Context
                BY <2>3, <3>1 DEF PassPcs
            <4> QED
                BY <1>1, <2>2, <3>2, <3>3, <3>5, <4>1, FullSizeIsEnough
        <3>6. ctx.rss[t].avail \in Nat
            BY <1>1, <2>3, <3>1 DEF PassPcs
        <3> QED
            BY <3>4, <3>5, <3>6
    <2>6. CASE OldIsShrunk
        <3>1. PICK u \in Templates, n \in Nat :
                  /\ Resized(u, n) /\ n <= rss[u].spec
                  /\ \/ pc = "cleanup" /\ n = ctx.rss[u].avail
                     \/ /\ pc = "scaleDown" /\ u \in ctx.todo \cup {ctx.stable}
                        /\ rss[u].spec - n <= ctx.budget
            BY <2>6 DEF OldIsShrunk
        <3>2. t = u
            BY <1>1, <3>1, ResizedEffect
        <3>3. CASE pc = "cleanup"
            <4>1. ctx.rss[t].avail <= n
                BY <1>1, <2>3, <3>1, <3>2, <3>3 DEF PassPcs
            <4> QED
                BY <2>4, <3>1, <3>2, <3>3, <4>1
        <3>4. CASE pc = "scaleDown"
            <4>1. ctx \in Context /\ ctx.rss \in [Templates -> ReplicaSet]
                BY <2>3, <3>4 DEF PassPcs
            <4>2. rss'[t].spec = n /\ \A v \in Templates \ {t} : rss'[v] = rss[v]
                BY <2>1, <3>1, <3>2, ResizedOnly
            <4>3. Survivors(rss', ctx.rss) >= Survivors(rss, ctx.rss) - (rss[t].spec - n)
                BY <1>1, <2>2, <3>1, <3>2, <4>1, <4>2, SurvivorsOfShrunk
            <4>4. Survivors(rss, ctx.rss) - ctx.budget >= MinAvailable(ctx.spec)
                BY <1>1, <3>4, SurvivingIs DEF LimitsInv, BudgetIsLeft
            <4>5. /\ Survivors(rss, ctx.rss) \in Nat /\ Survivors(rss', ctx.rss) \in Nat
                  /\ ctx.budget \in Nat /\ rss[t].spec \in Nat /\ MinAvailable(ctx.spec) \in Int
                BY <1>1, <2>2, <4>1, KeptType, LimitsType DEF Context, ReplicaSet
            <4>6. rss[t].spec - n <= ctx.budget
                BY <3>1, <3>2, <3>4
            <4> QED
                BY <4>3, <4>4, <4>5, <4>6
        <3> QED
            BY <3>1, <3>3, <3>4
    <2> QED
        BY <1>1, <2>5, <2>6, SizeChanges, NothingResized
<1>2. IInv /\ LimitsInv /\ [Next]_vars =>
         [/\ \E t \in Templates : ScaledDown(t)
          /\ AvailableEnough(ctx)
          /\ \A t \in Templates : ~Terminating(ctx.rss[t])
          => SurvivingPods(rss') >= MinAvailable(ctx.spec)]_vars
    BY <1>1, SurvivingIs
<1> QED
    BY <1>2, Inductive, LimitsInvariant, PTL DEF Spec, PassKeepsMinAvailable

=============================================================================
