-------------------------- MODULE CanaryMathProofs --------------------------
(***************************************************************************)
(* Facts about the operators of CanaryMath: the greatest value over a      *)
(* finite set exists, sums of pods are natural numbers, the rounding of a  *)
(* weight stays within the replicas, is the closest share, never shrinks   *)
(* and gives both sides pods, and well-formed limits leave room.           *)
(***************************************************************************)
EXTENDS CanaryMathProperties, FiniteSetTheorems, WellFoundedInduction, TLAPS

(***************************************************************************)
(* A function into the integers has a greatest value on a nonempty finite  *)
(* set.  A least subset without one would, less an element, have one.      *)
(***************************************************************************)
LEMMA GreatestExists ==
    ASSUME NEW S, IsFiniteSet(S), S # {}, NEW f, \A x \in S : f[x] \in Int
    PROVE  \E x \in S : \A y \in S : f[y] <= f[x]
<1> DEFINE Has(U) == \E x \in U : \A y \in U : f[y] <= f[x]
           Bad    == {U \in FiniteSubsetsOf(S) : U # {} /\ ~Has(U)}
<1>1. SUFFICES Bad = {}
    <2>1. S \in FiniteSubsetsOf(S)
        BY DEF FiniteSubsetsOf
    <2> QED
        BY <2>1
<1>2. SUFFICES ASSUME Bad # {} PROVE FALSE
    OBVIOUS
<1>3. IsWellFoundedOn(StrictSubsetOrdering(S), FiniteSubsetsOf(S))
    BY FS_StrictSubsetOrderingWellFounded
<1>4. PICK U \in Bad : \A V \in Bad : <<V, U>> \notin StrictSubsetOrdering(S)
    <2>1. Bad \subseteq FiniteSubsetsOf(S)
        OBVIOUS
    <2> HIDE DEF Bad
    <2> QED
        BY <1>2, <1>3, <2>1, WFMin
<1>5. U \in FiniteSubsetsOf(S) /\ U # {} /\ ~Has(U)
    BY <1>4
<1>6. U \subseteq S /\ IsFiniteSet(U)
    BY <1>5 DEF FiniteSubsetsOf
<1>7. PICK x \in U : TRUE
    BY <1>5
<1>8. U \ {x} # {}
    BY <1>5, <1>6, <1>7
<1>9. Has(U \ {x})
    <2>1. U \ {x} \in FiniteSubsetsOf(S)
        BY <1>6, FS_RemoveElement DEF FiniteSubsetsOf
    <2>2. <<U \ {x}, U>> \in StrictSubsetOrdering(S)
        BY <1>6, <1>7 DEF StrictSubsetOrdering
    <2>3. U \ {x} \notin Bad
        <3> HIDE DEF Bad
        <3> QED
            BY <1>4, <2>2
    <2> QED
        BY <1>8, <2>1, <2>3
<1>10. PICK z \in U \ {x} : \A y \in U \ {x} : f[y] <= f[z]
    BY <1>9
<1>11. CASE f[x] <= f[z]
    BY <1>5, <1>10, <1>11
<1>12. CASE ~(f[x] <= f[z])
    <2>1. \A y \in U : f[y] <= f[x]
        BY <1>6, <1>7, <1>10, <1>12
    <2> QED
        BY <1>5, <1>7, <2>1
<1> QED
    BY <1>11, <1>12

\* The greatest of a finite number of values is one of them, and an upper bound.
LEMMA MaxOfValues ==
    ASSUME NEW S, IsFiniteSet(S), S # {}, NEW f, \A x \in S : f[x] \in Int
    PROVE  /\ Max({f[x] : x \in S}) \in {f[x] : x \in S}
           /\ \A x \in S : f[x] <= Max({f[y] : y \in S})
<1> DEFINE V == {f[x] : x \in S}
<1>1. PICK m \in S : \A y \in S : f[y] <= f[m]
    BY GreatestExists
<1>2. \A v \in V : f[m] >= v
    BY <1>1
<1>3. f[m] \in V
    OBVIOUS
<1>4. Max(V) \in V /\ \A v \in V : Max(V) >= v
    <2> HIDE DEF V
    <2> QED
        BY <1>2, <1>3 DEF Max
<1> QED
    BY <1>4

\* The same with 0 among the values.
LEMMA MaxWithZero ==
    ASSUME NEW S, IsFiniteSet(S), NEW f, \A x \in S : f[x] \in Nat
    PROVE  /\ Max({0} \cup {f[x] : x \in S}) \in Nat
           /\ \A x \in S : f[x] <= Max({0} \cup {f[y] : y \in S})
<1> DEFINE V == {0} \cup {f[x] : x \in S}
<1>1. \E m \in V : \A v \in V : m >= v
    <2>1. CASE S = {}
        BY <2>1
    <2>2. CASE S # {}
        <3>1. PICK m \in S : \A y \in S : f[y] <= f[m]
            BY <2>2, GreatestExists
        <3>2. f[m] \in V /\ \A v \in V : f[m] >= v
            BY <3>1
        <3> QED
            BY <3>2
    <2> QED
        BY <2>1, <2>2
<1>2. Max(V) \in V /\ \A v \in V : Max(V) >= v
    <2> HIDE DEF V
    <2> QED
        BY <1>1 DEF Max
<1>3. V \subseteq Nat
    OBVIOUS
<1> QED
    BY <1>2, <1>3

(***************************************************************************)
(* The pods of finitely many ReplicaSets are finitely many.                *)
(***************************************************************************)
LEMMA PodsFinite ==
    ASSUME NEW R, IsFiniteSet(R), NEW size, \A rs \in R : size[rs] \in Nat
    PROVE  IsFiniteSet(Pods(R, size)) /\ Cardinality(Pods(R, size)) \in Nat
<1> DEFINE PodsOf(rs) == {rs} \X (1..size[rs])
           All == {PodsOf(rs) : rs \in R}
<1>1. IsFiniteSet(All)
    <2> DEFINE g == [rs \in R |-> PodsOf(rs)]
    <2>1. g \in Surjection(R, All)
        BY DEF Surjection
    <2> QED
        BY <2>1, FS_Surjection
<1>2. \A A \in All : IsFiniteSet(A)
    <2>1. SUFFICES ASSUME NEW rs \in R PROVE IsFiniteSet(PodsOf(rs))
        OBVIOUS
    <2>2. IsFiniteSet({rs})
        BY FS_Singleton
    <2>3. IsFiniteSet(1..size[rs])
        BY FS_Interval
    <2> QED
        BY <2>2, <2>3, FS_Product
<1>3. IsFiniteSet(UNION All)
    <2> HIDE DEF All
    <2> QED
        BY <1>1, <1>2, FS_UNION
<1> QED
    BY <1>3, FS_CardinalityType DEF Pods

(***************************************************************************)
(* Totals, ReplicaSet by ReplicaSet                                        *)
(***************************************************************************)
LEMMA PodsSame ==
    ASSUME NEW R, NEW s, NEW z, \A rs \in R : s[rs] = z[rs]
    PROVE  Pods(R, s) = Pods(R, z)
BY Zenon DEF Pods

LEMMA PodsOfOneMore ==
    ASSUME NEW R, IsFiniteSet(R), NEW t, t \notin R,
           NEW s, \A rs \in R \cup {t} : s[rs] \in Nat
    PROVE  Cardinality(Pods(R \cup {t}, s)) = Cardinality(Pods(R, s)) + s[t]
<1> DEFINE own == {t} \X (1..s[t])
<1>1. IsFiniteSet(Pods(R, s)) /\ Cardinality(Pods(R, s)) \in Nat
    BY PodsFinite
<1>2. IsFiniteSet(own) /\ Cardinality(own) = s[t]
    <2>1. IsFiniteSet({t}) /\ Cardinality({t}) = 1
        BY FS_Singleton
    <2>2. IsFiniteSet(1..s[t]) /\ Cardinality(1..s[t]) = s[t]
        BY FS_Interval
    <2>3. IsFiniteSet(own) /\ Cardinality(own) = 1 * s[t]
        BY <2>1, <2>2, FS_Product
    <2> QED
        BY <2>3
<1>3. Pods(R \cup {t}, s) = Pods(R, s) \cup own
    BY DEF Pods
<1>4. Pods(R, s) \cap own = {}
    BY DEF Pods
<1> HIDE DEF own
<1>5. Cardinality(Pods(R, s) \cup own)
        = Cardinality(Pods(R, s)) + Cardinality(own) - Cardinality(Pods(R, s) \cap own)
    BY <1>1, <1>2, FS_Union
<1>6. Cardinality(Pods(R, s) \cap own) = 0
    BY <1>4, FS_EmptySet
<1>7. Cardinality(Pods(R \cup {t}, s)) = Cardinality(Pods(R, s)) + s[t] - 0
    BY <1>2, <1>3, <1>5, <1>6, Zenon
<1>8. s[t] \in Nat
    OBVIOUS
<1> QED
    BY <1>1, <1>7, <1>8

\* One ReplicaSet changes size.
LEMMA PodsOneChanged ==
    ASSUME NEW R, IsFiniteSet(R), NEW t \in R, NEW s, NEW z,
           \A rs \in R : s[rs] \in Nat /\ z[rs] \in Nat,
           \A rs \in R \ {t} : z[rs] = s[rs]
    PROVE  Cardinality(Pods(R, z)) = Cardinality(Pods(R, s)) - s[t] + z[t]
<1> DEFINE rest == R \ {t}
<1>1. IsFiniteSet(rest) /\ t \notin rest /\ R = rest \cup {t}
    BY FS_Subset
<1> HIDE DEF rest
<1>2. Cardinality(Pods(R, s)) = Cardinality(Pods(rest, s)) + s[t]
    BY <1>1, PodsOfOneMore
<1>3. Cardinality(Pods(R, z)) = Cardinality(Pods(rest, z)) + z[t]
    BY <1>1, PodsOfOneMore
<1>4. Pods(rest, z) = Pods(rest, s)
    BY PodsSame DEF rest
<1>5. Cardinality(Pods(rest, s)) \in Nat /\ s[t] \in Nat /\ z[t] \in Nat
    BY <1>1, PodsFinite
<1> QED
    BY <1>2, <1>3, <1>4, <1>5

\* More and larger ReplicaSets have more pods.
LEMMA PodsMonotone ==
    ASSUME NEW R, IsFiniteSet(R), NEW Q, Q \subseteq R, NEW s, NEW z,
           \A rs \in R : s[rs] \in Nat /\ z[rs] \in Nat,
           \A rs \in Q : s[rs] <= z[rs]
    PROVE  Cardinality(Pods(Q, s)) <= Cardinality(Pods(R, z))
<1>1. IsFiniteSet(Pods(R, z))
    BY PodsFinite
<1>2. Pods(Q, s) \subseteq Pods(R, z)
    <2> SUFFICES ASSUME NEW rs \in Q
                 PROVE  {rs} \X (1..s[rs]) \subseteq {rs} \X (1..z[rs])
        BY DEF Pods
    <2> QED
        OBVIOUS
<1> QED
    BY <1>1, <1>2, FS_Subset

\* ReplicaSets without pods add nothing.
LEMMA PodsOfEmpty ==
    ASSUME NEW R, NEW Q, Q \subseteq R, NEW s, \A rs \in R \ Q : s[rs] = 0
    PROVE  Pods(R, s) = Pods(Q, s)
<1>1. ASSUME NEW rs \in R \ Q PROVE {rs} \X (1..s[rs]) = {}
    OBVIOUS
<1>2. Pods(R, s) \subseteq Pods(Q, s)
    BY <1>1, Zenon DEF Pods
<1>3. Pods(Q, s) \subseteq Pods(R, s)
    BY Zenon DEF Pods
<1> QED
    BY <1>2, <1>3

(***************************************************************************)
(* Rounding                                                                *)
(***************************************************************************)
LEMMA PercentType ==
    ASSUME NEW p \in Int, NEW total \in Int
    PROVE  FloorPercent(p, total) \in Int /\ CeilPercent(p, total) \in Int
BY DEF FloorPercent, CeilPercent

\* A weight never asks for a negative number of pods, or for more than there are.
LEMMA ApproximationInRange ==
    ASSUME NEW replicas \in Nat, NEW weight \in 0..100, NEW surge \in Nat
    PROVE  approximateWeightedRolloutStableReplicaCounts(replicas, weight, surge)
               \in 0..replicas
<1> DEFINE ceil  == CeilPercent(weight, replicas)
           floor == FloorPercent(weight, replicas)
           Fits(o) == o.new \in 0..replicas
<1>1. ceil \in 0..replicas /\ floor \in 0..replicas
    <2>1. PICK product \in Nat : product = weight * replicas /\ product <= 100 * replicas
        OBVIOUS
    <2>2. (product + 99) \div 100 \in 0..replicas /\ product \div 100 \in 0..replicas
        BY <2>1
    <2> QED
        BY <2>1, <2>2 DEF CeilPercent, FloorPercent
<1>2. ASSUME NEW best, NEW next, Fits(best), Fits(next)
      PROVE  Fits(Better(weight, best, next))
    BY <1>2 DEF Better
<1>3. \A b, n : Fits(Option(b, n, replicas)) <=> n \in 0..replicas
    BY DEF Option
<1>4. \A b, n : Fits(Option(b, n, replicas + 1)) <=> n \in 0..replicas
    BY DEF Option
<1> QED
    <2> HIDE DEF ceil, floor, Fits
    <2> QED
        BY <1>1, <1>2, <1>3, <1>4 DEF approximateWeightedRolloutStableReplicaCounts, ceil, floor, Fits

\* The weight asks for k pods and r hundredths of a pod, of n.
IsShare(n, w, k, r) ==
    /\ w * n = 100 * k + r
    /\ FloorPercent(w, n) = k /\ CeilPercent(w, n) = IF r = 0 THEN k ELSE k + 1
    /\ floorCeilingTied(w, n) <=> r = 50
    /\ floorCeilingTied(w, n + 1) <=> (100 * k + r + w) % 100 = 50
    /\ w = 0 => k = 0 /\ r = 0
    /\ w = 100 => k = n /\ r = 0
    /\ w < 100 => k < n

\* The pods that the weight asks for, as a whole number of hundredths.
LEMMA Hundredths ==
    ASSUME NEW n \in Nat \ {0}, NEW w \in 0..100
    PROVE  \E k \in Nat, r \in 0..99 : IsShare(n, w, k, r)
<1>1. PICK p \in Nat : p = w * n /\ p = n * w /\ p <= 100 * n /\ (w < 100 => p < 100 * n)
                       /\ (w = 0 => p = 0) /\ (w = 100 => p = 100 * n)
    OBVIOUS
<1>2. (n + 1) * w = p + w
    BY <1>1
<1> DEFINE k == p \div 100
           r == p % 100
<1>3. k \in Nat /\ r \in 0..99 /\ p = 100 * k + r
    OBVIOUS
<1>4. FloorPercent(w, n) = k /\ CeilPercent(w, n) = IF r = 0 THEN k ELSE k + 1
    BY <1>1 DEF FloorPercent, CeilPercent
<1>5. /\ floorCeilingTied(w, n) <=> r = 50
      /\ floorCeilingTied(w, n + 1) <=> (p + w) % 100 = 50
    BY <1>1, <1>2 DEF floorCeilingTied
<1> HIDE DEF k, r
<1>6. p + w = 100 * k + r + w
    BY <1>3
<1>7. /\ w = 0 => k = 0 /\ r = 0
      /\ w = 100 => k = n /\ r = 0
      /\ w < 100 => k < n
    BY <1>1, <1>3
<1>8. floorCeilingTied(w, n + 1) <=> (100 * k + r + w) % 100 = 50
    BY <1>5, <1>6, Zenon
<1>9. IsShare(n, w, k, r)
    BY <1>1, <1>3, <1>4, <1>5, <1>7, <1>8, Zenon DEF IsShare
<1> QED
    BY <1>3, <1>9

\* When the weight asks for a part of a pod, which of the two whole numbers it is.
RoundsDown(n, w, s, k, r) ==
    IF s = 0 /\ n = 1 THEN r < 50
    ELSE /\ k # 0 /\ r # 50 /\ (k + 1 = n \/ r < 50)
         /\ s > 0 => Larger(100 - r - w, w + r - 100) * n >= r * (n + 1)

LEMMA WholeShare ==
    ASSUME NEW n \in Nat \ {0}, NEW w \in 0..100, NEW s \in Nat, NEW k \in Nat,
           IsShare(n, w, k, 0)
    PROVE  New(n, w, s) = k
<1>1. /\ k < n \/ w = 100
      /\ FloorPercent(w, n) = k /\ CeilPercent(w, n) = k
    BY DEF IsShare
<1>2. \A best, b, t : best.considered /\ best.new = k =>
          LET next == Better(w, best, Option(b, k, t)) IN next.considered /\ next.new = k
    BY DEF Better, Option
<1> DEFINE za == w \in {0, 100} \/ (n = 1 /\ s = 0)
           o1 == Option(k < n \/ za, k, n)
<1>3. o1.considered /\ o1.new = k
    BY <1>1 DEF Option
<1> HIDE DEF za, o1
<1> QED
    BY <1>1, <1>2, <1>3 DEF New, approximateWeightedRolloutStableReplicaCounts, za, o1

LEMMA PartialShare ==
    ASSUME NEW n \in Nat \ {0}, NEW w \in 1..99, NEW s \in Nat, NEW k \in Nat, NEW r \in 1..99,
           IsShare(n, w, k, r), ~NoOption(n, w, s)
    PROVE  New(n, w, s) = IF RoundsDown(n, w, s, k, r) THEN k ELSE k + 1
<1>0. /\ w * n = 100 * k + r /\ k < n
      /\ FloorPercent(w, n) = k /\ CeilPercent(w, n) = k + 1
      /\ floorCeilingTied(w, n) <=> r = 50
      /\ floorCeilingTied(w, n + 1) <=> (100 * k + r + w) % 100 = 50
    BY DEF IsShare
<1> USE <1>0
<1> DEFINE za == n = 1 /\ s = 0
           tied == (100 * k + r + w) % 100 = 50
           o1 == Option(k + 1 < n \/ za, k + 1, n)
           o2 == Option(r # 50 /\ (k # 0 \/ za), k, n)
           o3 == Option(s > 0, k + 1, n + 1)
           o4 == Option(s > 0 /\ ~tied /\ (k # 0 \/ za), k, n + 1)
           b2 == Better(w, o1, o2)
           b3 == Better(w, b2, o3)
           b4 == Better(w, b3, o4)
<1>1. New(n, w, s) = IF ~b4.considered THEN 0 ELSE b4.new
    BY DEF New, approximateWeightedRolloutStableReplicaCounts
<1>2. PICK x \in Nat : x = w * n /\ x = 100 * k + r /\ w * (n + 1) = x + w
    OBVIOUS
<1>3. /\ weightDelta(w, o1) = 100 - r /\ weightDelta(w, o2) = r
      /\ weightDelta(w, o3) = Larger(100 - r - w, w + r - 100) /\ weightDelta(w, o4) = r + w
    BY <1>2 DEF weightDelta, Option, Larger
<1>4. /\ o1 = Option(k + 1 < n \/ za, k + 1, n) /\ o1.new = k + 1 /\ o1.total = n
      /\ o2.new = k /\ o2.total = n
      /\ o3.new = k + 1 /\ o3.total = n + 1
      /\ o4.new = k /\ o4.total = n + 1
      /\ o1.considered <=> k + 1 < n \/ za
      /\ o2.considered <=> r # 50 /\ (k # 0 \/ za)
      /\ o3.considered <=> s > 0
      /\ o4.considered <=> s > 0 /\ ~tied /\ (k # 0 \/ za)
    BY DEF Option
<1> HIDE DEF o1, o2, o3, o4
<1>5. CASE s = 0
    <2>1. b3 = b2 /\ b4 = b2
        <3>1. ~o3.considered /\ ~o4.considered
            BY <1>4, <1>5
        <3> QED
            BY <3>1, Zenon DEF Better
    <2>2. CASE n = 1
        <3>1. k = 0 /\ za /\ o1.considered
            BY <1>4, <1>5, <2>2
        <3>2. o2.considered <=> r # 50
            BY <1>4, <3>1
        <3> QED
            BY <1>1, <1>3, <1>4, <1>5, <2>1, <2>2, <3>1, <3>2 DEF Better, RoundsDown
    <2>3. CASE n > 1
        <3>1. ~za /\ ~(k + 1 = n /\ r = 50)
            BY <1>5, <2>3 DEF NoOption
        <3>2. /\ o1.considered <=> k + 1 < n
              /\ o2.considered <=> r # 50 /\ k # 0
            BY <1>4, <3>1
        <3> QED
            BY <1>1, <1>3, <1>4, <1>5, <2>1, <2>3, <3>1, <3>2 DEF Better, RoundsDown
    <2> QED
        BY <2>2, <2>3
<1>6. CASE s > 0
    <2>1. PICK y \in Nat : y = r * n
        OBVIOUS
    <2> DEFINE d == Larger(100 - r - w, w + r - 100)
    <2>2. d \in Nat /\ (r + w >= 50 => d <= r + w) /\ (r + w <= 100 => d = 100 - r - w)
        BY DEF Larger
    <2> HIDE DEF d
    <2>3. PICK e \in Nat : e = d * n /\ d * (n + 1) = e + d
        BY <2>2
    <2>4. ~za /\ tied \in BOOLEAN
        BY <1>6
    <2>5. /\ weightDelta(w, o2) * o1.total < weightDelta(w, o1) * o2.total <=> r < 50
          /\ weightDelta(w, o3) * o2.total < weightDelta(w, o2) * o3.total <=> e < y + r
        BY <1>3, <1>4, <2>1, <2>3 DEF d
    <2>6. ~(weightDelta(w, o4) * o2.total < weightDelta(w, o2) * o4.total)
        <3>1. (r + w) * n = y + x /\ r * (n + 1) = y + r /\ x >= r
            BY <1>2, <2>1
        <3> QED
            BY <1>3, <1>4, <3>1
    <2>7. k # 0 /\ r >= 50 => ~(weightDelta(w, o4) * o1.total < weightDelta(w, o1) * o4.total)
        <3>1. (r + w) * n = y + x /\ (100 - r) * (n + 1) = 100 * n - y + 100 - r
            BY <1>2, <2>1
        <3>2. k # 0 /\ r >= 50 => x >= 100 + r /\ y >= 50 * n
            BY <1>2, <2>1
        <3> QED
            BY <1>3, <1>4, <3>1, <3>2
    <2>8. k # 0 /\ (r >= 50 \/ e < y + r)
            => ~(weightDelta(w, o4) * o3.total < weightDelta(w, o3) * o4.total)
        <3>1. ASSUME k # 0, r + w < 50 PROVE ~(e < y + r)
            <4>1. (49 - r - w) * n >= 0 /\ (49 - r - w) * n = 49 * n - y - x
                BY <1>2, <2>1, <3>1
            <4>2. e = 100 * n - y - x
                BY <1>2, <2>1, <2>2, <2>3, <3>1
            <4>3. x >= 100 + r
                BY <1>2, <3>1
            <4> QED
                BY <3>1, <4>1, <4>2, <4>3
        <3>2. ASSUME r + w >= 50
              PROVE  ~((r + w) * (n + 1) < d * (n + 1))
            BY <2>2, <3>2
        <3> QED
            BY <1>3, <1>4, <3>1, <3>2 DEF d
    <2>9. RoundsDown(n, w, s, k, r) <=>
              k # 0 /\ r # 50 /\ (k + 1 = n \/ r < 50) /\ ~(e < y + r)
        BY <1>6, <2>1, <2>3 DEF RoundsDown, d
    <2>10. /\ o1.considered <=> k + 1 < n
           /\ o2.considered <=> r # 50 /\ k # 0
           /\ o3.considered
           /\ o4.considered => k # 0
        BY <1>4, <1>6, <2>4
    <2>11. b2 = IF k # 0 /\ r # 50 /\ (k + 1 = n \/ r < 50) THEN o2 ELSE o1
        BY <2>5, <2>10 DEF Better
    <2>12. CASE k # 0 /\ r # 50 /\ (k + 1 = n \/ r < 50)
        <3>1. b2 = o2 /\ b2.considered
            BY <2>10, <2>11, <2>12
        <3>2. b3 = IF e < y + r THEN o3 ELSE o2
            BY <2>5, <2>10, <3>1 DEF Better
        <3>3. b4 = b3
            BY <2>6, <2>8, <2>10, <2>12, <3>1, <3>2 DEF Better
        <3> QED
            BY <1>1, <1>4, <2>9, <2>10, <2>12, <3>1, <3>2, <3>3
    <2>13. CASE ~(k # 0 /\ r # 50 /\ (k + 1 = n \/ r < 50))
        <3>1. b2 = o1
            BY <2>11, <2>13
        <3>2. b3 = IF o1.considered THEN b3 ELSE o3
            BY <2>10, <3>1 DEF Better
        <3>3. b3 = o1 \/ b3 = o3
            BY <3>1, Zenon DEF Better
        <3>4. b3.considered
            BY <2>10, <3>2, <3>3
        <3>5. b4 = b3
            <4>1. CASE ~o4.considered
                BY <4>1 DEF Better
            <4>2. CASE o4.considered
                <5>1. k # 0 /\ r >= 50
                    BY <2>10, <2>13, <4>2
                <5> QED
                    BY <2>7, <2>8, <3>3, <3>4, <5>1 DEF Better
            <4> QED
                BY <4>1, <4>2
        <3> QED
            BY <1>1, <1>4, <2>9, <2>13, <3>3, <3>4, <3>5
    <2> QED
        BY <2>12, <2>13
<1> QED
    BY <1>5, <1>6

\* The number of new pods, from the weight's share of the replicas.
NewIsRounded(n, w, s, k, r) ==
    /\ NoOption(n, w, s) <=> s = 0 /\ n > 1 /\ r = 50 /\ k + 1 = n
    /\ ~NoOption(n, w, s) =>
           New(n, w, s) = IF r = 0 \/ RoundsDown(n, w, s, k, r) THEN k ELSE k + 1

LEMMA NewFromShare ==
    ASSUME NEW n \in Nat \ {0}, NEW w \in 0..100, NEW s \in Nat, NEW k \in Nat, NEW r \in 0..99,
           IsShare(n, w, k, r)
    PROVE  NewIsRounded(n, w, s, k, r)
<1>1. NoOption(n, w, s) <=> s = 0 /\ n > 1 /\ r = 50 /\ k + 1 = n
    BY DEF NoOption, IsShare
<1>2. CASE r = 0
    <2>1. New(n, w, s) = k
        BY <1>2, WholeShare
    <2> QED
        BY <1>1, <1>2, <2>1 DEF NewIsRounded
<1>3. CASE r # 0
    <2>1. w \in 1..99 /\ r \in 1..99
        BY <1>3 DEF IsShare
    <2>2. ~NoOption(n, w, s) => New(n, w, s) = IF RoundsDown(n, w, s, k, r) THEN k ELSE k + 1
        BY <2>1, PartialShare
    <2> QED
        BY <1>1, <1>3, <2>2 DEF NewIsRounded
<1> QED
    BY <1>2, <1>3

\* With no option, the code gives 0.
LEMMA NoOptionGivesNone ==
    ASSUME NEW n \in Nat, NEW w \in 0..100, NEW s \in Nat, NoOption(n, w, s)
    PROVE  New(n, w, s) = 0
<1> DEFINE ceil  == CeilPercent(w, n)
           floor == FloorPercent(w, n)
           zeroAllowed == w \in {0, 100} \/ (n = 1 /\ s = 0)
           floorAllowed(total) == ~floorCeilingTied(w, total) /\ (floor # 0 \/ zeroAllowed)
           o1 == Option(ceil < n \/ zeroAllowed, ceil, n)
           o2 == Option(floorAllowed(n), floor, n)
           o3 == Option(s > 0, ceil, n + 1)
           o4 == Option(s > 0 /\ floorAllowed(n + 1), floor, n + 1)
<1>1. ~o1.considered /\ ~o2.considered /\ ~o3.considered /\ ~o4.considered
    <2>1. ~zeroAllowed /\ ~(ceil < n) /\ floorCeilingTied(w, n) /\ ~(s > 0)
        BY DEF NoOption
    <2> HIDE DEF zeroAllowed, ceil, floor
    <2> QED
        BY <2>1, Zenon DEF Option
<1>2. Better(w, Better(w, Better(w, o1, o2), o3), o4) = o1
    <2> HIDE DEF o1, o2, o3, o4
    <2> QED
        BY <1>1, Zenon DEF Better
<1> QED
    <2> HIDE DEF ceil, floor
    <2> QED
        BY <1>1, <1>2 DEF New, approximateWeightedRolloutStableReplicaCounts, ceil, floor

\* A step with a greater weight never asks for fewer new pods, for every number
\* of replicas and every surge, unless the code has no option at the greater.
THEOREM GreaterWeightNeverAsksForLess ==
    ASSUME NEW n \in Nat, NEW w \in 0..100, NEW v \in 0..100, w <= v, NEW s \in Nat,
           ~NoOption(n, v, s)
    PROVE  NeverShrinks(n, w, v, s)
<1>1. CASE n = 0
    BY <1>1 DEF NeverShrinks, New, approximateWeightedRolloutStableReplicaCounts
<1>2. CASE NoOption(n, w, s)
    <2>1. New(n, w, s) = 0
        BY <1>2, NoOptionGivesNone
    <2>2. New(n, v, s) \in Nat
        <3>1. New(n, v, s) \in 0..n
            BY ApproximationInRange, Zenon DEF New
        <3> QED
            BY <3>1
    <2> QED
        BY <2>1, <2>2 DEF NeverShrinks
<1>3. CASE n # 0 /\ ~NoOption(n, w, s)
    <2>1. n \in Nat \ {0}
        BY <1>3
    <2>2. PICK k \in Nat, r \in 0..99 : IsShare(n, w, k, r)
        BY <2>1, Hundredths
    <2>3. PICK l \in Nat, q \in 0..99 : IsShare(n, v, l, q)
        BY <2>1, Hundredths
    <2>4. /\ ~(s = 0 /\ n > 1 /\ r = 50 /\ k + 1 = n)
          /\ New(n, w, s) = IF r = 0 \/ RoundsDown(n, w, s, k, r) THEN k ELSE k + 1
        <3>1. NewIsRounded(n, w, s, k, r)
            BY <2>1, <2>2, NewFromShare
        <3> QED
            BY <1>3, <3>1 DEF NewIsRounded
    <2>5. New(n, v, s) = IF q = 0 \/ RoundsDown(n, v, s, l, q) THEN l ELSE l + 1
        <3>1. NewIsRounded(n, v, s, l, q)
            BY <2>1, <2>3, NewFromShare
        <3> QED
            BY <3>1 DEF NewIsRounded
    <2>6. w * n = 100 * k + r /\ v * n = 100 * l + q /\ (v < 100 => l < n) /\ (v = 100 => q = 0)
        BY <2>2, <2>3 DEF IsShare
    <2>7. 100 * k + r <= 100 * l + q
        <3>1. w * n <= v * n
            OBVIOUS
        <3> QED
            BY <2>4, <2>5, <2>6, <3>1
    <2>8. CASE k < l
        BY <2>4, <2>5, <2>6, <2>8 DEF NeverShrinks
    <2>9. CASE k = l /\ RoundsDown(n, v, s, l, q) /\ r # 0
        <3>1. r <= q
            BY <2>7, <2>9
        <3>2. CASE s = 0
            BY <1>3, <2>4, <2>5, <2>6, <2>9, <3>1, <3>2 DEF RoundsDown, NeverShrinks
        <3>3. CASE s > 0
            <4> DEFINE d == Larger(100 - q - v, v + q - 100)
                       e == Larger(100 - r - w, w + r - 100)
            <4>1. k # 0 /\ q # 50 /\ (k + 1 = n \/ q < 50) /\ d * n >= q * (n + 1)
                BY <2>9, <3>3 DEF RoundsDown
            <4>2. PICK x \in Nat, y \in Nat :
                      x = r * n /\ y = q * n /\ x <= y /\ q * (n + 1) = y + q /\ r * (n + 1) = x + r
                BY <3>1
            <4>3. k < n
                BY <2>6, <2>9, <3>1
            <4>4. d = 100 - q - v
                <5>1. (v + q - 100) * n = 100 * k + q + y - 100 * n
                    BY <2>6, <2>9, <4>2
                <5> QED
                    BY <4>1, <4>2, <4>3, <5>1 DEF Larger
            <4>5. 100 * n - y - (100 * k + q) >= y + q
                BY <2>6, <2>9, <4>1, <4>2, <4>4
            <4>6. q < 50
                BY <4>1, <4>2, <4>5
            <4>7. e * n >= (100 - r - w) * n
                BY DEF Larger
            <4>8. (100 - r - w) * n = 100 * n - x - (100 * k + r)
                BY <2>6, <4>2
            <4>9. e * n >= r * (n + 1)
                <5>1. PICK z \in Int : z = e * n /\ z >= 100 * n - x - (100 * k + r)
                    BY <4>7, <4>8 DEF Larger
                <5> QED
                    BY <3>1, <4>2, <4>5, <5>1
            <4>10. RoundsDown(n, w, s, k, r)
                <5> HIDE DEF d
                <5> QED
                    BY <3>1, <3>3, <4>1, <4>6, <4>9 DEF RoundsDown
            <4> QED
                BY <2>4, <2>5, <2>6, <2>9, <4>10 DEF NeverShrinks
        <3> QED
            BY <3>2, <3>3
    <2>10. CASE k = l /\ ~(RoundsDown(n, v, s, l, q) /\ r # 0)
        BY <2>4, <2>5, <2>6, <2>7, <2>10 DEF NeverShrinks
    <2> QED
        BY <2>7, <2>8, <2>9, <2>10
<1> QED
    BY <1>1, <1>2, <1>3

-----------------------------------------------------------------------------
LEMMA FartherIsNoBetter ==
    ASSUME NEW e \in Nat, NEW u \in Nat, NEW t \in Nat, NEW low \in Nat, NEW far \in Nat,
           e * u <= low * t, low <= far
    PROVE  e * u <= far * t
<1>1. low * t <= far * t
    OBVIOUS
<1>2. e * u \in Nat /\ low * t \in Nat /\ far * t \in Nat
    OBVIOUS
<1> QED
    BY <1>1, <1>2

\* How far the surged ceiling is from the weight.
SurgedError(w, r) == Larger(100 - r - w, w + r - 100)

\* How far m pods are from the weight, at least.
ErrorsAtLeast(n, w, k, r, m) ==
    /\ Error(w, m, n) \in Nat /\ Error(w, m, n + 1) \in Nat
    /\ m = k => Error(w, m, n) = r
    /\ m <= k => Error(w, m, n) >= r /\ Error(w, m, n + 1) >= r + w
    /\ m = k + 1 => Error(w, m, n) = 100 - r /\ Error(w, m, n + 1) = SurgedError(w, r)
    /\ m >= k + 1 => Error(w, m, n) >= 100 - r
    /\ m >= k + 2 /\ r + w <= 100 => Error(w, m, n + 1) >= SurgedError(w, r)
    /\ m >= k + 2 /\ r + w > 100 => Error(w, m, n + 1) >= 200 - r - w

LEMMA ErrorsFromShare ==
    ASSUME NEW n \in Nat \ {0}, NEW w \in 1..99, NEW k \in Nat, NEW r \in 1..99,
           IsShare(n, w, k, r), NEW m \in Nat
    PROVE  ErrorsAtLeast(n, w, k, r, m)
<1>1. PICK x \in Nat : x = w * n /\ x = 100 * k + r /\ w * (n + 1) = x + w
    BY DEF IsShare
<1>2. /\ Error(w, m, n) = IF 100 * m > x THEN 100 * m - x ELSE x - 100 * m
      /\ Error(w, m, n + 1) = IF 100 * m > x + w THEN 100 * m - x - w ELSE x + w - 100 * m
    BY <1>1 DEF Error
<1>3. SurgedError(w, r) = IF r + w <= 100 THEN 100 - r - w ELSE w + r - 100
    BY DEF SurgedError, Larger
<1> QED
    BY <1>1, <1>2, <1>3 DEF ErrorsAtLeast

\* With surge, a number of pods is closest when none of the four options is
\* closer, nor one pod more than the surged ceiling.
AsClose(n, w, k, r, e, t) ==
    /\ k # 0 => e * n <= r * t /\ e * (n + 1) <= (r + w) * t
    /\ k + 1 < n => e * n <= (100 - r) * t
    /\ e * (n + 1) <= SurgedError(w, r) * t
    /\ k + 1 < n /\ r + w > 100 => e * (n + 1) <= (200 - r - w) * t

LEMMA AsCloseIsClosest ==
    ASSUME NEW n \in Nat \ {0}, NEW w \in 1..99, NEW s \in Nat \ {0}, NEW k \in Nat, NEW r \in 1..99,
           IsShare(n, w, k, r), NEW t \in {n, n + 1}, New(n, w, s) \in Nat,
           AsClose(n, w, k, r, Error(w, New(n, w, s), t), t)
    PROVE  IsClosest(n, w, s)
<1>1. Totals(n, s) = {n, n + 1}
    BY DEF Totals
<1> DEFINE e == Error(w, New(n, w, s), t)
<1>2. e \in Nat /\ t \in Nat /\ SurgedError(w, r) \in Nat
    <2>1. ErrorsAtLeast(n, w, k, r, New(n, w, s))
        BY ErrorsFromShare
    <2> QED
        BY <2>1 DEF ErrorsAtLeast, SurgedError, Larger
<1>3. AsClose(n, w, k, r, e, t)
    OBVIOUS
<1> HIDE DEF e
<1>4. ASSUME NEW m \in 0..n, m # 0, m # n
      PROVE  e * n <= Error(w, m, n) * t
    <2>0. ErrorsAtLeast(n, w, k, r, m)
        <3>1. m \in Nat
            OBVIOUS
        <3> QED
            BY <3>1, ErrorsFromShare
    <2>1. CASE m <= k
        <3>1. Error(w, m, n) \in Nat /\ Error(w, m, n) >= r
            BY <2>1, <2>0 DEF ErrorsAtLeast
        <3>2. e * n <= r * t
            BY <1>3, <1>4, <2>1 DEF AsClose
        <3> QED
            BY <1>2, <3>1, <3>2, FartherIsNoBetter
    <2>2. CASE m > k
        <3>1. Error(w, m, n) \in Nat /\ Error(w, m, n) >= 100 - r
            BY <2>2, <2>0 DEF ErrorsAtLeast
        <3>2. e * n <= (100 - r) * t
            BY <1>3, <1>4, <2>2 DEF AsClose
        <3>3. 100 - r \in Nat
            OBVIOUS
        <3> QED
            BY <1>2, <3>1, <3>2, <3>3, FartherIsNoBetter
    <2> QED
        BY <2>1, <2>2
<1>5. ASSUME NEW m \in 0..n, m # 0
      PROVE  e * (n + 1) <= Error(w, m, n + 1) * t
    <2>0. ErrorsAtLeast(n, w, k, r, m)
        <3>1. m \in Nat
            OBVIOUS
        <3> QED
            BY <3>1, ErrorsFromShare
    <2>1. CASE m <= k
        <3>1. Error(w, m, n + 1) \in Nat /\ Error(w, m, n + 1) >= r + w
            BY <2>1, <2>0 DEF ErrorsAtLeast
        <3>2. e * (n + 1) <= (r + w) * t
            BY <1>3, <1>5, <2>1 DEF AsClose
        <3>3. r + w \in Nat
            OBVIOUS
        <3> QED
            BY <1>2, <3>1, <3>2, <3>3, FartherIsNoBetter
    <2>2. CASE m = k + 1 \/ (m > k + 1 /\ r + w <= 100)
        <3>1. Error(w, m, n + 1) \in Nat /\ Error(w, m, n + 1) >= SurgedError(w, r)
            BY <1>2, <2>2, <2>0 DEF ErrorsAtLeast
        <3>2. e * (n + 1) <= SurgedError(w, r) * t
            BY <1>3 DEF AsClose
        <3> QED
            BY <1>2, <3>1, <3>2, FartherIsNoBetter
    <2>3. CASE m > k + 1 /\ r + w > 100
        <3>1. Error(w, m, n + 1) \in Nat /\ Error(w, m, n + 1) >= 200 - r - w
            BY <2>3, <2>0 DEF ErrorsAtLeast
        <3>2. e * (n + 1) <= (200 - r - w) * t
            BY <1>3, <2>3 DEF AsClose
        <3>3. 200 - r - w \in Nat /\ n + 1 \in Nat
            BY <2>3
        <3> QED
            BY <1>2, <3>1, <3>2, <3>3, FartherIsNoBetter
    <2> QED
        BY <2>1, <2>2, <2>3
<1>6. ASSUME NEW u \in {n, n + 1}, NEW m \in 0..n
      PROVE  \/ e * u <= Error(w, m, u) * t
             \/ m = 0 /\ w # 0 /\ (n > 1 \/ s > 0)
             \/ m = n /\ u = n /\ w # 100
    BY <1>4, <1>5
<1> QED
    BY <1>1, <1>6 DEF IsClosest, e

\* No other number of new pods is strictly closer to the weight, for every
\* number of replicas, weight and surge, unless the code has no option.
THEOREM NewIsClosest ==
    ASSUME NEW n \in Nat \ {0}, NEW w \in 0..100, NEW s \in Nat, ~NoOption(n, w, s)
    PROVE  IsClosest(n, w, s)
<1> DEFINE f == New(n, w, s)
<1>1. PICK k \in Nat, r \in 0..99 : IsShare(n, w, k, r)
    BY Hundredths
<1>2. NewIsRounded(n, w, s, k, r)
    BY <1>1, NewFromShare
<1>3. CASE r = 0
    <2>1. Error(w, f, n) = 0
        BY <1>1, <1>2, <1>3 DEF IsShare, NewIsRounded, Error
    <2>2. n \in Totals(n, s) /\ \A u \in Totals(n, s) : u \in Nat
        BY DEF Totals
    <2>3. ASSUME NEW u \in Nat, NEW m \in 0..n
          PROVE  0 * u <= Error(w, m, u) * n
        <3>1. Error(w, m, u) \in Nat
            BY DEF Error
        <3> QED
            BY <3>1
    <2> QED
        BY <2>1, <2>2, <2>3 DEF IsClosest
<1>4. CASE r # 0 /\ s = 0
    <2>1. w \in 1..99 /\ r \in 1..99 /\ Totals(n, s) = {n}
        BY <1>1, <1>4 DEF IsShare, Totals
    <2>2. f \in {k, k + 1} /\ (f = k => RoundsDown(n, w, s, k, r))
              /\ (f = k + 1 => ~RoundsDown(n, w, s, k, r))
        BY <1>2, <1>4 DEF NewIsRounded
    <2>3. ErrorsAtLeast(n, w, k, r, f) /\ k < n
        <3>1. f \in Nat /\ k < n
            BY <1>1, <2>1, <2>2 DEF IsShare
        <3> QED
            BY <1>1, <2>1, <3>1, ErrorsFromShare
    <2>4. ASSUME NEW m \in 0..n, ~(m = 0 /\ n > 1), m # n
          PROVE  Error(w, f, n) * n <= Error(w, m, n) * n
        <3>1. ErrorsAtLeast(n, w, k, r, m)
            <4>1. m \in Nat
                OBVIOUS
            <4> QED
                BY <1>1, <2>1, <4>1, ErrorsFromShare
        <3>2. Error(w, f, n) <= Error(w, m, n)
            <4>1. CASE f = k
                BY <1>4, <2>2, <2>3, <2>4, <3>1, <4>1 DEF ErrorsAtLeast, RoundsDown
            <4>2. CASE f = k + 1
                BY <1>2, <1>4, <2>2, <2>3, <2>4, <3>1, <4>2 DEF ErrorsAtLeast, RoundsDown, NewIsRounded
            <4> QED
                BY <2>2, <4>1, <4>2
        <3>3. Error(w, f, n) \in Nat /\ Error(w, m, n) \in Nat
            BY <2>3, <3>1 DEF ErrorsAtLeast
        <3> QED
            BY <3>2, <3>3
    <2> QED
        BY <1>4, <2>1, <2>4 DEF IsClosest
<1>5. CASE r # 0 /\ s # 0
    <2>1. w \in 1..99 /\ r \in 1..99 /\ k < n /\ s \in Nat \ {0}
        BY <1>1, <1>5 DEF IsShare
    <2>2. f = IF RoundsDown(n, w, s, k, r) THEN k ELSE k + 1
        BY <1>2, <1>5 DEF NewIsRounded
    <2>3. f \in Nat /\ ErrorsAtLeast(n, w, k, r, k) /\ ErrorsAtLeast(n, w, k, r, k + 1)
        <3>1. f \in Nat /\ k + 1 \in Nat
            BY <2>2
        <3> QED
            BY <1>1, <2>1, <3>1, ErrorsFromShare
    <2> DEFINE d == SurgedError(w, r)
    <2>4. PICK t \in {n, n + 1} : AsClose(n, w, k, r, Error(w, f, t), t)
        <3>1. /\ d \in Nat /\ (r + w >= 50 => d <= r + w)
              /\ r + w <= 100 => d = 100 - r - w
              /\ r + w > 100 => d = r + w - 100
            BY <2>1 DEF SurgedError, Larger
        <3> HIDE DEF d
        <3>2. PICK x \in Nat : x = w * n /\ x = 100 * k + r
            BY <1>1, <2>1 DEF IsShare
        <3>3. PICK y \in Nat : /\ y = r * n /\ r * (n + 1) = y + r
                               /\ (100 - r) * n = 100 * n - y
                               /\ (100 - r) * (n + 1) = 100 * n - y + 100 - r
                               /\ r < 50 => y <= 49 * n
                               /\ r >= 50 => y >= 50 * n
            BY <2>1
        <3>4. /\ (r + w) * n = y + x /\ (r + w) * (n + 1) = y + x + r + w
              /\ (200 - r - w) * n = 200 * n - y - x
              /\ (200 - r - w) * (n + 1) = 200 * n - y - x + 200 - r - w
              /\ r + w >= 150 => y + x >= 150 * n
              /\ r + w < 50 => y + x <= 49 * n
            BY <2>1, <3>2, <3>3
        <3>5. PICK z \in Nat : /\ z = d * n /\ d * (n + 1) = z + d
                               /\ r + w >= 50 => z <= y + x
                               /\ r + w <= 100 => z = 100 * n - y - x
                               /\ r + w > 100 => z = y + x - 100 * n
            BY <2>1, <3>1, <3>2, <3>3
        <3>6. RoundsDown(n, w, s, k, r) <=>
                  k # 0 /\ r # 50 /\ (k + 1 = n \/ r < 50) /\ z >= y + r
            BY <2>1, <3>3, <3>5 DEF RoundsDown, d, SurgedError
        <3>7. CASE RoundsDown(n, w, s, k, r)
            <4>1. Error(w, f, n) = r
                BY <2>2, <2>3, <3>7 DEF ErrorsAtLeast
            <4>2. AsClose(n, w, k, r, r, n)
                BY <2>1, <3>1, <3>2, <3>3, <3>4, <3>5, <3>6, <3>7 DEF AsClose, d
            <4> QED
                BY <4>1, <4>2
        <3>8. CASE ~RoundsDown(n, w, s, k, r) /\ k + 1 < n /\ 100 * n - y + 100 - r <= z
            <4>1. Error(w, f, n) = 100 - r
                BY <2>2, <2>3, <3>8 DEF ErrorsAtLeast
            <4>2. k # 0 => r >= 50
                BY <2>1, <3>3, <3>6, <3>8
            <4>3. AsClose(n, w, k, r, 100 - r, n)
                BY <2>1, <3>1, <3>2, <3>3, <3>4, <3>5, <3>8, <4>2 DEF AsClose, d
            <4> QED
                BY <4>1, <4>3
        <3>9. CASE ~RoundsDown(n, w, s, k, r) /\ ~(k + 1 < n /\ 100 * n - y + 100 - r <= z)
            <4>1. Error(w, f, n + 1) = d
                BY <2>2, <2>3, <3>9 DEF ErrorsAtLeast, d
            <4>2. k # 0 => z <= y + r /\ z + d <= y + x + r + w
                BY <2>1, <3>1, <3>2, <3>3, <3>4, <3>5, <3>6, <3>9
            <4>3. k + 1 < n => z <= 100 * n - y + 100 - r
                BY <2>1, <3>9
            <4>4. k + 1 < n /\ r + w > 100 => z + d <= 200 * n - y - x + 200 - r - w
                BY <2>1, <3>1, <3>2, <3>3, <3>4, <3>5, <4>3
            <4>5. AsClose(n, w, k, r, d, n + 1)
                BY <2>1, <3>1, <3>3, <3>4, <3>5, <4>2, <4>3, <4>4 DEF AsClose, d
            <4> QED
                BY <4>1, <4>5
        <3> QED
            BY <3>7, <3>8, <3>9
    <2> QED
        BY <1>1, <2>1, <2>3, <2>4, AsCloseIsClosest
<1> QED
    BY <1>3, <1>4, <1>5

-----------------------------------------------------------------------------
(***************************************************************************)
(* Where the code finds no option, and what it promises elsewhere          *)
(***************************************************************************)
\* The inputs for which no option is left: the weight asks for half a pod less
\* than all of them.
HalfAPodLess == {<<2, 75>>, <<5, 90>>, <<10, 95>>, <<25, 98>>, <<50, 99>>}

\* The divisors of 50.
LEMMA FiftyIsProduct ==
    ASSUME NEW d \in 1..99, NEW n \in Nat, n > 1, d * n = 50
    PROVE  <<n, 100 - d>> \in HalfAPodLess
<1>1. d <= 25
    <2>1. d * n >= d * 2
        OBVIOUS
    <2> QED
        BY <2>1
<1>2. \/ d = 1 \/ d = 2 \/ d = 3 \/ d = 4 \/ d = 5 \/ d = 6 \/ d = 7 \/ d = 8 \/ d = 9
      \/ d = 10 \/ d = 11 \/ d = 12 \/ d = 13 \/ d = 14 \/ d = 15 \/ d = 16 \/ d = 17
      \/ d = 18 \/ d = 19 \/ d = 20 \/ d = 21 \/ d = 22 \/ d = 23 \/ d = 24 \/ d = 25
    BY <1>1
<1>3. \/ d = 1 /\ n = 50
      \/ d = 2 /\ n = 25
      \/ d = 5 /\ n = 10
      \/ d = 10 /\ n = 5
      \/ d = 25 /\ n = 2
    BY <1>2
<1> QED
    BY <1>3 DEF HalfAPodLess

\* The branch that the code calls unreachable is reached for five pairs of
\* replicas and weight, without surge, and for no other inputs.
THEOREM NoOptionIsHalfAPodLess ==
    ASSUME NEW n \in Nat \ {0}, NEW w \in 0..100, NEW s \in Nat
    PROVE  NoOption(n, w, s) <=> s = 0 /\ <<n, w>> \in HalfAPodLess
<1>1. PICK k \in Nat, r \in 0..99 : IsShare(n, w, k, r)
    BY Hundredths
<1>2. NoOption(n, w, s) <=> s = 0 /\ n > 1 /\ r = 50 /\ k + 1 = n
    <2>1. NewIsRounded(n, w, s, k, r)
        BY <1>1, NewFromShare
    <2> QED
        BY <2>1 DEF NewIsRounded
<1>3. w * n = 100 * k + r /\ (w = 0 => r = 0) /\ (w = 100 => r = 0)
    BY <1>1 DEF IsShare
<1>4. ASSUME NoOption(n, w, s) PROVE <<n, w>> \in HalfAPodLess
    <2>1. n > 1 /\ r = 50 /\ k + 1 = n
        BY <1>2, <1>4
    <2>2. w \in 1..99 /\ 100 - w \in 1..99
        BY <1>3, <2>1
    <2>3. (100 - w) * n = 100 * n - w * n
        BY <2>2
    <2>4. (100 - w) * n = 50
        BY <1>3, <2>1, <2>3
    <2>5. <<n, 100 - (100 - w)>> \in HalfAPodLess
        BY <2>1, <2>2, <2>4, FiftyIsProduct
    <2> QED
        BY <2>2, <2>5
<1>5. ASSUME <<n, w>> \in HalfAPodLess PROVE n > 1 /\ r = 50 /\ k + 1 = n
    <2>1. \/ n = 2 /\ w = 75
          \/ n = 5 /\ w = 90
          \/ n = 10 /\ w = 95
          \/ n = 25 /\ w = 98
          \/ n = 50 /\ w = 99
        BY <1>5 DEF HalfAPodLess
    <2> QED
        BY <1>3, <2>1
<1> QED
    BY <1>2, <1>4, <1>5

\* With an option, a weight other than 0 and 100 gives pods to the new
\* ReplicaSet and leaves the old ones some.
LEMMA OptionGivesBothPods ==
    ASSUME NEW n \in Nat \ {0}, NEW w \in 0..100, NEW s \in Nat, ~NoOption(n, w, s)
    PROVE  GivesBothPods(n, w, s)
<1> SUFFICES ASSUME w \in 1..99, n > 1
             PROVE  New(n, w, s) > 0 /\ (s = 0 => New(n, w, s) < n)
    BY DEF GivesBothPods
<1>1. PICK k \in Nat, r \in 0..99 : IsShare(n, w, k, r)
    BY Hundredths
<1>2. k < n /\ (r = 0 => k > 0)
    <2>1. w * n = 100 * k + r /\ w * n > 0 /\ k < n
        BY <1>1 DEF IsShare
    <2> QED
        BY <2>1
<1>3. /\ ~(s = 0 /\ r = 50 /\ k + 1 = n)
      /\ New(n, w, s) = IF r = 0 \/ RoundsDown(n, w, s, k, r) THEN k ELSE k + 1
    <2>1. NewIsRounded(n, w, s, k, r)
        BY <1>1, NewFromShare
    <2> QED
        BY <2>1 DEF NewIsRounded
<1>4. RoundsDown(n, w, s, k, r) => k > 0
    BY DEF RoundsDown
<1>5. s = 0 /\ k + 1 = n /\ r # 50 => RoundsDown(n, w, s, k, r)
    BY DEF RoundsDown
<1> QED
    BY <1>2, <1>3, <1>4, <1>5

\* New and old pods for every weight other than 0 and 100, as the comment on the
\* function says, for every number of replicas and every surge: all but five
\* pairs of replicas and weight, without surge.
THEOREM BothPodsUnlessHalfAPodLess ==
    ASSUME NEW n \in Nat \ {0}, NEW w \in 0..100, NEW s \in Nat
    PROVE  GivesBothPods(n, w, s) <=> ~(s = 0 /\ <<n, w>> \in HalfAPodLess)
<1>1. NoOption(n, w, s) <=> s = 0 /\ <<n, w>> \in HalfAPodLess
    BY NoOptionIsHalfAPodLess
<1>2. CASE NoOption(n, w, s)
    <2>1. New(n, w, s) = 0
        BY <1>2, NoOptionGivesNone
    <2>2. w \in 1..99 /\ n > 1
        BY <1>2 DEF NoOption
    <2> QED
        BY <1>1, <1>2, <2>1, <2>2 DEF GivesBothPods
<1>3. CASE ~NoOption(n, w, s)
    BY <1>1, <1>3, OptionGivesBothPods
<1> QED
    BY <1>2, <1>3

-----------------------------------------------------------------------------
\* Well-formed limits, percentages of any size included, leave a rollout with
\* replicas room for one pod more or for one pod less.
THEOREM LimitsLeaveRoom ==
    ASSUME NEW spec, spec.replicas \in Nat \ {0},
           spec.surge \in IntOrString, spec.unavailable \in IntOrString
    PROVE  MaxSurge(spec) > 0 \/ MaxUnavailable(spec) > 0
<1>1. ASSUME NEW limit \in IntOrString, NEW roundUp \in BOOLEAN
      PROVE  GetValueFromIntOrPercent(limit, spec.replicas, roundUp) \in Nat
    <2>1. PICK p \in Nat : p = limit.value * spec.replicas
        BY DEF IntOrString
    <2> QED
        BY <2>1 DEF GetValueFromIntOrPercent, CeilPercent, FloorPercent, IntOrString
<1>2. /\ GetValueFromIntOrPercent(spec.surge, spec.replicas, TRUE) \in Nat
      /\ GetValueFromIntOrPercent(spec.unavailable, spec.replicas, FALSE) \in Nat
    BY <1>1
<1> DEFINE surge       == GetValueFromIntOrPercent(spec.surge, spec.replicas, TRUE)
           unavailable == GetValueFromIntOrPercent(spec.unavailable, spec.replicas, FALSE)
           down        == IF surge = 0 /\ unavailable = 0 THEN 1 ELSE unavailable
<1>3. MaxSurge(spec) = surge
    BY DEF MaxSurge, resolveFencePosts
<1>4. MaxUnavailable(spec) = IF down > spec.replicas THEN spec.replicas ELSE down
    BY DEF MaxUnavailable, resolveFencePosts, Smaller
<1> QED
    <2> HIDE DEF surge, unavailable
    <2>1. surge \in Nat /\ unavailable \in Nat
        BY <1>2 DEF surge, unavailable
    <2> QED
        BY <1>3, <1>4, <2>1
=============================================================================
