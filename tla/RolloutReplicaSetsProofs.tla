---------------------- MODULE RolloutReplicaSetsProofs ----------------------
(***************************************************************************)
(* Proofs about RolloutReplicaSets, for any templates, names, metadata,    *)
(* pods and controllers: what a pass takes for its new ReplicaSet, how     *)
(* many there are for a template, what metadata pods have, and what counts *)
(* as a collision.  All follow from ReplicaSetsInv, which every step keeps.*)
(***************************************************************************)
EXTENDS RolloutReplicaSets, FiniteSetTheorems, TLAPS

-----------------------------------------------------------------------------
(***************************************************************************)
(* Metadata                                                                *)
(***************************************************************************)
LEMMA NoneIsMeta == None \in Metas
<1>1. {} \in SUBSET Keys /\ None \in [{} -> Values]
  BY DEF None
<1> QED
  BY <1>1 DEF Metas

LEMMA MetaDomain == ASSUME NEW m \in Metas
                    PROVE  /\ DOMAIN m \subseteq Keys /\ m \in [DOMAIN m -> Values]
                           /\ m = [k \in DOMAIN m |-> m[k]]
<1>1. PICK K \in SUBSET Keys : m \in [K -> Values]
  BY DEF Metas
<1> QED
  BY <1>1

\* SyncEphemeralPodMetadata gives metadata, and what had nothing but what was
\* injected gets what is desired.
LEMMA SyncType == ASSUME NEW m \in Metas, NEW e \in Metas, NEW d \in Metas
                  PROVE  SyncMetadata(m, e, d) \in Metas
<1> DEFINE K == (DOMAIN m \ DOMAIN e) \cup DOMAIN d
<1>1. K \in SUBSET Keys
  BY MetaDomain
<1>2. \A k \in K : (IF k \in DOMAIN d THEN d[k] ELSE m[k]) \in Values
  BY MetaDomain
<1>3. SyncMetadata(m, e, d) \in [K -> Values]
  BY <1>2 DEF SyncMetadata
<1> QED
  BY <1>1, <1>3 DEF Metas

LEMMA SyncSame == ASSUME NEW m \in Metas, NEW d \in Metas
                  PROVE  SyncMetadata(m, m, d) = d
<1>1. SyncMetadata(m, m, d) = [k \in DOMAIN d |-> d[k]]
  BY DEF SyncMetadata
<1> QED
  BY <1>1, MetaDomain

-----------------------------------------------------------------------------
(***************************************************************************)
(* What a pass decides                                                     *)
(***************************************************************************)
LEMMA HashIsName == ASSUME NEW t \in Templates, NEW i \in Counts
                    PROVE  HashOf(t, i) \in Names
BY ReplicaSetsAssumption DEF HashOf

\* What FindNewReplicaSet finds is the rollout's, and has the template or the
\* hash; when it finds none, no ReplicaSet of the rollout has the template.
LEMMA FindsNew ==
    ASSUME NEW R, NEW t \in Templates, NEW i \in Counts
    PROVE  LET n == FindNewReplicaSet(R, t, i)
           IN  /\ n \in Names \cup {Nil}
               /\ n # Nil => R[n].owner = "rollout" /\ (R[n].template = t \/ n = HashOf(t, i))
               /\ n = Nil => \A m \in Names : R[m].owner = "rollout" => R[m].template # t
BY HashIsName, ReplicaSetsAssumption DEF FindNewReplicaSet

LEMMA MetadataForType == ASSUME NEW x \in Contexts, NEW n
                         PROVE  MetadataFor(x, n) \in Metas
<1>1. x.metadata.canary \in Metas /\ x.metadata.stable \in Metas
  BY ReplicaSetsAssumption DEF Contexts
<1> QED
  BY <1>1, NoneIsMeta DEF MetadataFor

LEMMA NextIsUnsynced ==
    ASSUME NEW x, Unsynced(x) # {}
    PROVE  /\ NextToSync(x) \in Unsynced(x) /\ NextToSync(x) \in Names
           /\ x.seen[NextToSync(x)].owner = "rollout"
<1>1. Unsynced(x) \subseteq Names /\ \A n \in Unsynced(x) : x.seen[n].owner = "rollout"
  BY DEF Unsynced
<1>2. NextToSync(x) \in Unsynced(x)
  BY DEF NextToSync
<1> QED
  BY <1>1, <1>2

\* The role of a ReplicaSet does not depend on the pods that were listed.
LEMMA RolesOnly ==
    ASSUME NEW x, NEW y, x.seen = y.seen, x.new = y.new, x.stable = y.stable,
           x.status = y.status, x.metadata = y.metadata
    PROVE  /\ \A n : MetadataFor(x, n) = MetadataFor(y, n)
           /\ Unsynced(x) = Unsynced(y) /\ NextToSync(x) = NextToSync(y)
<1>1. \A n : MetadataFor(x, n) = MetadataFor(y, n)
  BY DEF MetadataFor
<1>2. Unsynced(x) = Unsynced(y)
  BY <1>1 DEF Unsynced
<1> QED
  BY <1>1, <1>2 DEF NextToSync

LEMMA CurrentHashType == ASSUME NEW x \in Contexts PROVE CurrentHash(x) \in Names
BY HashIsName DEF CurrentHash, Contexts, Statuses

LEMMA Listings == ASSUME NEW S \in SUBSET Pods, NEW f \in [S -> Metas]
                  PROVE  f \in UNION {[T -> Metas] : T \in SUBSET Pods}
OBVIOUS

LEMMA ListedType ==
    ASSUME NEW x \in Contexts
    PROVE  DOMAIN x.listed \subseteq Pods /\ x.listed \in [DOMAIN x.listed -> Metas]
<1>1. PICK S \in SUBSET Pods : x.listed \in [S -> Metas]
  BY DEF Contexts
<1> QED
  BY <1>1

LEMMA RunningPass ==
    ASSUME ReplicaSetsTypeOK, NEW c \in Controllers, pc[c] # "idle"
    PROVE  ctx[c] \in Contexts /\ ctx[c].wanted \in Templates /\ ctx[c].status.count \in Counts
           /\ Name(c) \in Names /\ Desired(c) \in ReplicaSets
<1>1. ctx[c] \in Contexts
  BY DEF ReplicaSetsTypeOK
<1>2. ctx[c].wanted \in Templates /\ ctx[c].status.count \in Counts
  BY <1>1 DEF Contexts, Statuses
<1>3. ctx[c].metadata.canary \in Metas /\ ctx[c].metadata.stable \in Metas
  BY <1>1, ReplicaSetsAssumption DEF Contexts
<1>4. Desired(c) \in ReplicaSets
  BY <1>2, <1>3 DEF Desired, ReplicaSets
<1> QED
  BY <1>1, <1>2, <1>4, HashIsName DEF Name

-----------------------------------------------------------------------------
(***************************************************************************)
(* The steps, by what they do to ReplicaSets, pods and passes              *)
(***************************************************************************)
\* A pass ends, whether it is over, fails or conflicts.
Ends(c) == pc[c] # "idle" /\ Forget(c) /\ UNCHANGED <<cluster, overlap>>

\* A pass goes on with what it knows.
Moves(c) ==
    /\ \/ pc[c] = "create" /\ Goto(c, "exists")
       \/ pc[c] = "exists" /\ Goto(c, "collision")
       \/ pc[c] = "announce" /\ Goto(c, MetadataPc(ctx[c]))
    /\ UNCHANGED <<cluster, ctx, staleRS, overlap>>

Quiet == UNCHANGED <<cluster, pc, ctx, staleRS, overlap>>

PassStep(c) ==
    \/ GetRollout(c) \/ Create(c) \/ AdoptExisting(c) \/ ListPods(c)
    \/ \E p \in Pods : UpdatePod(c, p)
    \/ UpdateReplicaSet(c) \/ Moves(c) \/ Ends(c)

ClusterStep ==
    \/ \E n \in Names : DeleteForeign(n) \/ CreatePod(n)
    \/ \E p \in Pods : DeletePod(p)
    \/ Quiet

LEMMA StepKinds == ASSUME [Next]_vars
                   PROVE  ClusterStep \/ \E c \in Controllers : PassStep(c)
<1>1. ASSUME NEW c \in Controllers, AlreadyExists(c) \/ FindCollision(c) \/ Announce(c)
      PROVE  Moves(c)
  BY <1>1 DEF AlreadyExists, FindCollision, Announce, Moves, bounds
<1>2. ASSUME NEW c \in Controllers,
             CountCollision(c) \/ persistRolloutStatus(c) \/ Conflict(c) \/ Fail(c)
      PROVE  Ends(c)
  BY <1>2 DEF CountCollision, persistRolloutStatus, Conflict, Fail, EndPass, Ends, bounds
<1>3. ASSUME Edit \/ UNCHANGED vars
      PROVE  Quiet
  BY <1>3 DEF Edit, vars, cluster, bounds, Quiet
<1> QED
  BY <1>1, <1>2, <1>3 DEF Next, Pass, PassStep, ClusterStep

-----------------------------------------------------------------------------
(***************************************************************************)
(* Types                                                                   *)
(***************************************************************************)
LEMMA InitTypeOK == Init => ReplicaSetsTypeOK
<1> SUFFICES ASSUME Init PROVE ReplicaSetsTypeOK
  OBVIOUS
<1>1. wanted \in Templates /\ metadata \in Metadata /\ 0 \in Counts
  BY ReplicaSetsAssumption DEF Init, Counts
<1>2. HashOf(wanted, 0) \in Names
  BY <1>1, HashIsName
<1>3. metadata.stable \in Metas
  BY <1>1, ReplicaSetsAssumption
<1>4. status \in Statuses
  BY <1>1, <1>2 DEF Init, Statuses
<1>5. rss \in [Names -> ReplicaSets]
  <2>1. NoRS \in ReplicaSets
    BY NoneIsMeta DEF NoRS, ReplicaSets
  <2>2. \A t \in Templates : [owner |-> "other", template |-> t, meta |-> None] \in ReplicaSets
    BY NoneIsMeta DEF ReplicaSets
  <2>3. [owner |-> "rollout", template |-> wanted, meta |-> metadata.stable] \in ReplicaSets
    BY <1>1, <1>3 DEF ReplicaSets
  <2> QED
    BY <2>1, <2>2, <2>3 DEF Init
<1>6. pods \in [Pods -> [rs : Names \cup {Nil, "gone"}, meta : Metas]]
  BY <1>2, <1>3, NoneIsMeta DEF Init, Unborn
<1> QED
  BY <1>1, <1>4, <1>5, <1>6 DEF Init, ReplicaSetsTypeOK, Steps

\* The parts of the type invariant that a step changes one by one.
LEMMA WroteTypes ==
    ASSUME ReplicaSetsTypeOK
    PROVE  /\ \A by : WroteRollout(by) => staleRO' \in [Controllers -> BOOLEAN]
           /\ \A by : \A n \in Names : WroteRS(by, n) => staleRS' \in [Controllers -> SUBSET Names]
<1>1. ASSUME NEW by, WroteRollout(by)
      PROVE  staleRO' \in [Controllers -> BOOLEAN]
  <2>1. \A c \in Controllers : (pc[c] # "idle" /\ c # by) \in BOOLEAN
    OBVIOUS
  <2> QED
    BY <1>1, <2>1, Zenon DEF WroteRollout
<1>2. ASSUME NEW by, NEW n \in Names, WroteRS(by, n)
      PROVE  staleRS' \in [Controllers -> SUBSET Names]
  BY <1>2 DEF ReplicaSetsTypeOK, WroteRS
<1> QED
  BY <1>1, <1>2

\* A pass that goes on has a context, and those of the others stay.
LEMMA RunningType ==
    ASSUME ReplicaSetsTypeOK, NEW c \in Controllers, NEW s \in Steps \ {"idle"}, NEW x \in Contexts,
           Goto(c, s), ctx' = [ctx EXCEPT ![c] = x]
    PROVE  /\ pc' \in [Controllers -> Steps] /\ DOMAIN ctx' = Controllers
           /\ \A d \in Controllers : IF pc'[d] = "idle" THEN ctx'[d] = NoPass ELSE ctx'[d] \in Contexts
BY DEF ReplicaSetsTypeOK, Goto

LEMMA ForgetType ==
    ASSUME ReplicaSetsTypeOK, NEW c \in Controllers, Forget(c)
    PROVE  /\ pc' \in [Controllers -> Steps] /\ DOMAIN ctx' = Controllers
           /\ \A d \in Controllers : IF pc'[d] = "idle" THEN ctx'[d] = NoPass ELSE ctx'[d] \in Contexts
           /\ staleRS' \in [Controllers -> SUBSET Names]
BY DEF ReplicaSetsTypeOK, Goto, Forget, Steps

LEMMA MetadataPcType == \A x : MetadataPc(x) \in {"persist", "metadata"}
BY DEF MetadataPc

LEMMA NextTypeOK == ReplicaSetsTypeOK /\ SyncsOne /\ [Next]_vars => ReplicaSetsTypeOK'
<1> SUFFICES ASSUME ReplicaSetsTypeOK, SyncsOne, [Next]_vars PROVE ReplicaSetsTypeOK'
  OBVIOUS
<1>1. ASSUME NEW c \in Controllers, GetRollout(c)
      PROVE  ReplicaSetsTypeOK'
  <2> DEFINE seen == [n \in Names |-> IF n \in Owned THEN rss[n] ELSE NoRS]
             x    == [wanted |-> wanted, metadata |-> metadata, status |-> status, seen |-> seen,
                      new |-> FindNewReplicaSet(seen, wanted, status.count),
                      stable |-> IF status.stable \in Owned THEN status.stable ELSE Nil,
                      listed |-> None]
  <2>1. seen \in [Names -> ReplicaSets]
    BY NoneIsMeta DEF ReplicaSetsTypeOK, NoRS, ReplicaSets
  <2>2. FindNewReplicaSet(seen, wanted, status.count) \in Names \cup {Nil}
    BY FindsNew DEF ReplicaSetsTypeOK, Statuses
  <2>3. None \in UNION {[S -> Metas] : S \in SUBSET Pods}
    <3>1. {} \in SUBSET Pods /\ None \in [{} -> Metas]
      BY DEF None
    <3> QED
      BY <3>1, Listings
  <2>4. x \in Contexts
    <3> HIDE DEF seen
    <3> QED
      BY <2>1, <2>2, <2>3 DEF ReplicaSetsTypeOK, Statuses, Contexts
  <2>5. ctx' = [ctx EXCEPT ![c] = x] /\ \E s \in Steps \ {"idle"} : Goto(c, s)
    BY <1>1, MetadataPcType DEF GetRollout, Steps
  <2>6. UNCHANGED <<rollout, cluster, staleRO, staleRS, edits, faults>> /\ overlap' \in Nat
    BY <1>1 DEF GetRollout, ReplicaSetsTypeOK
  <2> HIDE DEF x
  <2> QED
    BY <2>4, <2>5, <2>6, RunningType DEF ReplicaSetsTypeOK, rollout, cluster
<1>2. ASSUME NEW c \in Controllers, Create(c)
      PROVE  ReplicaSetsTypeOK'
  <2>1. pc[c] # "idle" /\ Name(c) \in Names /\ Desired(c) \in ReplicaSets /\ ctx[c] \in Contexts
    BY <1>2, RunningPass DEF Create
  <2> DEFINE x == [ctx[c] EXCEPT !.new = Name(c), !.seen[Name(c)] = Desired(c)]
  <2>2. x \in Contexts
    BY <2>1 DEF Contexts
  <2>3. ctx' = [ctx EXCEPT ![c] = x]
    BY <1>2 DEF Create
  <2> HIDE DEF x
  <2>4. rss' \in [Names -> ReplicaSets] /\ Goto(c, "announce")
        /\ UNCHANGED <<rollout, pods, apart, staleRO, staleRS, bounds>>
    BY <1>2, <2>1 DEF Create, ReplicaSetsTypeOK
  <2>5. /\ pc' \in [Controllers -> Steps] /\ DOMAIN ctx' = Controllers
        /\ \A d \in Controllers : IF pc'[d] = "idle" THEN ctx'[d] = NoPass ELSE ctx'[d] \in Contexts
    BY <2>2, <2>3, <2>4, RunningType DEF Steps
  <2> QED
    BY <2>4, <2>5 DEF ReplicaSetsTypeOK, rollout, bounds
<1>3. ASSUME NEW c \in Controllers, AlreadyExists(c) \/ FindCollision(c) \/ Announce(c)
      PROVE  ReplicaSetsTypeOK'
  <2>1. pc[c] # "idle" /\ ctx' = ctx
    BY <1>3 DEF AlreadyExists, FindCollision, Announce
  <2>2. \E s \in Steps \ {"idle"} : Goto(c, s)
    BY <1>3, MetadataPcType DEF AlreadyExists, FindCollision, Announce, Steps
  <2>3. staleRO' \in [Controllers -> BOOLEAN]
    BY <1>3, WroteTypes DEF AlreadyExists, FindCollision, Announce, ReplicaSetsTypeOK
  <2>4. UNCHANGED <<rollout, cluster, staleRS, bounds>>
    BY <1>3 DEF AlreadyExists, FindCollision, Announce
  <2> QED
    BY <2>1, <2>2, <2>3, <2>4 DEF Goto, ReplicaSetsTypeOK, rollout, cluster, bounds
<1>4. ASSUME NEW c \in Controllers, AdoptExisting(c)
      PROVE  ReplicaSetsTypeOK'
  <2>1. pc[c] # "idle" /\ Name(c) \in Names /\ ctx[c] \in Contexts
    BY <1>4, RunningPass DEF AdoptExisting
  <2> DEFINE x == [ctx[c] EXCEPT !.new = Name(c), !.seen[Name(c)] = rss[Name(c)]]
  <2>2. x \in Contexts
    BY <2>1 DEF Contexts, ReplicaSetsTypeOK
  <2>3. /\ ctx' = [ctx EXCEPT ![c] = x] /\ Goto(c, "announce")
        /\ UNCHANGED <<rollout, cluster, staleRO, staleRS, bounds>>
    BY <1>4 DEF AdoptExisting
  <2> HIDE DEF x
  <2>4. /\ pc' \in [Controllers -> Steps] /\ DOMAIN ctx' = Controllers
        /\ \A d \in Controllers : IF pc'[d] = "idle" THEN ctx'[d] = NoPass ELSE ctx'[d] \in Contexts
    BY <2>2, <2>3, RunningType DEF Steps
  <2> QED
    BY <2>3, <2>4 DEF ReplicaSetsTypeOK, rollout, cluster, bounds
<1>5. ASSUME NEW c \in Controllers, CountCollision(c)
      PROVE  ReplicaSetsTypeOK'
  <2>1. ctx[c].status \in Statuses
    BY <1>5, RunningPass DEF CountCollision, Contexts
  <2>2. status' \in Statuses
    BY <1>5, <2>1, ReplicaSetsAssumption DEF CountCollision, Statuses, Counts
  <2> QED
    BY <1>5, <2>2, WroteTypes, ForgetType DEF CountCollision, ReplicaSetsTypeOK, cluster, bounds
<1>6. ASSUME NEW c \in Controllers, ListPods(c)
      PROVE  ReplicaSetsTypeOK'
  <2>1. ctx[c] \in Contexts
    BY <1>6, RunningPass DEF ListPods
  <2> DEFINE listed == [p \in PodsOf(NextToSync(ctx[c])) |-> pods[p].meta]
             x == [ctx[c] EXCEPT !.listed = listed]
  <2>2. listed \in UNION {[S -> Metas] : S \in SUBSET Pods}
    <3>1. PodsOf(NextToSync(ctx[c])) \in SUBSET Pods
      BY DEF PodsOf
    <3>2. \A p \in Pods : pods[p].meta \in Metas
      BY DEF ReplicaSetsTypeOK
    <3>3. listed \in [PodsOf(NextToSync(ctx[c])) -> Metas]
      BY <3>1, <3>2
    <3> HIDE DEF listed
    <3> QED
      BY <3>1, <3>3, Listings
  <2>3. x \in Contexts
    <3> HIDE DEF listed
    <3> QED
      BY <2>1, <2>2 DEF Contexts
  <2>4. /\ ctx' = [ctx EXCEPT ![c] = x] /\ Goto(c, "pods")
        /\ UNCHANGED <<rollout, cluster, staleRO, staleRS, bounds>>
    BY <1>6 DEF ListPods
  <2> HIDE DEF x
  <2>5. /\ pc' \in [Controllers -> Steps] /\ DOMAIN ctx' = Controllers
        /\ \A d \in Controllers : IF pc'[d] = "idle" THEN ctx'[d] = NoPass ELSE ctx'[d] \in Contexts
    BY <2>3, <2>4, RunningType DEF Steps
  <2> QED
    BY <2>4, <2>5 DEF ReplicaSetsTypeOK, rollout, cluster, bounds
<1>7. ASSUME NEW c \in Controllers, NEW p \in Pods, UpdatePod(c, p)
      PROVE  ReplicaSetsTypeOK'
  <2> DEFINE m == PodMetadata(ctx[c], p)
  <2>1. ctx[c] \in Contexts /\ pc[c] = "pods" /\ p \in DOMAIN ctx[c].listed
    BY <1>7, RunningPass DEF UpdatePod, UnsyncedPods
  <2>2. m \in Metas
    <3>1. ctx[c].listed[p] \in Metas /\ MetadataFor(ctx[c], NextToSync(ctx[c])) \in Metas
      BY <2>1, ListedType, MetadataForType
    <3>2. ctx[c].seen[NextToSync(ctx[c])].meta \in Metas
      <4>1. NextToSync(ctx[c]) \in Names
        BY <2>1, NextIsUnsynced DEF SyncsOne
      <4> QED
        BY <2>1, <4>1 DEF Contexts, ReplicaSets
    <3> QED
      BY <3>1, <3>2, SyncType DEF PodMetadata
  <2> DEFINE x == [ctx[c] EXCEPT !.listed[p] = m]
  <2>3. x \in Contexts
    <3> DEFINE listed == [ctx[c].listed EXCEPT ![p] = m]
    <3>1. listed \in [DOMAIN ctx[c].listed -> Metas] /\ DOMAIN ctx[c].listed \in SUBSET Pods
      BY <2>1, <2>2, ListedType
    <3>2. listed \in UNION {[S -> Metas] : S \in SUBSET Pods}
      <4> HIDE DEF listed
      <4> QED
        BY <3>1, Listings
    <3>3. x = [ctx[c] EXCEPT !.listed = listed]
      BY <2>1 DEF Contexts
    <3> HIDE DEF listed, x
    <3> QED
      BY <2>1, <3>2, <3>3 DEF Contexts
  <2>4. /\ ctx' = [ctx EXCEPT ![c] = x] /\ pc' = pc
        /\ UNCHANGED <<rollout, rss, staleRO, staleRS, bounds>>
    BY <1>7 DEF UpdatePod
  <2>5. pods' \in [Pods -> [rs : Names \cup {Nil, "gone"}, meta : Metas]]
        /\ apart' \in [Controllers -> SUBSET Pods]
    BY <1>7, <2>2 DEF UpdatePod, ReplicaSetsTypeOK
  <2> HIDE DEF x
  <2>6. /\ DOMAIN ctx' = Controllers
        /\ \A d \in Controllers : IF pc'[d] = "idle" THEN ctx'[d] = NoPass ELSE ctx'[d] \in Contexts
    BY <2>1, <2>3, <2>4 DEF ReplicaSetsTypeOK
  <2> QED
    BY <2>4, <2>5, <2>6 DEF ReplicaSetsTypeOK, rollout, bounds
<1>8. ASSUME NEW c \in Controllers, UpdateReplicaSet(c)
      PROVE  ReplicaSetsTypeOK'
  <2> DEFINE n == NextToSync(ctx[c])
             d == MetadataFor(ctx[c], n)
  <2>1. ctx[c] \in Contexts /\ pc[c] = "pods" /\ n \in Names /\ d \in Metas
    BY <1>8, RunningPass, MetadataForType DEF UpdateReplicaSet, Owned
  <2> DEFINE x == [ctx[c] EXCEPT !.seen[n].meta = d, !.listed = None]
  <2>2. x \in Contexts
    <3>1. None \in UNION {[S -> Metas] : S \in SUBSET Pods}
      <4>1. {} \in SUBSET Pods /\ None \in [{} -> Metas]
        BY DEF None
      <4> QED
        BY <4>1, Listings
    <3> DEFINE seen == [ctx[c].seen EXCEPT ![n].meta = d]
    <3> HIDE DEF n, d
    <3>2. seen \in [Names -> ReplicaSets]
      BY <2>1 DEF Contexts, ReplicaSets
    <3>3. x = [ctx[c] EXCEPT !.seen = seen, !.listed = None]
      BY <2>1 DEF Contexts
    <3> HIDE DEF seen, x
    <3> QED
      BY <2>1, <3>1, <3>2, <3>3 DEF Contexts
  <2>3. /\ ctx' = [ctx EXCEPT ![c] = x] /\ WroteRS(c, n)
        /\ rss' = [rss EXCEPT ![n].meta = d]
        /\ apart' = [apart EXCEPT ![c] = (@ \ SyncedPods(ctx[c]))
                                         \cup (PodsOf(n) \ DOMAIN ctx[c].listed)]
        /\ UNCHANGED <<rollout, pods, staleRO, bounds>>
    BY <1>8 DEF UpdateReplicaSet
  <2>4. \E s \in Steps \ {"idle"} : Goto(c, s)
    BY <1>8, MetadataPcType DEF UpdateReplicaSet, Steps
  <2> HIDE DEF n, d, x
  <2>5. /\ pc' \in [Controllers -> Steps] /\ DOMAIN ctx' = Controllers
        /\ \A e \in Controllers : IF pc'[e] = "idle" THEN ctx'[e] = NoPass ELSE ctx'[e] \in Contexts
    BY <2>2, <2>3, <2>4, RunningType
  <2>6. rss' \in [Names -> ReplicaSets]
    BY <2>1, <2>3 DEF ReplicaSetsTypeOK, ReplicaSets
  <2>7. apart' \in [Controllers -> SUBSET Pods]
    BY <2>3 DEF ReplicaSetsTypeOK, PodsOf
  <2>8. staleRS' \in [Controllers -> SUBSET Names]
    BY <2>1, <2>3, WroteTypes
  <2> QED
    BY <2>3, <2>5, <2>6, <2>7, <2>8 DEF ReplicaSetsTypeOK, rollout, bounds
<1>9. ASSUME NEW c \in Controllers, persistRolloutStatus(c)
      PROVE  ReplicaSetsTypeOK'
  <2>1. pc[c] # "idle" /\ ctx[c] \in Contexts
    BY <1>9, RunningPass DEF persistRolloutStatus
  <2>2. CurrentHash(ctx[c]) \in Names /\ ctx[c].status \in Statuses
    BY <2>1, CurrentHashType DEF Contexts
  <2>3. status' \in Statuses
    BY <1>9, <2>2 DEF persistRolloutStatus, NewStatuses, Statuses
  <2>4. staleRO' \in [Controllers -> BOOLEAN]
    BY <1>9, WroteTypes DEF persistRolloutStatus, ReplicaSetsTypeOK
  <2>5. Forget(c) /\ UNCHANGED <<wanted, metadata, cluster, bounds>>
    BY <1>9 DEF persistRolloutStatus
  <2> QED
    BY <2>3, <2>4, <2>5, ForgetType DEF ReplicaSetsTypeOK, cluster, bounds
<1>10. ASSUME NEW c \in Controllers, Conflict(c) \/ Fail(c)
       PROVE  ReplicaSetsTypeOK'
  <2>1. Forget(c) /\ UNCHANGED <<rollout, cluster, edits, overlap>> /\ faults' \in Nat
    BY <1>10 DEF Conflict, Fail, EndPass, bounds, ReplicaSetsTypeOK
  <2>2. staleRO' \in [Controllers -> BOOLEAN]
    BY <1>10 DEF Conflict, Fail, EndPass, ReplicaSetsTypeOK
  <2> QED
    BY <2>1, <2>2, ForgetType DEF ReplicaSetsTypeOK, rollout, cluster
<1>11. CASE Edit
  BY <1>11, WroteTypes DEF Edit, ReplicaSetsTypeOK, cluster
<1>12. ASSUME NEW n \in Names, DeleteForeign(n)
       PROVE  ReplicaSetsTypeOK'
  <2>1. NoRS \in ReplicaSets
    BY NoneIsMeta DEF NoRS, ReplicaSets
  <2> QED
    BY <1>12, <2>1 DEF DeleteForeign, ReplicaSetsTypeOK, rollout, bounds
<1>13. ASSUME NEW n \in Names, CreatePod(n)
       PROVE  ReplicaSetsTypeOK'
  <2>1. rss[n].meta \in Metas
    BY DEF ReplicaSetsTypeOK, ReplicaSets
  <2>2. pods' \in [Pods -> [rs : Names \cup {Nil, "gone"}, meta : Metas]]
    BY <1>13, <2>1 DEF CreatePod, ReplicaSetsTypeOK
  <2>3. staleRS' \in [Controllers -> SUBSET Names]
    BY <1>13, WroteTypes DEF CreatePod, ReplicaSetsTypeOK
  <2> QED
    BY <1>13, <2>2, <2>3 DEF CreatePod, ReplicaSetsTypeOK, rollout, bounds
<1>14. ASSUME NEW p \in Pods, DeletePod(p)
       PROVE  ReplicaSetsTypeOK'
  BY <1>14, NoneIsMeta DEF DeletePod, Gone, ReplicaSetsTypeOK, rollout, bounds
<1>15. CASE UNCHANGED vars
  BY <1>15 DEF vars, rollout, cluster, bounds, ReplicaSetsTypeOK
<1> QED
  BY <1>1, <1>2, <1>3, <1>4, <1>5, <1>6, <1>7, <1>8, <1>9, <1>10, <1>11, <1>12, <1>13, <1>14, <1>15
  DEF Next, Pass

-----------------------------------------------------------------------------
(***************************************************************************)
(* The rollout's ReplicaSets                                               *)
(***************************************************************************)
LEMMA CreateEffect ==
    ASSUME ReplicaSetsTypeOK, NEW c \in Controllers, Create(c)
    PROVE  /\ Name(c) \in Names \ Owned /\ rss'[Name(c)] = Desired(c)
           /\ rss'[Name(c)].template = ctx[c].wanted
           /\ \A n \in Names \ {Name(c)} : rss'[n] = rss[n]
           /\ Owned' = Owned \cup {Name(c)}
<1>1. Name(c) \in Names
  BY RunningPass DEF Create
<1>2. rss[Name(c)] = NoRS /\ rss' = [rss EXCEPT ![Name(c)] = Desired(c)]
  BY DEF Create
<1>3. Name(c) \notin Owned
  BY <1>2, ReplicaSetsAssumption DEF NoRS, Owned
<1>4. rss'[Name(c)] = Desired(c) /\ \A n \in Names \ {Name(c)} : rss'[n] = rss[n]
  BY <1>1, <1>2 DEF ReplicaSetsTypeOK
<1>5. Desired(c).template = ctx[c].wanted /\ Desired(c).owner = "rollout"
  BY DEF Desired
<1>6. Owned' = Owned \cup {Name(c)}
  BY <1>1, <1>4, <1>5 DEF Owned
<1> QED
  BY <1>1, <1>3, <1>4, <1>5, <1>6

LEMMA UpdateEffect ==
    ASSUME ReplicaSetsTypeOK, NEW c \in Controllers, UpdateReplicaSet(c)
    PROVE  LET n == NextToSync(ctx[c])
           IN  /\ n \in Owned
               /\ rss' = [rss EXCEPT ![n] = [rss[n] EXCEPT !.meta = MetadataFor(ctx[c], n)]]
               /\ \A m \in Names : /\ rss'[m].owner = rss[m].owner
                                   /\ rss'[m].template = rss[m].template
               /\ \A m \in Names \ {n} : rss'[m] = rss[m]
               /\ rss'[n].meta = MetadataFor(ctx[c], n)
               /\ Owned' = Owned
<1> DEFINE n == NextToSync(ctx[c])
<1>1. n \in Owned /\ n \in Names
  BY DEF UpdateReplicaSet, Owned
<1>2. rss' = [rss EXCEPT ![n] = [rss[n] EXCEPT !.meta = MetadataFor(ctx[c], n)]]
  BY DEF UpdateReplicaSet
<1> HIDE DEF n
<1>3. /\ \A m \in Names \ {n} : rss'[m] = rss[m]
      /\ rss'[n] = [rss[n] EXCEPT !.meta = MetadataFor(ctx[c], n)]
  BY <1>1, <1>2 DEF ReplicaSetsTypeOK
<1>4. rss[n] \in ReplicaSets
  BY <1>1 DEF ReplicaSetsTypeOK
<1>5. /\ rss'[n].owner = rss[n].owner /\ rss'[n].template = rss[n].template
      /\ rss'[n].meta = MetadataFor(ctx[c], n)
  BY <1>3, <1>4 DEF ReplicaSets
<1>6. \A m \in Names : rss'[m].owner = rss[m].owner /\ rss'[m].template = rss[m].template
  BY <1>3, <1>5
<1>7. Owned' = Owned
  BY <1>6 DEF Owned
<1> QED
  BY <1>1, <1>2, <1>3, <1>5, <1>6, <1>7 DEF n

\* The rollout's ReplicaSets stay, each with its template, and only
\* createDesiredReplicaSet adds to them.
LEMMA OwnedChanges ==
    ASSUME ReplicaSetsTypeOK, [Next]_vars
    PROVE  /\ \A n \in Owned : n \in Owned' /\ rss'[n].template = rss[n].template
           /\ \A n \in Owned' \ Owned : \E c \in Controllers : Create(c) /\ n = Name(c)
<1>1. ASSUME NEW c \in Controllers, Create(c)
      PROVE  /\ \A n \in Owned : n \in Owned' /\ rss'[n].template = rss[n].template
             /\ \A n \in Owned' \ Owned : n = Name(c)
  BY <1>1, CreateEffect DEF Owned
<1>2. ASSUME NEW c \in Controllers, UpdateReplicaSet(c)
      PROVE  Owned' = Owned /\ \A n \in Owned : rss'[n].template = rss[n].template
  BY <1>2, UpdateEffect DEF Owned
<1>3. ASSUME NEW n \in Names, DeleteForeign(n)
      PROVE  Owned' = Owned /\ \A m \in Owned : rss'[m].template = rss[m].template
  BY <1>3, ReplicaSetsAssumption DEF DeleteForeign, Owned, NoRS, ReplicaSetsTypeOK
<1>4. ASSUME NEW c \in Controllers,
             \/ GetRollout(c) \/ AdoptExisting(c) \/ ListPods(c) \/ Moves(c) \/ Ends(c)
             \/ \E p \in Pods : UpdatePod(c, p)
      PROVE  rss' = rss
  BY <1>4 DEF GetRollout, AdoptExisting, ListPods, UpdatePod, Moves, Ends, cluster
<1>5. ASSUME (\E n \in Names : CreatePod(n)) \/ (\E p \in Pods : DeletePod(p)) \/ Quiet
      PROVE  rss' = rss
  BY <1>5 DEF CreatePod, DeletePod, Quiet, cluster
<1>6. CASE rss' = rss
  BY <1>6 DEF Owned
<1> QED
  BY <1>1, <1>2, <1>3, <1>4, <1>5, <1>6, StepKinds DEF PassStep, ClusterStep

LEMMA NextNamedByHash == ReplicaSetsInv /\ [Next]_vars => NamedByHash'
<1> SUFFICES ASSUME ReplicaSetsInv, [Next]_vars, NEW n \in Owned'
             PROVE  /\ rss'[n].template \in Templates
                    /\ \E i \in Counts : n = HashOf(rss'[n].template, i)
  BY DEF NamedByHash
<1>1. CASE n \in Owned
  BY <1>1, OwnedChanges DEF ReplicaSetsInv, NamedByHash
<1>2. CASE n \notin Owned
  <2>1. PICK c \in Controllers : Create(c) /\ n = Name(c)
    BY <1>2, OwnedChanges DEF ReplicaSetsInv
  <2>2. /\ rss'[n].template = ctx[c].wanted /\ ctx[c].wanted \in Templates
        /\ ctx[c].status.count \in Counts
    <3>1. ReplicaSetsTypeOK /\ pc[c] # "idle"
      BY <2>1 DEF ReplicaSetsInv, Create
    <3> QED
      BY <2>1, <3>1, CreateEffect, RunningPass
  <2> QED
    BY <2>1, <2>2 DEF Name
<1> QED
  BY <1>1, <1>2

LEMMA NextPodsOfOwned == ReplicaSetsInv /\ [Next]_vars => PodsOfOwned'
<1> SUFFICES ASSUME ReplicaSetsInv, [Next]_vars, NEW p \in Pods, pods'[p].rs \in Names
             PROVE  pods'[p].rs \in Owned'
  BY DEF PodsOfOwned
<1>1. ReplicaSetsTypeOK /\ (pods[p].rs \in Names => pods[p].rs \in Owned)
  BY DEF ReplicaSetsInv, PodsOfOwned
<1>2. ASSUME NEW n \in Names, CreatePod(n)
      PROVE  pods'[p].rs \in Owned \cup {pods[p].rs}
  BY <1>1, <1>2 DEF CreatePod, ReplicaSetsTypeOK
<1>3. ASSUME NEW q \in Pods, DeletePod(q)
      PROVE  pods'[p].rs = pods[p].rs
  BY <1>1, <1>3, ReplicaSetsAssumption DEF DeletePod, ReplicaSetsTypeOK, Gone
<1>4. ASSUME NEW c \in Controllers, NEW q \in Pods, UpdatePod(c, q)
      PROVE  pods'[p].rs = pods[p].rs
  BY <1>1, <1>4 DEF UpdatePod, ReplicaSetsTypeOK
<1>5. ASSUME NEW c \in Controllers,
             \/ GetRollout(c) \/ Create(c) \/ AdoptExisting(c) \/ ListPods(c)
             \/ UpdateReplicaSet(c) \/ Moves(c) \/ Ends(c)
      PROVE  pods' = pods
  BY <1>5 DEF GetRollout, Create, AdoptExisting, ListPods, UpdateReplicaSet, Moves, Ends, cluster
<1>6. ASSUME (\E n \in Names : DeleteForeign(n)) \/ Quiet
      PROVE  pods' = pods
  BY <1>6 DEF DeleteForeign, Quiet, cluster
<1>7. pods'[p].rs \in Owned \cup {pods[p].rs}
  BY <1>2, <1>3, <1>4, <1>5, <1>6, StepKinds DEF PassStep, ClusterStep
<1> QED
  BY <1>1, <1>7, OwnedChanges

-----------------------------------------------------------------------------
(***************************************************************************)
(* What passes know                                                        *)
(***************************************************************************)
\* A step of one pass leaves the others as they are.
LEMMA OthersStay ==
    ASSUME ReplicaSetsTypeOK, NEW c \in Controllers, NEW d \in Controllers \ {c}, PassStep(d)
    PROVE  /\ pc'[c] = pc[c] /\ ctx'[c] = ctx[c]
           /\ staleRS'[c] = IF UpdateReplicaSet(d) /\ pc[c] # "idle"
                            THEN staleRS[c] \cup {NextToSync(ctx[d])} ELSE staleRS[c]
<1> USE DEF ReplicaSetsTypeOK, Goto, PassStep
<1>1. CASE UpdateReplicaSet(d)
  BY <1>1 DEF UpdateReplicaSet, WroteRS
<1>2. CASE GetRollout(d) \/ Create(d) \/ AdoptExisting(d) \/ ListPods(d)
  <2>1. staleRS' = staleRS /\ pc'[c] = pc[c] /\ ctx'[c] = ctx[c]
    BY <1>2 DEF GetRollout, Create, AdoptExisting, ListPods
  <2>2. pc[d] # "pods"
    BY <1>2 DEF GetRollout, Create, AdoptExisting, ListPods
  <2> QED
    BY <2>1, <2>2 DEF UpdateReplicaSet
<1>3. CASE \E p \in Pods : UpdatePod(d, p)
  <2>1. staleRS' = staleRS /\ pc'[c] = pc[c] /\ ctx'[c] = ctx[c]
    BY <1>3 DEF UpdatePod
  <2>2. ~UpdateReplicaSet(d)
    BY <1>3 DEF UpdatePod, UpdateReplicaSet
  <2> QED
    BY <2>1, <2>2
<1>4. CASE Moves(d)
  <2>1. staleRS' = staleRS /\ pc'[c] = pc[c] /\ ctx'[c] = ctx[c] /\ pc[d] # "pods"
    BY <1>4 DEF Moves
  <2> QED
    BY <2>1 DEF UpdateReplicaSet
<1>5. CASE Ends(d) /\ ~UpdateReplicaSet(d)
  BY <1>5 DEF Ends, Forget
<1> QED
  BY <1>1, <1>2, <1>3, <1>4, <1>5

\* So do the steps of the user and the cluster, but for a report on a ReplicaSet.
LEMMA PassesStay ==
    ASSUME ReplicaSetsTypeOK, NEW c \in Controllers, ClusterStep
    PROVE  pc'[c] = pc[c] /\ ctx'[c] = ctx[c] /\ staleRS[c] \subseteq staleRS'[c]
<1>1. ASSUME NEW n \in Names, CreatePod(n)
      PROVE  pc' = pc /\ ctx' = ctx /\ staleRS[c] \subseteq staleRS'[c]
  BY <1>1 DEF CreatePod, WroteRS, ReplicaSetsTypeOK
<1>2. ASSUME \/ \E n \in Names : DeleteForeign(n)
             \/ \E p \in Pods : DeletePod(p)
             \/ Quiet
      PROVE  pc' = pc /\ ctx' = ctx /\ staleRS' = staleRS
  BY <1>2 DEF DeleteForeign, DeletePod, Quiet
<1> QED
  BY <1>1, <1>2 DEF ClusterStep

\* What the steps of a pass do to its own state.
LEMMA EndsEffect == ASSUME ReplicaSetsTypeOK, NEW c \in Controllers, Ends(c)
                    PROVE  pc'[c] = "idle" /\ ctx'[c] = NoPass /\ rss' = rss /\ pods' = pods
                           /\ apart' = apart
BY DEF ReplicaSetsTypeOK, Ends, Forget, Goto, cluster

LEMMA MovesEffect ==
    ASSUME ReplicaSetsTypeOK, NEW c \in Controllers, Moves(c)
    PROVE  /\ ctx' = ctx /\ staleRS' = staleRS /\ rss' = rss /\ pods' = pods
           /\ pc[c] # "idle" /\ pc'[c] \in {"exists", "collision", "persist", "metadata"}
           /\ pc'[c] \in {"exists", "collision"} => pc[c] \in {"create", "exists"}
           /\ pc'[c] = "metadata" => Unsynced(ctx[c]) # {}
BY DEF ReplicaSetsTypeOK, Moves, Goto, MetadataPc, cluster

Seen == [n \in Names |-> IF n \in Owned THEN rss[n] ELSE NoRS]

LEMMA GetEffect ==
    ASSUME ReplicaSetsTypeOK, NEW c \in Controllers, GetRollout(c)
    PROVE  /\ pc[c] = "idle" /\ pc'[c] \in {"create", "persist", "metadata"}
           /\ ctx'[c].wanted = wanted /\ ctx'[c].seen = Seen
           /\ ctx'[c].new = FindNewReplicaSet(Seen, wanted, status.count)
           /\ pc'[c] = "create" => ctx'[c].new = Nil
           /\ pc'[c] = "metadata" => Unsynced(ctx'[c]) # {}
           /\ staleRS' = staleRS /\ rss' = rss /\ pods' = pods /\ apart' = apart
           /\ overlap' = 0 => overlap = 0 /\ c = Leader
<1> DEFINE x == [wanted |-> wanted, metadata |-> metadata, status |-> status, seen |-> Seen,
                 new |-> FindNewReplicaSet(Seen, wanted, status.count),
                 stable |-> IF status.stable \in Owned THEN status.stable ELSE Nil,
                 listed |-> None]
<1>1. /\ pc[c] = "idle" /\ ctx' = [ctx EXCEPT ![c] = x]
      /\ Goto(c, IF TemplateChanged(x) THEN "persist"
                 ELSE IF x.new = Nil THEN "create" ELSE MetadataPc(x))
      /\ UNCHANGED <<rollout, cluster, staleRO, staleRS, edits, faults>>
      /\ IF c = Leader THEN UNCHANGED overlap ELSE MayDisturb /\ overlap' = overlap + 1
  BY DEF GetRollout, Seen
<1>2. overlap' = 0 => overlap = 0 /\ c = Leader
  BY <1>1 DEF ReplicaSetsTypeOK
<1>3. /\ x.wanted = wanted /\ x.seen = Seen
      /\ x.new = FindNewReplicaSet(Seen, wanted, status.count)
  OBVIOUS
<1> HIDE DEF x
<1>4. ctx'[c] = x /\ pc'[c] \in {"create", "persist", "metadata"}
      /\ (pc'[c] = "create" => x.new = Nil) /\ (pc'[c] = "metadata" => Unsynced(x) # {})
  BY <1>1 DEF ReplicaSetsTypeOK, Goto, MetadataPc
<1> QED
  BY <1>1, <1>2, <1>3, <1>4 DEF cluster

\* Create and adoption give the pass the ReplicaSet of that name.
LEMMA FoundEffect ==
    ASSUME ReplicaSetsTypeOK, NEW c \in Controllers, Create(c) \/ AdoptExisting(c)
    PROVE  /\ pc[c] # "idle" /\ pc'[c] = "announce" /\ staleRS' = staleRS
           /\ ctx'[c].wanted = ctx[c].wanted /\ ctx'[c].new = Name(c)
           /\ ctx'[c].seen[Name(c)] = rss'[Name(c)]
           /\ \A n \in Names \ {Name(c)} : ctx'[c].seen[n] = ctx[c].seen[n]
           /\ Name(c) \in Owned' /\ rss'[Name(c)].template = ctx[c].wanted
<1>1. pc[c] # "idle"
  BY DEF Create, AdoptExisting
<1>2. ctx[c] \in Contexts /\ Name(c) \in Names
  BY <1>1, RunningPass
<1>3. pc'[c] = "announce" /\ staleRS' = staleRS
  BY DEF Create, AdoptExisting, Goto, ReplicaSetsTypeOK
<1>4. \E r : ctx' = [ctx EXCEPT ![c].new = Name(c), ![c].seen[Name(c)] = r] /\ r = rss'[Name(c)]
  BY CreateEffect DEF Create, AdoptExisting, cluster
<1>5. /\ ctx'[c].wanted = ctx[c].wanted /\ ctx'[c].new = Name(c)
      /\ ctx'[c].seen[Name(c)] = rss'[Name(c)]
      /\ \A n \in Names \ {Name(c)} : ctx'[c].seen[n] = ctx[c].seen[n]
  BY <1>2, <1>4 DEF Contexts, ReplicaSetsTypeOK
<1>6. Name(c) \in Owned' /\ rss'[Name(c)].template = ctx[c].wanted
  <2>1. CASE Create(c)
    BY <2>1, CreateEffect
  <2>2. CASE AdoptExisting(c)
    BY <2>2, <1>2 DEF AdoptExisting, IsWantedRS, SameTemplate, Owned, cluster
  <2> QED
    BY <2>1, <2>2
<1> QED
  BY <1>1, <1>3, <1>5, <1>6

LEMMA ListEffect ==
    ASSUME ReplicaSetsTypeOK, NEW c \in Controllers, ListPods(c)
    PROVE  LET n == NextToSync(ctx[c])
           IN  /\ pc[c] = "metadata" /\ pc'[c] = "pods" /\ staleRS' = staleRS
               /\ rss' = rss /\ pods' = pods /\ apart' = apart
               /\ ctx[c] \in Contexts /\ ctx'[c] = [ctx[c] EXCEPT !.listed = ctx'[c].listed]
               /\ DOMAIN ctx'[c].listed = PodsOf(n)
               /\ \A p \in PodsOf(n) : ctx'[c].listed[p] = pods[p].meta
<1> DEFINE listed == [p \in PodsOf(NextToSync(ctx[c])) |-> pods[p].meta]
<1>1. pc[c] = "metadata" /\ pc'[c] = "pods" /\ staleRS' = staleRS /\ UNCHANGED cluster
  BY DEF ListPods, Goto, ReplicaSetsTypeOK
<1>2. ctx[c] \in Contexts
  BY <1>1, RunningPass
<1>3. ctx' = [ctx EXCEPT ![c].listed = listed]
  BY DEF ListPods
<1>4. /\ DOMAIN listed = PodsOf(NextToSync(ctx[c]))
      /\ \A p \in PodsOf(NextToSync(ctx[c])) : listed[p] = pods[p].meta
  OBVIOUS
<1> HIDE DEF listed
<1>5. ctx'[c] = [ctx[c] EXCEPT !.listed = listed] /\ ctx'[c].listed = listed
  BY <1>2, <1>3 DEF ReplicaSetsTypeOK, Contexts
<1> QED
  BY <1>1, <1>2, <1>4, <1>5 DEF cluster

LEMMA UpdatePodEffect ==
    ASSUME ReplicaSetsTypeOK, NEW c \in Controllers, NEW p \in Pods, UpdatePod(c, p)
    PROVE  /\ pc[c] = "pods" /\ pc' = pc /\ staleRS' = staleRS /\ rss' = rss
           /\ ctx[c] \in Contexts /\ ctx'[c] = [ctx[c] EXCEPT !.listed = ctx'[c].listed]
           /\ p \in DOMAIN ctx[c].listed /\ pods[p].rs = NextToSync(ctx[c])
           /\ DOMAIN ctx'[c].listed = DOMAIN ctx[c].listed
           /\ \A q \in DOMAIN ctx[c].listed \ {p} : ctx'[c].listed[q] = ctx[c].listed[q]
           /\ pods'[p].rs = pods[p].rs /\ pods'[p].meta = ctx'[c].listed[p]
           /\ \A q \in Pods \ {p} : pods'[q] = pods[q]
           /\ apart'[c] = apart[c] \cup {p} /\ \A d \in Controllers \ {c} : apart'[d] = apart[d]
<1> DEFINE m == PodMetadata(ctx[c], p)
<1>1. /\ pc[c] = "pods" /\ pc' = pc /\ staleRS' = staleRS /\ rss' = rss
      /\ p \in DOMAIN ctx[c].listed /\ pods[p].rs = NextToSync(ctx[c])
      /\ pods' = [pods EXCEPT ![p].meta = m] /\ ctx' = [ctx EXCEPT ![c].listed[p] = m]
      /\ apart' = [apart EXCEPT ![c] = @ \cup {p}]
  BY DEF UpdatePod, UnsyncedPods, PodIsCurrent
<1>2. ctx[c] \in Contexts
  BY <1>1, RunningPass
<1> HIDE DEF m
<1> DEFINE listed == [ctx[c].listed EXCEPT ![p] = m]
<1>3. /\ DOMAIN listed = DOMAIN ctx[c].listed /\ listed[p] = m
      /\ \A q \in DOMAIN ctx[c].listed \ {p} : listed[q] = ctx[c].listed[q]
  BY <1>1
<1>4. ctx' = [ctx EXCEPT ![c] = [ctx[c] EXCEPT !.listed = listed]]
  BY <1>1
<1> HIDE DEF listed
<1>5. ctx'[c] = [ctx[c] EXCEPT !.listed = listed] /\ ctx'[c].listed = listed
  BY <1>2, <1>4 DEF ReplicaSetsTypeOK, Contexts
<1>6. /\ pods'[p].rs = pods[p].rs /\ pods'[p].meta = m
      /\ \A q \in Pods \ {p} : pods'[q] = pods[q]
  BY <1>1 DEF ReplicaSetsTypeOK
<1>7. apart'[c] = apart[c] \cup {p} /\ \A d \in Controllers \ {c} : apart'[d] = apart[d]
  BY <1>1 DEF ReplicaSetsTypeOK
<1> QED
  BY <1>1, <1>2, <1>3, <1>5, <1>6, <1>7

LEMMA UpdatePassEffect ==
    ASSUME ReplicaSetsTypeOK, NEW c \in Controllers, UpdateReplicaSet(c)
    PROVE  LET n == NextToSync(ctx[c])
           IN  /\ pc[c] = "pods" /\ pc'[c] \in {"persist", "metadata"} /\ pods' = pods
               /\ n \notin staleRS[c] /\ staleRS'[c] = staleRS[c] /\ n \in Names
               /\ ctx[c] \in Contexts /\ UnsyncedPods(ctx[c]) = {}
               /\ ctx'[c].wanted = ctx[c].wanted /\ ctx'[c].new = ctx[c].new
               /\ \A m \in Names \ {n} : ctx'[c].seen[m] = ctx[c].seen[m]
               /\ ctx'[c].seen[n].owner = ctx[c].seen[n].owner
               /\ ctx'[c].seen[n].template = ctx[c].seen[n].template
               /\ ctx'[c].seen[n].meta = MetadataFor(ctx[c], n)
               /\ pc'[c] = "metadata" => Unsynced(ctx'[c]) # {}
               /\ apart'[c] = (apart[c] \ SyncedPods(ctx[c])) \cup (PodsOf(n) \ DOMAIN ctx[c].listed)
               /\ \A d \in Controllers \ {c} : apart'[d] = apart[d]
<1> DEFINE n == NextToSync(ctx[c])
           m == MetadataFor(ctx[c], n)
           A == (apart[c] \ SyncedPods(ctx[c])) \cup (PodsOf(n) \ DOMAIN ctx[c].listed)
<1>1. /\ pc[c] = "pods" /\ UnsyncedPods(ctx[c]) = {} /\ n \in Names /\ n \notin staleRS[c]
      /\ ctx' = [ctx EXCEPT ![c].seen[n].meta = m, ![c].listed = None]
      /\ apart' = [apart EXCEPT ![c] = A] /\ WroteRS(c, n) /\ Goto(c, MetadataPc(ctx'[c]))
      /\ pods' = pods
  BY DEF UpdateReplicaSet, Owned
<1>2. ctx[c] \in Contexts
  BY <1>1, RunningPass
<1>3. staleRS'[c] = staleRS[c]
  BY <1>1 DEF WroteRS
<1>4. pc'[c] \in {"persist", "metadata"} /\ (pc'[c] = "metadata" => Unsynced(ctx'[c]) # {})
  BY <1>1 DEF Goto, MetadataPc, ReplicaSetsTypeOK
<1> HIDE DEF n, m, A
<1>5. apart'[c] = A /\ \A d \in Controllers \ {c} : apart'[d] = apart[d]
  BY <1>1 DEF ReplicaSetsTypeOK
<1> DEFINE seen == [ctx[c].seen EXCEPT ![n].meta = m]
<1>6. /\ \A k \in Names \ {n} : seen[k] = ctx[c].seen[k]
      /\ seen[n].owner = ctx[c].seen[n].owner /\ seen[n].template = ctx[c].seen[n].template
      /\ seen[n].meta = m
  <2>1. ctx[c].seen[n] \in ReplicaSets /\ ctx[c].seen \in [Names -> ReplicaSets]
    BY <1>1, <1>2 DEF Contexts
  <2> QED
    BY <1>1, <2>1 DEF ReplicaSets
<1>7. ctx' = [ctx EXCEPT ![c] = [ctx[c] EXCEPT !.seen = seen, !.listed = None]]
  BY <1>1
<1> HIDE DEF seen
<1>8. ctx'[c].seen = seen /\ ctx'[c].wanted = ctx[c].wanted /\ ctx'[c].new = ctx[c].new
  BY <1>2, <1>7 DEF ReplicaSetsTypeOK, Contexts
<1> QED
  BY <1>1, <1>2, <1>3, <1>4, <1>5, <1>6, <1>8 DEF n, m, A

-----------------------------------------------------------------------------
(***************************************************************************)
(* What passes saw is there                                                *)
(***************************************************************************)
LEMMA NextSeenIsThere == ReplicaSetsInv /\ [Next]_vars => SeenIsThere'
<1> SUFFICES ASSUME ReplicaSetsInv, [Next]_vars, NEW c \in Controllers, NEW n \in Names,
                    pc'[c] # "idle", ctx'[c].seen[n].owner = "rollout"
             PROVE  /\ n \in Owned' /\ ctx'[c].seen[n].template = rss'[n].template
                    /\ n \in staleRS'[c] \/ ctx'[c].seen[n].meta = rss'[n].meta
  BY DEF SeenIsThere
<1> DEFINE There == /\ n \in Owned' /\ ctx'[c].seen[n].template = rss'[n].template
                    /\ n \in staleRS'[c] \/ ctx'[c].seen[n].meta = rss'[n].meta
<1>1. ReplicaSetsTypeOK /\ SeenIsThere
  BY DEF ReplicaSetsInv
\* What was seen before, and is as it was or known to be stale.
<1>2. ASSUME pc[c] # "idle", ctx'[c].seen[n] = ctx[c].seen[n], staleRS[c] \subseteq staleRS'[c],
             rss'[n].meta = rss[n].meta \/ n \in staleRS'[c] \/ n \notin Owned
      PROVE  There
  <2>1. n \in Owned /\ ctx[c].seen[n].template = rss[n].template
        /\ (n \in staleRS[c] \/ ctx[c].seen[n].meta = rss[n].meta)
    BY <1>1, <1>2 DEF SeenIsThere
  <2>2. n \in Owned' /\ rss'[n].template = rss[n].template
    BY <1>1, <2>1, OwnedChanges
  <2> QED
    BY <1>2, <2>1, <2>2
<1>3. CASE GetRollout(c)
  <2>1. ctx'[c].seen = Seen /\ rss' = rss
    BY <1>1, <1>3, GetEffect
  <2>2. n \in Owned /\ Seen[n] = rss[n]
    BY <2>1, ReplicaSetsAssumption DEF Seen, NoRS
  <2> QED
    BY <2>1, <2>2 DEF Owned
<1>4. CASE Create(c) \/ AdoptExisting(c)
  <2>1. /\ pc[c] # "idle" /\ staleRS' = staleRS /\ Name(c) \in Owned'
        /\ ctx'[c].seen[Name(c)] = rss'[Name(c)]
        /\ \A m \in Names \ {Name(c)} : ctx'[c].seen[m] = ctx[c].seen[m]
    BY <1>1, <1>4, FoundEffect
  <2>2. \A m \in Names \ {Name(c)} : rss'[m] = rss[m]
    BY <1>1, <1>4, CreateEffect DEF AdoptExisting, cluster
  <2> QED
    BY <1>2, <2>1, <2>2
<1>5. CASE ListPods(c) \/ \E p \in Pods : UpdatePod(c, p)
  <2>1. pc[c] # "idle" /\ staleRS' = staleRS /\ rss' = rss /\ ctx[c] \in Contexts
        /\ ctx'[c] = [ctx[c] EXCEPT !.listed = ctx'[c].listed]
    BY <1>1, <1>5, ListEffect, UpdatePodEffect
  <2>2. ctx'[c].seen = ctx[c].seen
    BY <2>1 DEF Contexts
  <2> QED
    BY <1>2, <2>1, <2>2
<1>6. CASE UpdateReplicaSet(c)
  <2> DEFINE m == NextToSync(ctx[c])
  <2>1. /\ pc[c] # "idle" /\ staleRS'[c] = staleRS[c]
        /\ \A k \in Names \ {m} : ctx'[c].seen[k] = ctx[c].seen[k]
        /\ ctx'[c].seen[m].owner = ctx[c].seen[m].owner
        /\ ctx'[c].seen[m].template = ctx[c].seen[m].template
        /\ ctx'[c].seen[m].meta = MetadataFor(ctx[c], m)
    BY <1>1, <1>6, UpdatePassEffect
  <2>2. /\ \A k \in Names \ {m} : rss'[k] = rss[k]
        /\ rss'[m].meta = MetadataFor(ctx[c], m)
    BY <1>1, <1>6, UpdateEffect
  <2> HIDE DEF m
  <2>3. CASE n # m
    BY <1>2, <2>1, <2>2, <2>3
  <2>4. CASE n = m
    <3>1. n \in Owned /\ ctx[c].seen[n].template = rss[n].template
      BY <1>1, <2>1, <2>4 DEF SeenIsThere
    <3>2. n \in Owned' /\ rss'[n].template = rss[n].template
      BY <1>1, <3>1, OwnedChanges
    <3> QED
      BY <2>1, <2>2, <2>4, <3>1, <3>2
  <2> QED
    BY <2>3, <2>4
<1>7. CASE Moves(c)
  BY <1>1, <1>2, <1>7, MovesEffect
<1>8. CASE Ends(c)
  BY <1>1, <1>8, EndsEffect
<1>9. ASSUME NEW d \in Controllers \ {c}, PassStep(d)
      PROVE  There
  <2>1. /\ pc'[c] = pc[c] /\ ctx'[c] = ctx[c]
        /\ staleRS'[c] = IF UpdateReplicaSet(d) /\ pc[c] # "idle"
                         THEN staleRS[c] \cup {NextToSync(ctx[d])} ELSE staleRS[c]
    BY <1>1, <1>9, OthersStay
  <2>2. CASE UpdateReplicaSet(d)
    <3>1. \A k \in Names \ {NextToSync(ctx[d])} : rss'[k] = rss[k]
      BY <1>1, <2>2, UpdateEffect
    <3>2. staleRS'[c] = staleRS[c] \cup {NextToSync(ctx[d])}
      BY <2>1, <2>2
    <3> QED
      BY <1>2, <2>1, <3>1, <3>2
  <2>3. CASE Create(d)
    <3>1. \A k \in Names \ {Name(d)} : rss'[k] = rss[k]
      BY <1>1, <2>3, CreateEffect
    <3>2. Name(d) \notin Owned
      BY <1>1, <2>3, CreateEffect
    <3>3. staleRS[c] \subseteq staleRS'[c]
      BY <2>1
    <3> QED
      BY <1>2, <2>1, <3>1, <3>2, <3>3
  <2>4. CASE ~UpdateReplicaSet(d) /\ ~Create(d)
    <3>1. rss' = rss
      <4>1. CASE Moves(d) \/ Ends(d)
        BY <4>1 DEF Moves, Ends, cluster
      <4>2. CASE ~Moves(d) /\ ~Ends(d)
        BY <1>9, <2>4, <4>2 DEF PassStep, GetRollout, AdoptExisting, ListPods, UpdatePod, cluster
      <4> QED
        BY <4>1, <4>2
    <3> QED
      BY <1>2, <2>1, <2>4, <3>1
  <2> QED
    BY <2>2, <2>3, <2>4
<1>10. ASSUME ClusterStep
       PROVE  There
  <2>1. pc'[c] = pc[c] /\ ctx'[c] = ctx[c] /\ staleRS[c] \subseteq staleRS'[c]
    BY <1>1, <1>10, PassesStay
  <2>2. rss'[n].meta = rss[n].meta \/ n \notin Owned
    <3>1. ASSUME NEW m \in Names, DeleteForeign(m)
          PROVE  rss'[n] = rss[n] \/ n \notin Owned
      BY <1>1, <3>1 DEF DeleteForeign, Owned, ReplicaSetsTypeOK
    <3>2. ASSUME (\E m \in Names : CreatePod(m)) \/ (\E p \in Pods : DeletePod(p)) \/ Quiet
          PROVE  rss' = rss
      BY <3>2 DEF CreatePod, DeletePod, Quiet, cluster
    <3> QED
      BY <1>10, <3>1, <3>2 DEF ClusterStep
  <2> QED
    BY <1>2, <2>1, <2>2
<1> HIDE DEF There
<1>11. PassStep(c) => There
  BY <1>3, <1>4, <1>5, <1>6, <1>7, <1>8 DEF PassStep, There
<1>12. There
  BY <1>9, <1>10, <1>11, StepKinds
<1> QED
  BY <1>12 DEF There

LEMMA NextNewIsWanted == ReplicaSetsInv /\ [Next]_vars => NewIsWanted'
<1> SUFFICES ASSUME ReplicaSetsInv, [Next]_vars, NEW c \in Controllers,
                    pc'[c] # "idle", ctx'[c].new # Nil
             PROVE  ctx'[c].new \in Owned' /\ rss'[ctx'[c].new].template = ctx'[c].wanted
  BY DEF NewIsWanted
<1> DEFINE Wanted == ctx'[c].new \in Owned' /\ rss'[ctx'[c].new].template = ctx'[c].wanted
<1>1. ReplicaSetsTypeOK /\ NewIsWanted
  BY DEF ReplicaSetsInv
\* What it had before is still there.
<1>2. ASSUME pc[c] # "idle", ctx'[c].new = ctx[c].new, ctx'[c].wanted = ctx[c].wanted
      PROVE  Wanted
  <2>1. ctx[c].new \in Owned /\ rss[ctx[c].new].template = ctx[c].wanted
    BY <1>1, <1>2 DEF NewIsWanted
  <2> QED
    BY <1>1, <1>2, <2>1, OwnedChanges
<1>3. CASE GetRollout(c)
  <2> DEFINE n == FindNewReplicaSet(Seen, wanted, status.count)
  <2>1. ctx'[c].new = n /\ ctx'[c].wanted = wanted /\ rss' = rss
    BY <1>1, <1>3, GetEffect
  <2>2. wanted \in Templates /\ status.count \in Counts
    BY <1>1 DEF ReplicaSetsTypeOK, Statuses
  <2>3. n \in Names /\ Seen[n].owner = "rollout"
        /\ (Seen[n].template = wanted \/ n = HashOf(wanted, status.count))
    BY <2>1, <2>2, FindsNew
  <2> HIDE DEF n
  <2>4. n \in Owned /\ Seen[n] = rss[n]
    BY <2>3, ReplicaSetsAssumption DEF Seen, NoRS
  <2>5. rss[n].template = wanted
    <3>1. CASE Seen[n].template = wanted
      BY <2>4, <3>1
    <3>2. CASE n = HashOf(wanted, status.count)
      <4>1. PICK i \in Counts : n = HashOf(rss[n].template, i)
        BY <2>4 DEF ReplicaSetsInv, NamedByHash
      <4>2. rss[n].template \in Templates
        BY <2>4 DEF ReplicaSetsInv, NamedByHash
      <4> QED
        BY <2>2, <3>2, <4>1, <4>2, HashesDiffer
    <3> QED
      BY <2>3, <3>1, <3>2
  <2> QED
    BY <2>1, <2>4, <2>5 DEF Owned
<1>4. CASE Create(c) \/ AdoptExisting(c)
  BY <1>1, <1>4, FoundEffect
<1>5. CASE ListPods(c) \/ \E p \in Pods : UpdatePod(c, p)
  <2>1. /\ pc[c] # "idle" /\ ctx[c] \in Contexts
        /\ ctx'[c] = [ctx[c] EXCEPT !.listed = ctx'[c].listed]
    BY <1>1, <1>5, ListEffect, UpdatePodEffect
  <2>2. ctx'[c].new = ctx[c].new /\ ctx'[c].wanted = ctx[c].wanted
    BY <2>1 DEF Contexts
  <2> QED
    BY <1>2, <2>1, <2>2
<1>6. CASE UpdateReplicaSet(c)
  BY <1>1, <1>2, <1>6, UpdatePassEffect
<1>7. CASE Moves(c)
  BY <1>1, <1>2, <1>7, MovesEffect
<1>8. CASE Ends(c)
  BY <1>1, <1>8, EndsEffect
<1>9. ASSUME ClusterStep \/ \E d \in Controllers \ {c} : PassStep(d)
      PROVE  Wanted
  BY <1>1, <1>2, <1>9, OthersStay, PassesStay
<1> HIDE DEF Wanted
<1>10. PassStep(c) => Wanted
  BY <1>3, <1>4, <1>5, <1>6, <1>7, <1>8 DEF PassStep, Wanted
<1>11. Wanted
  BY <1>9, <1>10, StepKinds
<1> QED
  BY <1>11 DEF Wanted

LEMMA NextSyncsOne == ReplicaSetsInv /\ [Next]_vars => SyncsOne'
<1> SUFFICES ASSUME ReplicaSetsInv, [Next]_vars, NEW c \in Controllers,
                    pc'[c] \in {"metadata", "pods"}
             PROVE  Unsynced(ctx'[c]) # {}
  BY DEF SyncsOne, Unsynced, MetadataFor
<1>1. ReplicaSetsTypeOK /\ SyncsOne
  BY DEF ReplicaSetsInv
<1>2. CASE GetRollout(c) \/ UpdateReplicaSet(c)
  BY <1>1, <1>2, GetEffect, UpdatePassEffect
<1>3. CASE Create(c) \/ AdoptExisting(c) \/ Ends(c)
  BY <1>1, <1>3, FoundEffect, EndsEffect
<1>4. CASE ListPods(c) \/ \E p \in Pods : UpdatePod(c, p)
  <2>1. /\ pc[c] \in {"metadata", "pods"} /\ ctx[c] \in Contexts
        /\ ctx'[c] = [ctx[c] EXCEPT !.listed = ctx'[c].listed]
    BY <1>1, <1>4, ListEffect, UpdatePodEffect
  <2>2. Unsynced(ctx'[c]) = Unsynced(ctx[c])
    <3>1. /\ ctx'[c].seen = ctx[c].seen /\ ctx'[c].new = ctx[c].new
          /\ ctx'[c].stable = ctx[c].stable /\ ctx'[c].status = ctx[c].status
          /\ ctx'[c].metadata = ctx[c].metadata
      BY <2>1 DEF Contexts
    <3> QED
      BY <3>1, RolesOnly
  <2> QED
    BY <1>1, <2>1, <2>2 DEF SyncsOne
<1>5. CASE Moves(c)
  BY <1>1, <1>5, MovesEffect
<1>6. CASE ClusterStep \/ \E d \in Controllers \ {c} : PassStep(d)
  BY <1>1, <1>6, OthersStay, PassesStay DEF SyncsOne
<1> QED
  BY <1>2, <1>3, <1>4, <1>5, <1>6, StepKinds DEF PassStep

-----------------------------------------------------------------------------
(***************************************************************************)
(* One ReplicaSet for a template                                           *)
(***************************************************************************)
\* While the leader is alone, only it makes steps of a pass.
LEMMA AloneBefore ==
    ASSUME ReplicaSetsInv, [Next]_vars, overlap' = 0
    PROVE  /\ overlap = 0 /\ \A c \in Controllers \ {Leader} : ~PassStep(c)
           /\ \A c \in Controllers : PassStep(c) => c = Leader
<1>1. ReplicaSetsTypeOK
  BY DEF ReplicaSetsInv
<1>2. ASSUME NEW c \in Controllers, GetRollout(c)
      PROVE  overlap = 0 /\ c = Leader
  BY <1>1, <1>2, GetEffect
<1>3. overlap = 0
  <2>1. ASSUME NEW c \in Controllers, PassStep(c), ~GetRollout(c)
        PROVE  overlap' = overlap
    BY <2>1 DEF PassStep, Create, AdoptExisting, ListPods, UpdatePod, UpdateReplicaSet,
                Moves, Ends, bounds
  <2>2. ClusterStep => overlap' = overlap
    BY DEF ClusterStep, DeleteForeign, CreatePod, DeletePod, Quiet, bounds
  <2> QED
    BY <1>2, <2>1, <2>2, StepKinds
<1>4. ASSUME NEW c \in Controllers, PassStep(c), ~GetRollout(c)
      PROVE  pc[c] # "idle"
  BY <1>4 DEF PassStep, Create, AdoptExisting, ListPods, UpdatePod, UpdateReplicaSet, Moves, Ends
<1>5. \A c \in Controllers \ {Leader} : pc[c] = "idle"
  BY <1>3 DEF ReplicaSetsInv, LeaderCreates
<1>6. \A c \in Controllers : PassStep(c) => c = Leader
  BY <1>2, <1>4, <1>5
<1> QED
  BY <1>3, <1>6

LEMMA NextLeaderCreates == ReplicaSetsInv /\ [Next]_vars => LeaderCreates'
<1> SUFFICES ASSUME ReplicaSetsInv, [Next]_vars, overlap' = 0
             PROVE  /\ \A c \in Controllers \ {Leader} : pc'[c] = "idle"
                    /\ pc'[Leader] \in {"create", "exists", "collision"} =>
                          \A n \in Owned' : rss'[n].template # ctx'[Leader].wanted
  BY DEF LeaderCreates
<1>1. ReplicaSetsTypeOK /\ Leader \in Controllers
  BY DEF ReplicaSetsInv, Controllers
<1>2. /\ overlap = 0 /\ \A c \in Controllers \ {Leader} : ~PassStep(c)
      /\ \A c \in Controllers : PassStep(c) => c = Leader
  BY AloneBefore
<1>3. /\ \A c \in Controllers \ {Leader} : pc[c] = "idle"
      /\ pc[Leader] \in {"create", "exists", "collision"} =>
            \A n \in Owned : rss[n].template # ctx[Leader].wanted
  BY <1>2 DEF ReplicaSetsInv, LeaderCreates
<1>4. ASSUME NEW c \in Controllers \ {Leader}
      PROVE  pc'[c] = "idle"
  BY <1>1, <1>2, <1>3, OthersStay, PassesStay, StepKinds
<1>5. ASSUME pc'[Leader] \in {"create", "exists", "collision"}, NEW n \in Owned'
      PROVE  rss'[n].template # ctx'[Leader].wanted
  <2>1. ~Create(Leader) /\ \A c \in Controllers : ~Create(c)
    <3>1. ~Create(Leader)
      BY <1>1, <1>5, FoundEffect
    <3> QED
      BY <1>2, <3>1 DEF PassStep
  <2>2. n \in Owned /\ rss'[n].template = rss[n].template
    BY <1>1, <2>1, OwnedChanges
  <2>3. CASE GetRollout(Leader)
    <3>1. /\ FindNewReplicaSet(Seen, wanted, status.count) = Nil /\ ctx'[Leader].wanted = wanted
          /\ rss' = rss
      BY <1>1, <1>5, <2>3, GetEffect
    <3>2. wanted \in Templates /\ status.count \in Counts
      BY <1>1 DEF ReplicaSetsTypeOK, Statuses
    <3>3. Seen[n] = rss[n] /\ n \in Names /\ rss[n].owner = "rollout"
      BY <2>2 DEF Seen, Owned
    <3> QED
      BY <3>1, <3>2, <3>3, FindsNew
  <2>4. CASE ~GetRollout(Leader)
    <3>1. ctx'[Leader].wanted = ctx[Leader].wanted
          /\ pc[Leader] \in {"create", "exists", "collision"}
      <4>1. CASE PassStep(Leader)
        <5>1. Moves(Leader)
          BY <1>1, <1>5, <2>1, <2>4, <4>1, FoundEffect, ListEffect, UpdatePodEffect,
             UpdatePassEffect, EndsEffect DEF PassStep
        <5> QED
          BY <1>1, <1>5, <5>1, MovesEffect
      <4>2. CASE ClusterStep
        BY <1>1, <1>5, <4>2, PassesStay
      <4> QED
        BY <1>2, <4>1, <4>2, StepKinds
    <3> QED
      BY <1>3, <2>2, <3>1
  <2> QED
    BY <2>3, <2>4
<1> QED
  BY <1>4, <1>5

LEMMA NextOneReplicaSet == ReplicaSetsInv /\ [Next]_vars => OneReplicaSetPerTemplate'
<1> SUFFICES ASSUME ReplicaSetsInv, [Next]_vars, overlap' = 0, NEW m \in Owned', NEW n \in Owned',
                    rss'[m].template = rss'[n].template
             PROVE  m = n
  BY DEF OneReplicaSetPerTemplate
<1>1. ReplicaSetsTypeOK /\ Leader \in Controllers
  BY DEF ReplicaSetsInv, Controllers
<1>2. overlap = 0 /\ \A c \in Controllers : PassStep(c) => c = Leader
  BY AloneBefore
<1>3. \A k, l \in Owned : rss[k].template = rss[l].template => k = l
  BY <1>2 DEF ReplicaSetsInv, OneReplicaSetPerTemplate
<1>4. CASE Create(Leader)
  <2>1. /\ Owned' = Owned \cup {Name(Leader)} /\ rss'[Name(Leader)].template = ctx[Leader].wanted
        /\ Name(Leader) \notin Owned
    BY <1>1, <1>4, CreateEffect
  <2>2. \A k \in Owned : rss[k].template # ctx[Leader].wanted
    BY <1>2, <1>4 DEF ReplicaSetsInv, LeaderCreates, Create
  <2>3. \A k \in Owned : rss'[k].template = rss[k].template
    BY <1>1, OwnedChanges
  <2> QED
    BY <1>3, <2>1, <2>2, <2>3
<1>5. CASE ~Create(Leader)
  <2>1. \A c \in Controllers : ~Create(c)
    BY <1>2, <1>5 DEF PassStep
  <2> QED
    BY <1>1, <1>3, <2>1, OwnedChanges
<1> QED
  BY <1>4, <1>5

-----------------------------------------------------------------------------
(***************************************************************************)
(* The metadata of the pods                                                *)
(***************************************************************************)
LEMMA ClusterSame ==
    ASSUME \/ Quiet
           \/ \E c \in Controllers : GetRollout(c) \/ AdoptExisting(c) \/ ListPods(c)
                                    \/ Moves(c) \/ Ends(c)
    PROVE  rss' = rss /\ pods' = pods /\ apart' = apart
BY DEF GetRollout, AdoptExisting, ListPods, Moves, Ends, Quiet, cluster

\* Of what a pass listed and what it wants, the pods it leaves apart follow.
LEMMA NotSyncedIsApart ==
    ASSUME ReplicaSetsInv, NEW c \in Controllers, UpdateReplicaSet(c),
           NEW p \in DOMAIN ctx[c].listed, pods[p].rs = NextToSync(ctx[c]),
           pods[p].meta # MetadataFor(ctx[c], NextToSync(ctx[c]))
    PROVE  \E d \in Controllers : p \in apart'[d]
<1> DEFINE x == ctx[c]
           n == NextToSync(x)
           m == MetadataFor(x, n)
<1>1. ReplicaSetsTypeOK
  BY DEF ReplicaSetsInv
<1>2. /\ pc[c] = "pods" /\ n \notin staleRS[c] /\ n \in Names /\ x \in Contexts
      /\ UnsyncedPods(x) = {}
      /\ apart'[c] = (apart[c] \ SyncedPods(x)) \cup (PodsOf(n) \ DOMAIN x.listed)
      /\ \A d \in Controllers \ {c} : apart'[d] = apart[d]
  BY <1>1, UpdatePassEffect
<1>3. /\ pods[p].meta # x.listed[p] => \E d \in Controllers \ {c} : p \in apart[d]
      /\ x.listed[p] # x.seen[n].meta => \E d \in Controllers : p \in apart[d]
  BY <1>2 DEF ReplicaSetsInv, ListedAreThere, ListedIsThere
<1>4. PodMetadata(x, p) = x.listed[p]
  BY <1>2 DEF UnsyncedPods
<1>5. m \in Metas /\ x.seen[n].meta \in Metas
  BY <1>2, MetadataForType DEF Contexts, ReplicaSets
<1>6. CASE x.listed[p] = m
  BY <1>2, <1>3, <1>6
<1>7. CASE x.listed[p] # m
  <2>1. p \notin SyncedPods(x)
    BY <1>7 DEF SyncedPods
  <2>2. x.listed[p] # x.seen[n].meta
    BY <1>4, <1>5, <1>7, SyncSame DEF PodMetadata
  <2> QED
    BY <1>2, <1>3, <2>1, <2>2
<1> QED
  BY <1>6, <1>7

LEMMA NextPodsFollow == ReplicaSetsInv /\ [Next]_vars => PodsFollowReplicaSets'
<1> SUFFICES ASSUME ReplicaSetsInv, [Next]_vars, NEW p \in Pods,
                    pods'[p].rs \in Owned', pods'[p].meta # rss'[pods'[p].rs].meta
             PROVE  \E c \in Controllers : p \in apart'[c]
  BY DEF PodsFollowReplicaSets
<1>1. ReplicaSetsTypeOK /\ PodsOfOwned /\ PodsFollowReplicaSets
  BY DEF ReplicaSetsInv
<1>2. ASSUME pods'[p] = pods[p], pods[p].rs \in Owned => rss'[pods[p].rs].meta = rss[pods[p].rs].meta
      PROVE  \E c \in Controllers : p \in apart[c]
  <2>1. pods[p].rs \in Owned
    BY <1>1, <1>2 DEF PodsOfOwned, Owned
  <2> QED
    BY <1>1, <1>2, <2>1 DEF PodsFollowReplicaSets
<1>3. ASSUME NEW c \in Controllers, Create(c)
      PROVE  \E d \in Controllers : p \in apart'[d]
  <2>1. pods' = pods /\ apart' = apart
    BY <1>3 DEF Create
  <2>2. Name(c) \notin Owned /\ \A n \in Names \ {Name(c)} : rss'[n] = rss[n]
    BY <1>1, <1>3, CreateEffect
  <2> QED
    BY <1>2, <2>1, <2>2 DEF Owned
<1>4. ASSUME NEW c \in Controllers, NEW q \in Pods, UpdatePod(c, q)
      PROVE  \E d \in Controllers : p \in apart'[d]
  <2>1. /\ rss' = rss /\ \A k \in Pods \ {q} : pods'[k] = pods[k]
        /\ apart'[c] = apart[c] \cup {q} /\ \A d \in Controllers \ {c} : apart'[d] = apart[d]
    BY <1>1, <1>4, UpdatePodEffect
  <2> QED
    BY <1>2, <2>1
<1>5. ASSUME NEW c \in Controllers, UpdateReplicaSet(c)
      PROVE  \E d \in Controllers : p \in apart'[d]
  <2> DEFINE n == NextToSync(ctx[c])
  <2>1. /\ pc[c] = "pods" /\ pods' = pods /\ n \in Names
        /\ apart'[c] = (apart[c] \ SyncedPods(ctx[c])) \cup (PodsOf(n) \ DOMAIN ctx[c].listed)
        /\ \A d \in Controllers \ {c} : apart'[d] = apart[d]
    BY <1>1, <1>5, UpdatePassEffect
  <2>2. /\ \A m \in Names \ {n} : rss'[m] = rss[m]
        /\ rss'[n].meta = MetadataFor(ctx[c], n)
    BY <1>1, <1>5, UpdateEffect
  <2> HIDE DEF n
  <2>3. CASE pods[p].rs # n
    <3>1. pods[p].rs \in Names
      BY <2>1 DEF Owned
    <3>2. PICK d \in Controllers : p \in apart[d]
      BY <1>2, <2>1, <2>2, <2>3, <3>1
    <3>3. p \notin SyncedPods(ctx[c])
      <4>1. p \in DOMAIN ctx[c].listed => pods[p].rs \in {n, "gone"}
        BY <2>1 DEF ReplicaSetsInv, ListedAreThere, ListedIsThere, n
      <4> QED
        BY <2>3, <3>1, <4>1, ReplicaSetsAssumption DEF SyncedPods
    <3> QED
      BY <2>1, <3>2, <3>3
  <2>4. CASE pods[p].rs = n /\ p \in DOMAIN ctx[c].listed
    BY <1>5, <2>1, <2>2, <2>4, NotSyncedIsApart DEF n
  <2>5. CASE pods[p].rs = n /\ p \notin DOMAIN ctx[c].listed
    BY <2>1, <2>5 DEF PodsOf
  <2> QED
    BY <2>3, <2>4, <2>5
<1>6. ASSUME NEW n \in Names, DeleteForeign(n)
      PROVE  \E d \in Controllers : p \in apart'[d]
  <2>1. pods' = pods /\ apart' = apart /\ n \notin Owned /\ \A m \in Names \ {n} : rss'[m] = rss[m]
    BY <1>1, <1>6 DEF DeleteForeign, Owned, ReplicaSetsTypeOK
  <2> QED
    BY <1>2, <2>1 DEF Owned
<1>7. ASSUME NEW n \in Names, CreatePod(n)
      PROVE  \E d \in Controllers : p \in apart'[d]
  <2>1. PICK q : pods' = [pods EXCEPT ![q] = [rs |-> n, meta |-> rss[n].meta]]
    BY <1>7 DEF CreatePod
  <2>2. rss' = rss /\ apart' = apart
    BY <1>7 DEF CreatePod
  <2>3. CASE p = q
    <3>1. pods'[p].rs = n /\ pods'[p].meta = rss[n].meta
      BY <1>1, <2>1, <2>3 DEF ReplicaSetsTypeOK
    <3> QED
      BY <2>2, <3>1
  <2>4. CASE p # q
    BY <1>1, <1>2, <2>1, <2>2, <2>4 DEF ReplicaSetsTypeOK
  <2> QED
    BY <2>3, <2>4
<1>8. ASSUME NEW q \in Pods, DeletePod(q)
      PROVE  \E d \in Controllers : p \in apart'[d]
  <2>1. /\ rss' = rss /\ pods' = [pods EXCEPT ![q] = Gone]
        /\ apart' = [d \in Controllers |-> apart[d] \ {q}]
    BY <1>8 DEF DeletePod
  <2>2. p # q
    <3>1. pods'[q].rs = "gone"
      BY <1>1, <2>1 DEF ReplicaSetsTypeOK, Gone
    <3> QED
      BY <3>1, ReplicaSetsAssumption DEF Owned
  <2>3. pods'[p] = pods[p]
    BY <1>1, <2>1, <2>2 DEF ReplicaSetsTypeOK
  <2> QED
    BY <1>2, <2>1, <2>2, <2>3
<1>9. ASSUME rss' = rss /\ pods' = pods /\ apart' = apart
      PROVE  \E d \in Controllers : p \in apart'[d]
  BY <1>2, <1>9
<1> QED
  BY <1>3, <1>4, <1>5, <1>6, <1>7, <1>8, <1>9, ClusterSame, StepKinds DEF PassStep, ClusterStep

\* What a pass has just listed or written follows its ReplicaSet.
LEMMA ListedNow ==
    ASSUME ReplicaSetsInv, [Next]_vars, NEW c \in Controllers, ListPods(c),
           NEW p \in DOMAIN ctx'[c].listed
    PROVE  ListedIsThere(c, p)'
<1> DEFINE n == NextToSync(ctx[c])
<1>1. ReplicaSetsTypeOK
  BY DEF ReplicaSetsInv
<1>2. /\ pc[c] = "metadata" /\ staleRS' = staleRS /\ rss' = rss /\ pods' = pods /\ apart' = apart
      /\ ctx[c] \in Contexts /\ ctx'[c] = [ctx[c] EXCEPT !.listed = ctx'[c].listed]
      /\ DOMAIN ctx'[c].listed = PodsOf(n)
      /\ \A q \in PodsOf(n) : ctx'[c].listed[q] = pods[q].meta
  BY <1>1, ListEffect
<1>3. /\ ctx'[c].seen = ctx[c].seen /\ ctx'[c].new = ctx[c].new
      /\ ctx'[c].stable = ctx[c].stable /\ ctx'[c].status = ctx[c].status
      /\ ctx'[c].metadata = ctx[c].metadata
  BY <1>2 DEF Contexts
<1>4. NextToSync(ctx'[c]) = n
  BY <1>3, RolesOnly
<1>5. n \in Names /\ ctx[c].seen[n].owner = "rollout"
  BY <1>2, NextIsUnsynced DEF ReplicaSetsInv, SyncsOne
<1>6. p \in Pods /\ pods[p].rs = n /\ ctx'[c].listed[p] = pods[p].meta
  BY <1>2 DEF PodsOf
<1>7. n \in Owned /\ (n \in staleRS[c] \/ ctx[c].seen[n].meta = rss[n].meta)
  BY <1>2, <1>5 DEF ReplicaSetsInv, SeenIsThere
<1>8. pods[p].meta # rss[n].meta => \E d \in Controllers : p \in apart[d]
  BY <1>6, <1>7 DEF ReplicaSetsInv, PodsFollowReplicaSets
<1> HIDE DEF n
<1> QED
  BY <1>2, <1>3, <1>4, <1>6, <1>7, <1>8 DEF ListedIsThere

LEMMA NextListedAreThere == ReplicaSetsInv /\ [Next]_vars => ListedAreThere'
<1> SUFFICES ASSUME ReplicaSetsInv, [Next]_vars, NEW c \in Controllers, pc'[c] = "pods",
                    NEW p \in DOMAIN ctx'[c].listed
             PROVE  ListedIsThere(c, p)'
  BY DEF ListedAreThere
<1>1. ReplicaSetsTypeOK
  BY DEF ReplicaSetsInv
<1>2. CASE \E q \in Pods : UpdatePod(c, q)
  <2> DEFINE n == NextToSync(ctx[c])
  <2>1. PICK q \in Pods : UpdatePod(c, q)
    BY <1>2
  <2>2. /\ pc[c] = "pods" /\ staleRS' = staleRS
        /\ ctx[c] \in Contexts /\ ctx'[c] = [ctx[c] EXCEPT !.listed = ctx'[c].listed]
        /\ q \in DOMAIN ctx[c].listed /\ pods[q].rs = n
        /\ DOMAIN ctx'[c].listed = DOMAIN ctx[c].listed
        /\ \A k \in DOMAIN ctx[c].listed \ {q} : ctx'[c].listed[k] = ctx[c].listed[k]
        /\ pods'[q].rs = pods[q].rs /\ pods'[q].meta = ctx'[c].listed[q]
        /\ \A k \in Pods \ {q} : pods'[k] = pods[k]
        /\ apart'[c] = apart[c] \cup {q} /\ \A d \in Controllers \ {c} : apart'[d] = apart[d]
    BY <1>1, <2>1, UpdatePodEffect
  <2>3. /\ ctx'[c].seen = ctx[c].seen /\ ctx'[c].new = ctx[c].new
        /\ ctx'[c].stable = ctx[c].stable /\ ctx'[c].status = ctx[c].status
        /\ ctx'[c].metadata = ctx[c].metadata
    BY <2>2 DEF Contexts
  <2>4. NextToSync(ctx'[c]) = n
    BY <2>3, RolesOnly
  <2>5. ListedIsThere(c, p) /\ p \in Pods
    BY <2>2, ListedType DEF ReplicaSetsInv, ListedAreThere
  <2> HIDE DEF n
  <2>6. CASE p = q
    BY <2>2, <2>3, <2>4, <2>6 DEF ListedIsThere
  <2>7. CASE p # q
    <3>1. pods'[p] = pods[p] /\ ctx'[c].listed[p] = ctx[c].listed[p]
      BY <2>2, <2>5, <2>7
    <3>2. /\ pods[p].rs \in {n, "gone"}
          /\ pods[p].rs = n /\ n \notin staleRS[c] =>
                /\ pods[p].meta # ctx[c].listed[p] => \E d \in Controllers \ {c} : p \in apart[d]
                /\ ctx[c].listed[p] # ctx[c].seen[n].meta => \E d \in Controllers : p \in apart[d]
      BY <2>5 DEF ListedIsThere, n
    <3> QED
      BY <2>2, <2>3, <2>4, <3>1, <3>2 DEF ListedIsThere
  <2> QED
    BY <2>6, <2>7
\* The steps of others.
<1>3. ASSUME ClusterStep \/ \E d \in Controllers \ {c} : PassStep(d)
      PROVE  ListedIsThere(c, p)'
  <2> DEFINE n == NextToSync(ctx[c])
  <2>1. pc[c] = "pods" /\ ctx'[c] = ctx[c] /\ staleRS[c] \subseteq staleRS'[c]
    BY <1>1, <1>3, OthersStay, PassesStay
  <2>2. ctx[c] \in Contexts /\ p \in Pods /\ n \in Names /\ n # Nil /\ n # "gone"
    BY <1>1, <2>1, RunningPass, ListedType, NextIsUnsynced, ReplicaSetsAssumption
    DEF ReplicaSetsInv, SyncsOne
  <2>3. /\ pods[p].rs \in {n, "gone"}
        /\ pods[p].rs = n /\ n \notin staleRS[c] =>
              /\ pods[p].meta # ctx[c].listed[p] => \E d \in Controllers \ {c} : p \in apart[d]
              /\ ctx[c].listed[p] # ctx[c].seen[n].meta => \E d \in Controllers : p \in apart[d]
    BY <2>1 DEF ReplicaSetsInv, ListedAreThere, ListedIsThere
  <2>4. NextToSync(ctx'[c]) = n
    BY <2>1, RolesOnly
  <2> HIDE DEF n
  <2>5. ASSUME pods'[p] = pods[p],
               \/ n \in staleRS'[c]
               \/ pods[p].rs = n => \A d \in Controllers : p \in apart[d] => p \in apart'[d]
        PROVE  ListedIsThere(c, p)'
    BY <2>1, <2>3, <2>4, <2>5 DEF ListedIsThere
  <2>6. ASSUME NEW d \in Controllers \ {c}, UpdateReplicaSet(d)
        PROVE  ListedIsThere(c, p)'
    <3> DEFINE m == NextToSync(ctx[d])
    <3>1. /\ pc[d] = "pods" /\ pods' = pods
          /\ apart'[d] = (apart[d] \ SyncedPods(ctx[d])) \cup (PodsOf(m) \ DOMAIN ctx[d].listed)
          /\ \A e \in Controllers \ {d} : apart'[e] = apart[e]
      BY <1>1, <2>6, UpdatePassEffect
    <3>2. staleRS'[c] = staleRS[c] \cup {m}
      BY <1>1, <2>1, <2>6, OthersStay DEF PassStep
    <3>3. p \in DOMAIN ctx[d].listed => pods[p].rs \in {m, "gone"}
      BY <3>1 DEF ReplicaSetsInv, ListedAreThere, ListedIsThere
    <3> HIDE DEF m
    <3>4. n # m /\ pods[p].rs = n => p \notin SyncedPods(ctx[d])
      BY <2>2, <3>3 DEF SyncedPods
    <3>5. CASE n = m
      BY <2>5, <3>1, <3>2, <3>5
    <3>6. CASE n # m
      <4>1. pods[p].rs = n => \A e \in Controllers : p \in apart[e] => p \in apart'[e]
        BY <3>1, <3>4, <3>6
      <4> QED
        BY <2>5, <3>1, <4>1
    <3> QED
      BY <3>5, <3>6
  <2>7. ASSUME NEW d \in Controllers \ {c}, NEW q \in Pods, UpdatePod(d, q)
        PROVE  ListedIsThere(c, p)'
    <3>1. /\ pods'[q].rs = pods[q].rs /\ \A k \in Pods \ {q} : pods'[k] = pods[k]
          /\ apart'[d] = apart[d] \cup {q} /\ \A e \in Controllers \ {d} : apart'[e] = apart[e]
      BY <1>1, <2>7, UpdatePodEffect
    <3>2. CASE p = q
      BY <2>1, <2>3, <2>4, <3>1, <3>2 DEF ListedIsThere
    <3>3. CASE p # q
      BY <2>2, <2>5, <3>1, <3>3
    <3> QED
      BY <3>2, <3>3
  <2>8. ASSUME NEW k \in Names, CreatePod(k)
        PROVE  ListedIsThere(c, p)'
    <3> DEFINE unborn == {q \in Pods : pods[q] = Unborn}
    <3>1. /\ FirstOf(unborn) \in unborn /\ apart' = apart
          /\ pods' = [pods EXCEPT ![FirstOf(unborn)] = [rs |-> k, meta |-> rss[k].meta]]
      BY <2>8 DEF CreatePod, FirstOf
    <3>2. p \notin unborn
      BY <2>2, <2>3, ReplicaSetsAssumption DEF Unborn
    <3> HIDE DEF unborn
    <3>3. pods'[p] = pods[p]
      BY <1>1, <2>2, <3>1, <3>2 DEF ReplicaSetsTypeOK
    <3> QED
      BY <2>5, <3>1, <3>3
  <2>9. ASSUME NEW q \in Pods, DeletePod(q)
        PROVE  ListedIsThere(c, p)'
    <3>1. /\ pods' = [pods EXCEPT ![q] = Gone]
          /\ apart' = [d \in Controllers |-> apart[d] \ {q}]
      BY <2>9 DEF DeletePod
    <3>2. CASE p = q
      <4>1. pods'[p].rs = "gone"
        BY <1>1, <2>2, <3>1, <3>2 DEF ReplicaSetsTypeOK, Gone
      <4> QED
        BY <2>2, <2>4, <4>1 DEF ListedIsThere
    <3>3. CASE p # q
      <4>1. pods'[p] = pods[p]
        BY <1>1, <2>2, <3>1, <3>3 DEF ReplicaSetsTypeOK
      <4>2. \A d \in Controllers : p \in apart[d] => p \in apart'[d]
        BY <3>1, <3>3
      <4> QED
        BY <2>5, <4>1, <4>2
    <3> QED
      BY <3>2, <3>3
  <2>10. ASSUME pods' = pods, apart' = apart
         PROVE  ListedIsThere(c, p)'
    BY <2>5, <2>10
  <2>11. ASSUME NEW d \in Controllers, PassStep(d), ~UpdateReplicaSet(d),
                \A q \in Pods : ~UpdatePod(d, q)
         PROVE  pods' = pods /\ apart' = apart
    BY <2>11, ClusterSame DEF PassStep, Create
  <2>12. ASSUME (\E k \in Names : DeleteForeign(k)) \/ Quiet
         PROVE  pods' = pods /\ apart' = apart
    BY <2>12, ClusterSame DEF DeleteForeign
  <2> QED
    BY <1>3, <2>6, <2>7, <2>8, <2>9, <2>10, <2>11, <2>12 DEF ClusterStep
<1>4. ASSUME PassStep(c), ~ListPods(c), \A q \in Pods : ~UpdatePod(c, q)
      PROVE  pc'[c] # "pods"
  BY <1>1, <1>4, GetEffect, FoundEffect, UpdatePassEffect, MovesEffect, EndsEffect DEF PassStep
<1> QED
  BY <1>2, <1>3, <1>4, ListedNow, StepKinds

-----------------------------------------------------------------------------
(***************************************************************************)
(* Collisions                                                              *)
(***************************************************************************)
\* A pass that goes on keeps the status that it has read, and does not get less
\* stale.
KeepsStatus(c) ==
    pc'[c] # "idle" =>
        /\ pc[c] # "idle" /\ ctx'[c].status = ctx[c].status
        /\ ~staleRO'[c] => ~staleRO[c]

\* An accepted write, of the pass or of the user, leaves all other passes stale.
LEMMA OthersGetStale ==
    ASSUME NEW by, WroteRollout(by)
    PROVE  \A d \in Controllers : staleRO'[d] = (pc[d] # "idle" /\ d # by)
BY Zenon DEF WroteRollout

LEMMA StatusKept ==
    ASSUME ReplicaSetsTypeOK, [Next]_vars, NEW d \in Controllers, ~GetRollout(d)
    PROVE  KeepsStatus(d)
<1> USE DEF ReplicaSetsTypeOK
<1>1. ASSUME NEW c \in Controllers, GetRollout(c)
      PROVE  KeepsStatus(d)
  <2>1. c # d
    BY <1>1
  <2>2. pc'[d] = pc[d] /\ ctx'[d] = ctx[d] /\ staleRO' = staleRO
    BY <1>1, <2>1 DEF GetRollout, Goto
  <2> QED
    BY <2>2 DEF KeepsStatus
<1>2. ASSUME NEW c \in Controllers,
             \/ Create(c) \/ AdoptExisting(c) \/ ListPods(c) \/ UpdateReplicaSet(c)
             \/ \E p \in Pods : UpdatePod(c, p)
      PROVE  KeepsStatus(d)
  <2>1. pc[c] # "idle" /\ staleRO' = staleRO
    BY <1>2 DEF Create, AdoptExisting, ListPods, UpdateReplicaSet, UpdatePod
  <2>2. ctx'[d].status = ctx[d].status
    <3>1. d # c => ctx'[d] = ctx[d]
      BY <1>2 DEF Create, AdoptExisting, ListPods, UpdateReplicaSet, UpdatePod
    <3>2. ctx[c] \in Contexts
      BY <2>1, RunningPass
    <3>3. CASE Create(c) \/ AdoptExisting(c)
      BY <3>2, <3>3 DEF Create, AdoptExisting, Contexts
    <3>4. CASE ListPods(c)
      BY <3>2, <3>4 DEF ListPods, Contexts
    <3>5. CASE UpdateReplicaSet(c)
      BY <3>2, <3>5 DEF UpdateReplicaSet, Contexts
    <3>6. ASSUME NEW p \in Pods, UpdatePod(c, p)
          PROVE  ctx'[c].status = ctx[c].status
      BY <3>2, <3>6 DEF UpdatePod, Contexts
    <3>7. d = c => ctx'[d].status = ctx[d].status
      BY <1>2, <3>3, <3>4, <3>5, <3>6
    <3> QED
      BY <3>1, <3>7
  <2>3. d # c => pc'[d] = pc[d]
    BY <1>2 DEF Create, AdoptExisting, ListPods, UpdateReplicaSet, UpdatePod, Goto
  <2> QED
    BY <2>1, <2>2, <2>3 DEF KeepsStatus
<1>3. ASSUME NEW c \in Controllers, AlreadyExists(c) \/ FindCollision(c)
      PROVE  KeepsStatus(d)
  <2>1. pc[c] # "idle" /\ ctx' = ctx /\ staleRO' = staleRO /\ (d # c => pc'[d] = pc[d])
    BY <1>3 DEF AlreadyExists, FindCollision, Goto
  <2> QED
    BY <2>1 DEF KeepsStatus
<1>4. ASSUME NEW c \in Controllers, Announce(c)
      PROVE  KeepsStatus(d)
  <2>1. pc[c] # "idle" /\ ~staleRO[c] /\ ctx' = ctx /\ (d # c => pc'[d] = pc[d])
    BY <1>4 DEF Announce, Goto
  <2>2. d # c => (staleRO'[d] <=> pc[d] # "idle")
    BY <1>4, OthersGetStale DEF Announce
  <2> QED
    BY <2>1, <2>2 DEF KeepsStatus
<1>5. ASSUME NEW c \in Controllers, Forget(c),
             \A e \in Controllers \ {c} : pc[e] # "idle" /\ staleRO[e] => staleRO'[e]
      PROVE  KeepsStatus(d)
  <2>1. pc'[c] = "idle" /\ (d # c => pc'[d] = pc[d] /\ ctx'[d] = ctx[d])
    BY <1>5 DEF Forget, Goto
  <2> QED
    BY <1>5, <2>1 DEF KeepsStatus
<1>6. ASSUME NEW c \in Controllers,
             CountCollision(c) \/ persistRolloutStatus(c) \/ Conflict(c) \/ Fail(c)
      PROVE  KeepsStatus(d)
  <2>1. Forget(c)
    BY <1>6 DEF CountCollision, persistRolloutStatus, Conflict, Fail, EndPass
  <2>2. WroteRollout(c) \/ UNCHANGED staleRO \/ staleRO' = [staleRO EXCEPT ![c] = FALSE]
    BY <1>6 DEF CountCollision, persistRolloutStatus, Conflict, Fail, EndPass
  <2>3. \A e \in Controllers \ {c} : pc[e] # "idle" /\ staleRO[e] => staleRO'[e]
    BY <2>2, OthersGetStale
  <2> QED
    BY <1>5, <2>1, <2>3
<1>7. CASE Edit
  <2>1. pc' = pc /\ ctx' = ctx /\ WroteRollout(Nil) /\ d # Nil
    BY <1>7, ReplicaSetsAssumption DEF Edit
  <2>2. staleRO'[d] <=> pc[d] # "idle"
    BY <2>1, OthersGetStale
  <2> QED
    BY <2>1, <2>2 DEF KeepsStatus
<1>8. ASSUME \/ \E n \in Names : DeleteForeign(n) \/ CreatePod(n)
             \/ \E p \in Pods : DeletePod(p)
             \/ UNCHANGED vars
      PROVE  KeepsStatus(d)
  <2>1. pc' = pc /\ ctx' = ctx /\ staleRO' = staleRO
    BY <1>8 DEF DeleteForeign, CreatePod, DeletePod, vars
  <2> QED
    BY <2>1 DEF KeepsStatus
<1> QED
  BY <1>1, <1>2, <1>3, <1>4, <1>6, <1>7, <1>8 DEF Next, Pass

\* The status changes only in the last write of a pass, which is not stale.
LEMMA StatusWrites ==
    ASSUME ReplicaSetsTypeOK, StatusIsRead, [Next]_vars
    PROVE  \/ status' = status
           \/ /\ status'.count >= status.count
              /\ \A d \in Controllers : pc'[d] # "idle" => staleRO'[d]
<1>1. ASSUME NEW c \in Controllers, CountCollision(c) \/ persistRolloutStatus(c), status' # status
      PROVE  /\ status'.count >= status.count
             /\ \A d \in Controllers : pc'[d] # "idle" => staleRO'[d]
  <2>1. pc[c] # "idle" /\ ~staleRO[c] /\ WroteRollout(c) /\ Forget(c)
    BY <1>1 DEF CountCollision, persistRolloutStatus
  <2>2. ctx[c].status = status /\ status \in Statuses
    BY <2>1 DEF StatusIsRead, ReplicaSetsTypeOK
  <2>3. status'.count >= status.count
    <3>1. status.count \in Nat
      BY <2>2 DEF Statuses, Counts
    <3>2. CASE CountCollision(c)
      <4>1. status'.count = status.count + 1
        BY <2>2, <3>2 DEF CountCollision, Statuses
      <4> QED
        BY <3>1, <4>1
    <3>3. CASE persistRolloutStatus(c)
      <4>1. \A s \in NewStatuses(ctx[c]) : s.count = status.count
        BY <2>2 DEF NewStatuses, Statuses
      <4> QED
        BY <3>1, <3>3, <4>1 DEF persistRolloutStatus
    <3> QED
      BY <1>1, <3>2, <3>3
  <2>4. \A d \in Controllers : pc'[d] = IF d = c THEN "idle" ELSE pc[d]
    BY <2>1 DEF Forget, Goto, ReplicaSetsTypeOK
  <2> QED
    BY <2>1, <2>3, <2>4, OthersGetStale
<1>2. ASSUME NEW c \in Controllers, Pass(c) \/ Fail(c),
             ~CountCollision(c), ~persistRolloutStatus(c)
      PROVE  status' = status
  BY <1>2 DEF Pass, GetRollout, Create, AlreadyExists, AdoptExisting, FindCollision, Announce,
     ListPods, UpdatePod, UpdateReplicaSet, Conflict, Fail, rollout
<1>3. ASSUME \/ Edit
             \/ \E n \in Names : DeleteForeign(n) \/ CreatePod(n)
             \/ \E p \in Pods : DeletePod(p)
             \/ UNCHANGED vars
      PROVE  status' = status
  BY <1>3 DEF Edit, DeleteForeign, CreatePod, DeletePod, vars, rollout
<1> QED
  BY <1>1, <1>2, <1>3 DEF Next, Pass

LEMMA NextStatusIsRead == ReplicaSetsInv /\ [Next]_vars => StatusIsRead'
<1> SUFFICES ASSUME ReplicaSetsInv, [Next]_vars,
                    NEW d \in Controllers, pc'[d] # "idle"
             PROVE  /\ ~staleRO'[d] => ctx'[d].status = status'
                    /\ ctx'[d].status.count <= status'.count
  BY DEF StatusIsRead
<1>0. ReplicaSetsTypeOK /\ ReplicaSetsTypeOK' /\ StatusIsRead
  BY NextTypeOK DEF ReplicaSetsInv, CollisionsInv
<1>1. CASE GetRollout(d)
  <2>1. ctx'[d].status = status /\ status' = status /\ status.count \in Nat
    BY <1>0, <1>1 DEF GetRollout, ReplicaSetsTypeOK, Statuses, Counts, rollout
  <2> QED
    BY <2>1
<1>2. CASE ~GetRollout(d)
  <2>1. /\ pc[d] # "idle" /\ ctx'[d].status = ctx[d].status
        /\ ~staleRO'[d] => ~staleRO[d]
    BY <1>0, <1>2, StatusKept DEF KeepsStatus
  <2>2. /\ ~staleRO[d] => ctx[d].status = status
        /\ ctx[d].status.count <= status.count
    BY <1>0, <2>1 DEF StatusIsRead
  <2>3. ctx[d].status.count \in Nat /\ status.count \in Nat /\ status'.count \in Nat
    <3>1. status.count \in Counts /\ status'.count \in Counts
      BY <1>0 DEF ReplicaSetsTypeOK, Statuses
    <3> QED
      BY <1>0, <2>1, <3>1, RunningPass DEF Counts
  <2> QED
    BY <1>0, <2>1, <2>2, <2>3, StatusWrites
<1> QED
  BY <1>1, <1>2

\* A name that somebody has is the rollout's, or was another owner's at first.
LEMMA NextTakenBySomebody ==
    ASSUME ReplicaSetsTypeOK, TakenBySomebody, [Next]_vars
    PROVE  TakenBySomebody'
<1>1. \A n \in Owned : n \in Owned'
  BY OwnedChanges
<1>2. ASSUME NEW c \in Controllers, Create(c), NEW n \in Names, rss'[n] # rss[n]
      PROVE  n \in Owned'
  BY <1>2, CreateEffect
<1>3. ASSUME NEW c \in Controllers, UpdateReplicaSet(c), NEW n \in Names, rss'[n] # rss[n]
      PROVE  n \in Owned'
  BY <1>3, UpdateEffect
<1>4. ASSUME NEW m \in Names, DeleteForeign(m), NEW n \in Names, rss'[n] # rss[n]
      PROVE  rss'[n] = NoRS
  BY <1>4 DEF DeleteForeign, ReplicaSetsTypeOK
<1>5. ASSUME NEW c \in Controllers,
             \/ GetRollout(c) \/ AdoptExisting(c) \/ ListPods(c) \/ Moves(c) \/ Ends(c)
             \/ \E p \in Pods : UpdatePod(c, p)
      PROVE  rss' = rss
  BY <1>5 DEF GetRollout, AdoptExisting, ListPods, UpdatePod, Moves, Ends, cluster
<1>6. ASSUME (\E n \in Names : CreatePod(n)) \/ (\E p \in Pods : DeletePod(p)) \/ Quiet
      PROVE  rss' = rss
  BY <1>6 DEF CreatePod, DeletePod, Quiet, cluster
<1>7. \A n \in Names : rss'[n] = rss[n] \/ rss'[n] = NoRS \/ n \in Owned'
  BY <1>2, <1>3, <1>4, <1>5, <1>6, StepKinds DEF PassStep, ClusterStep
<1> QED
  BY <1>1, <1>7 DEF TakenBySomebody

\* The steps between the decision to create a ReplicaSet and a collision.
LEMMA NamingSteps ==
    ASSUME ReplicaSetsTypeOK, [Next]_vars, NEW d \in Controllers, pc'[d] \in Naming
    PROVE  \/ GetRollout(d) /\ pc'[d] = "create" /\ ctx'[d].new = Nil
           \/ /\ pc[d] \in Naming /\ ctx'[d] = ctx[d] /\ ~Create(d) /\ ~CountCollision(d)
              /\ pc'[d] = "collision" => pc[d] = "collision" \/ FindCollision(d)
<1>1. CASE GetRollout(d)
  BY <1>1, GetEffect DEF Naming
<1>2. CASE ~GetRollout(d)
  <2>1. ~Create(d) /\ ~CountCollision(d)
    <3>1. ~Create(d)
      BY FoundEffect DEF Naming
    <3>2. CountCollision(d) => pc'[d] = "idle"
      BY DEF CountCollision, Forget, Goto, ReplicaSetsTypeOK
    <3> QED
      BY <3>1, <3>2 DEF Naming
  <2>2. pc[d] \in Naming /\ ctx'[d] = ctx[d]
    <3>1. CASE PassStep(d)
      <4>1. Moves(d)
        BY <1>2, <2>1, <3>1, FoundEffect, ListEffect, UpdatePodEffect, UpdatePassEffect, EndsEffect
        DEF PassStep, Naming
      <4> QED
        BY <4>1, MovesEffect DEF Naming
    <3>2. ASSUME NEW c \in Controllers \ {d}, PassStep(c)
          PROVE  pc'[d] = pc[d] /\ ctx'[d] = ctx[d]
      BY <3>2, OthersStay
    <3>3. CASE ClusterStep
      BY <3>3, PassesStay
    <3> QED
      BY <3>1, <3>2, <3>3, StepKinds DEF Naming
  <2>3. ASSUME pc'[d] = "collision", pc[d] # "collision"
        PROVE  FindCollision(d)
    <3>1. \E c \in Controllers : Pass(c) \/ Fail(c)
      BY <2>3 DEF Next, Edit, DeleteForeign, CreatePod, DeletePod, vars
    <3>2. PICK c \in Controllers : Pass(c) \/ Fail(c)
      BY <3>1
    <3>3. c = d
      BY <2>3, <3>2 DEF Pass, Fail, GetRollout, Create, AlreadyExists, AdoptExisting, FindCollision,
         CountCollision, Announce, ListPods, UpdatePod, UpdateReplicaSet, persistRolloutStatus,
         Conflict, EndPass, Forget, Goto, ReplicaSetsTypeOK
    <3>4. CASE Fail(d) \/ Conflict(d) \/ persistRolloutStatus(d) \/ CountCollision(d)
      BY <2>3, <3>4 DEF Fail, Conflict, persistRolloutStatus, CountCollision, EndPass, Forget, Goto,
         ReplicaSetsTypeOK
    <3>5. ~Announce(d) /\ ~UpdateReplicaSet(d)
      BY <2>3 DEF Announce, UpdateReplicaSet, Goto, MetadataPc, ReplicaSetsTypeOK
    <3>6. ~AlreadyExists(d) /\ ~Create(d) /\ ~AdoptExisting(d) /\ ~ListPods(d)
          /\ \A p \in Pods : ~UpdatePod(d, p)
      BY <2>3 DEF AlreadyExists, Create, AdoptExisting, ListPods, UpdatePod, Goto, ReplicaSetsTypeOK
    <3> QED
      BY <1>2, <3>2, <3>3, <3>4, <3>5, <3>6 DEF Pass
  <2> QED
    BY <2>1, <2>2, <2>3
<1> QED
  BY <1>1, <1>2

LEMMA NextCollidesWithTaken ==
    ASSUME ReplicaSetsTypeOK, TakenBySomebody, CollidesWithTaken, [Next]_vars
    PROVE  CollidesWithTaken'
<1> SUFFICES ASSUME NEW d \in Controllers, pc'[d] = "collision"
             PROVE  Name(d)' \in Foreign \cup Owned'
  BY DEF CollidesWithTaken
<1>1. /\ pc[d] \in Naming /\ ctx'[d] = ctx[d]
      /\ pc[d] = "collision" \/ FindCollision(d)
  BY NamingSteps DEF Naming
<1>2. Name(d)' = Name(d) /\ Name(d) \in Names
  <2>1. pc[d] # "idle"
    BY <1>1 DEF Naming
  <2> QED
    BY <1>1, <2>1, RunningPass DEF Name
<1>3. Name(d) \in Foreign \cup Owned
  BY <1>1, <1>2 DEF CollidesWithTaken, TakenBySomebody, FindCollision
<1> QED
  BY <1>2, <1>3, OwnedChanges

\* The counts that are taken and were tried, and all that are taken, are finite.
Used == {i \in Taken : i < status.count}

LEMMA TakenIsFinite == ASSUME NEW S \in SUBSET Taken
                       PROVE  IsFiniteSet(S) /\ Cardinality(S) \in Nat
                              /\ Cardinality(S) <= Cardinality(Taken)
<1>1. IsFiniteSet(Counts)
  BY FS_Interval, ReplicaSetsAssumption DEF Counts
<1>2. IsFiniteSet(Taken)
  <2>1. Taken \in SUBSET Counts
    BY DEF Taken
  <2> QED
    BY <1>1, <2>1, FS_Subset
<1> QED
  BY <1>2, FS_Subset, FS_CardinalityType

\* The count goes up by one, in CountCollision only, and the counter of the
\* overlapping passes when one begins.
LEMMA CounterSteps ==
    ASSUME ReplicaSetsTypeOK, StatusIsRead, [Next]_vars
    PROVE  /\ \/ status'.count = status.count
              \/ \E c \in Controllers : CountCollision(c) /\ status'.count = status.count + 1
           /\ \/ overlap' = overlap
              \/ \E c \in Controllers \ {Leader} :
                    GetRollout(c) /\ overlap' = overlap + 1 /\ overlap < MaxDisturbances
<1>1. ASSUME NEW c \in Controllers, CountCollision(c)
      PROVE  status'.count = status.count + 1 /\ overlap' = overlap
  <2>1. ctx[c].status = status /\ status \in Statuses
    BY <1>1 DEF CountCollision, StatusIsRead, ReplicaSetsTypeOK
  <2> QED
    BY <1>1, <2>1 DEF CountCollision, Statuses, bounds
<1>2. ASSUME NEW c \in Controllers, persistRolloutStatus(c)
      PROVE  status'.count = status.count /\ overlap' = overlap
  <2>1. ctx[c].status = status /\ status \in Statuses
    BY <1>2 DEF persistRolloutStatus, StatusIsRead, ReplicaSetsTypeOK
  <2>2. \A s \in NewStatuses(ctx[c]) : s.count = status.count
    BY <2>1 DEF NewStatuses, Statuses
  <2> QED
    BY <1>2, <2>2 DEF persistRolloutStatus, bounds
<1>3. ASSUME NEW c \in Controllers, GetRollout(c)
      PROVE  /\ status' = status
             /\ \/ overlap' = overlap
                \/ c # Leader /\ overlap' = overlap + 1 /\ overlap < MaxDisturbances
  <2>1. edits \in Nat /\ faults \in Nat /\ overlap \in Nat
    BY DEF ReplicaSetsTypeOK
  <2> QED
    BY <1>3, <2>1, ReplicaSetsAssumption DEF GetRollout, MayDisturb, rollout
<1>4. ASSUME NEW c \in Controllers, Pass(c) \/ Fail(c),
             ~CountCollision(c), ~persistRolloutStatus(c), ~GetRollout(c)
      PROVE  status' = status /\ overlap' = overlap
  BY <1>4 DEF Pass, Create, AlreadyExists, AdoptExisting, FindCollision, Announce,
     ListPods, UpdatePod, UpdateReplicaSet, Conflict, Fail, rollout, bounds
<1>5. ASSUME \/ Edit
             \/ \E n \in Names : DeleteForeign(n) \/ CreatePod(n)
             \/ \E p \in Pods : DeletePod(p)
             \/ UNCHANGED vars
      PROVE  status' = status /\ overlap' = overlap
  BY <1>5 DEF Edit, DeleteForeign, CreatePod, DeletePod, vars, rollout, bounds
<1> QED
  BY <1>1, <1>2, <1>3, <1>4, <1>5 DEF Next, Pass

\* A pass joins the overlapping ones when it begins, and leaves them when it
\* creates its ReplicaSet or counts a collision.
LEMMA OverlappingSteps ==
    ASSUME ReplicaSetsTypeOK, [Next]_vars
    PROVE  \A d \in Overlapping' :
              \/ GetRollout(d)
              \/ d \in Overlapping /\ ~Create(d) /\ ~CountCollision(d)
<1> SUFFICES ASSUME NEW d \in Controllers \ {Leader}, pc'[d] \in Naming
             PROVE  \/ GetRollout(d)
                    \/ pc[d] \in Naming /\ ~Create(d) /\ ~CountCollision(d)
  BY DEF Overlapping
<1> QED
  BY NamingSteps

\* The leader is overtaken by no pass but one that creates a ReplicaSet.
LEMMA OvertakenSteps ==
    ASSUME ReplicaSetsTypeOK, [Next]_vars, NEW d \in Overtaken'
    PROVE  /\ d = Leader /\ ~CountCollision(Leader)
           /\ d \in Overtaken \/ \E c \in Controllers \ {Leader} : Create(c)
<1>1. d = Leader /\ Leader \in Controllers /\ pc'[Leader] \in Naming
  BY DEF Overtaken, Controllers
<1>2. PICK n \in Owned' : rss'[n].template = ctx'[Leader].wanted
  BY <1>1 DEF Overtaken
<1>3. CASE GetRollout(Leader) /\ pc'[Leader] = "create" /\ ctx'[Leader].new = Nil
  <2>1. /\ FindNewReplicaSet(Seen, wanted, status.count) = Nil /\ ctx'[Leader].wanted = wanted
        /\ rss' = rss
    BY <1>1, <1>3, GetEffect
  <2>2. wanted \in Templates /\ status.count \in Counts
    BY DEF ReplicaSetsTypeOK, Statuses
  <2>3. Seen[n] = rss[n] /\ n \in Names /\ rss[n].owner = "rollout"
    BY <2>1 DEF Seen, Owned
  <2> QED
    BY <1>2, <2>1, <2>2, <2>3, FindsNew
<1>4. CASE pc[Leader] \in Naming /\ ctx'[Leader] = ctx[Leader] /\ ~Create(Leader)
           /\ ~CountCollision(Leader)
  <2>1. CASE n \in Owned
    <3>1. rss'[n].template = rss[n].template
      BY <2>1, OwnedChanges
    <3> QED
      BY <1>1, <1>2, <1>4, <2>1, <3>1 DEF Overtaken
  <2>2. CASE n \notin Owned
    BY <1>1, <1>2, <1>4, <2>2, OwnedChanges
  <2> QED
    BY <1>1, <1>4, <2>1, <2>2
<1> QED
  BY <1>1, <1>3, <1>4, NamingSteps

\* A pass that takes a step is the only one, and takes only one.
LEMMA OneStep ==
    ASSUME ReplicaSetsTypeOK, NEW c \in Controllers, NEW d \in Controllers
    PROVE  /\ GetRollout(c) => ~Create(d) /\ ~CountCollision(d) /\ (GetRollout(d) => d = c)
           /\ Create(c) => ~CountCollision(d) /\ (Create(d) => d = c)
           /\ CountCollision(c) => (CountCollision(d) => d = c)
<1>1. GetRollout(c) => pc[c] = "idle" /\ pc'[c] # "idle" /\ \A e \in Controllers \ {c} : pc'[e] = pc[e]
  <2>1. GetRollout(c) => PassStep(c)
    BY DEF PassStep
  <2> QED
    BY <2>1, GetEffect, OthersStay
<1>2. Create(c) => pc[c] = "create" /\ pc'[c] = "announce" /\ \A e \in Controllers \ {c} : pc'[e] = pc[e]
  <2>1. Create(c) => PassStep(c)
    BY DEF PassStep
  <2> QED
    BY <2>1, FoundEffect, OthersStay DEF Create
<1>3. CountCollision(c) => pc[c] = "collision" /\ pc'[c] = "idle" /\ \A e \in Controllers \ {c} : pc'[e] = pc[e]
  BY DEF CountCollision, Forget, Goto, ReplicaSetsTypeOK
<1>4. GetRollout(d) => pc[d] = "idle" /\ pc'[d] # "idle"
  BY GetEffect
<1>5. Create(d) => pc[d] = "create" /\ pc'[d] = "announce"
  BY FoundEffect DEF Create
<1>6. CountCollision(d) => pc[d] = "collision" /\ pc'[d] = "idle"
  BY DEF CountCollision, Forget, Goto, ReplicaSetsTypeOK
<1> QED
  BY <1>1, <1>2, <1>3, <1>4, <1>5, <1>6

\* The leader collides with another owner's name, or was overtaken: names tell
\* templates apart, so that what it finds is the ReplicaSet it wants.
LEMMA LeaderCollides ==
    ASSUME ReplicaSetsTypeOK, NamedByHash, CollidesWithTaken, StatusIsRead, CountCollision(Leader)
    PROVE  status.count \in Taken \/ Overtaken = {Leader}
<1>1. Leader \in Controllers /\ pc[Leader] = "collision" /\ ctx[Leader].status = status
  BY DEF Controllers, CountCollision, StatusIsRead
<1>2. ctx[Leader].wanted \in Templates /\ status.count \in Counts
  BY <1>1, RunningPass
<1>3. Name(Leader) = HashOf(ctx[Leader].wanted, status.count)
  BY <1>1 DEF Name
<1>4. CASE Name(Leader) \in Foreign
  BY <1>2, <1>3, <1>4 DEF Taken
<1>5. CASE Name(Leader) \in Owned
  <2>1. rss[Name(Leader)].template = ctx[Leader].wanted
    BY <1>2, <1>3, <1>5, HashesDiffer DEF NamedByHash
  <2> QED
    BY <1>1, <1>5, <2>1 DEF Overtaken, Naming
<1> QED
  BY <1>1, <1>4, <1>5 DEF CollidesWithTaken

LEMMA NextCollisionsAreCounted ==
    ReplicaSetsInv /\ [Next]_vars => CollisionsAreCounted'
<1> SUFFICES ASSUME ReplicaSetsInv, [Next]_vars
             PROVE  CollisionsAreCounted'
  OBVIOUS
<1>0. CollisionsInv
  BY DEF ReplicaSetsInv
<1>1. /\ ReplicaSetsTypeOK /\ ReplicaSetsTypeOK' /\ NamedByHash
      /\ StatusIsRead /\ CollidesWithTaken
  BY <1>0, NextTypeOK DEF ReplicaSetsInv, CollisionsInv
<1> DEFINE count    == status.count
           used     == Cardinality(Used)
           passes   == Cardinality(Overlapping)
           overtook == Cardinality(Overtaken)
<1>2. /\ count \in Nat /\ count' \in Nat /\ overlap \in Nat /\ overlap' \in Nat
      /\ used \in Nat /\ used' \in Nat /\ MaxDisturbances \in Nat
  <2>1. Used \in SUBSET Taken /\ Used' \in SUBSET Taken
    BY DEF Used
  <2> QED
    BY <1>1, <2>1, TakenIsFinite, ReplicaSetsAssumption DEF ReplicaSetsTypeOK, Statuses, Counts
<1>3. /\ IsFiniteSet(Overlapping) /\ overlap <= MaxDisturbances
  BY <1>0 DEF CollisionsInv, CollisionsAreCounted
<1>4. \A S \in SUBSET Overlapping :
         IsFiniteSet(S) /\ Cardinality(S) \in Nat /\ Cardinality(S) <= passes
  BY <1>3, FS_Subset, FS_CardinalityType
<1>5. /\ overtook \in 0..1 /\ overtook' \in 0..1
      /\ Overtaken = {Leader} => overtook = 1
      /\ Overtaken' = {} => overtook' = 0
      /\ Overtaken' \subseteq Overtaken => overtook' <= overtook
  <2>1. Overtaken \in {{}, {Leader}} /\ Overtaken' \in {{}, {Leader}}
    BY DEF Overtaken
  <2>2. Cardinality({}) = 0 /\ Cardinality({Leader}) = 1
    BY FS_EmptySet, FS_Singleton
  <2> QED
    BY <2>1, <2>2
<1>6. /\ passes \in Nat /\ overlap <= MaxDisturbances
      /\ count + passes + overtook <= used + overlap
  BY <1>0, <1>3, FS_CardinalityType DEF CollisionsInv, CollisionsAreCounted, Used
<1>7. count' = count => used' = used
  BY DEF Used
<1>8. count' = count + 1 => used <= used'
  <2> SUFFICES ASSUME count' = count + 1 PROVE used <= used'
    OBVIOUS
  <2>1. Used \subseteq Used'
    <3>1. \A i \in Taken : i \in Nat
      BY DEF Taken, Counts
    <3> QED
      BY <1>2, <3>1 DEF Used
  <2>2. IsFiniteSet(Used')
    BY TakenIsFinite DEF Used
  <2> QED
    BY <2>1, <2>2, FS_Subset
<1>9. /\ \/ count' = count
         \/ \E c \in Controllers : CountCollision(c) /\ count' = count + 1
      /\ \/ overlap' = overlap
         \/ \E c \in Controllers \ {Leader} :
               GetRollout(c) /\ overlap' = overlap + 1 /\ overlap < MaxDisturbances
  BY <1>1, CounterSteps
<1>10. \A d \in Overlapping' :
          \/ GetRollout(d)
          \/ d \in Overlapping /\ ~Create(d) /\ ~CountCollision(d)
  BY <1>1, OverlappingSteps
<1>11. (\A c \in Controllers \ {Leader} : ~Create(c)) => Overtaken' \subseteq Overtaken
  BY <1>1, OvertakenSteps
<1>12. \A d \in Overlapping' : d \in Controllers \ {Leader}
  BY DEF Overlapping
<1> DEFINE Finite  == IsFiniteSet(Overlapping')
           Counted == count' + passes' + overtook' <= used' + overlap'
<1>13. SUFFICES Finite /\ overlap' <= MaxDisturbances /\ Counted
  BY DEF CollisionsAreCounted, Used
<1> HIDE DEF count, used, passes, overtook, Finite, Counted
<1>14. overlap' <= MaxDisturbances
  BY <1>2, <1>6, <1>9
<1>15. overtook \in Nat /\ overtook' \in Nat /\ overtook' <= 1
  BY <1>5
<1>16. ASSUME NEW c \in Controllers \ {Leader}, GetRollout(c), overlap' = overlap + 1,
              overlap < MaxDisturbances
       PROVE  Finite /\ Counted
  <2>1. /\ \A d \in Controllers : ~Create(d) /\ ~CountCollision(d)
        /\ \A d \in Controllers : GetRollout(d) => d = c
    BY <1>1, <1>16, OneStep
  <2>2. count' = count /\ used' = used /\ overtook' <= overtook
    BY <1>5, <1>7, <1>9, <1>11, <2>1
  <2>3. Overlapping' \in SUBSET (Overlapping \cup {c})
    BY <1>10, <1>12, <2>1
  <2>4. Finite /\ passes' \in Nat /\ passes' <= passes + 1
    <3>1. IsFiniteSet(Overlapping \cup {c})
      BY <1>3, FS_AddElement
    <3>2. Cardinality(Overlapping \cup {c}) \in Nat /\ Cardinality(Overlapping \cup {c}) <= passes + 1
      <4>1. \/ Cardinality(Overlapping \cup {c}) = passes
            \/ Cardinality(Overlapping \cup {c}) = passes + 1
        BY <1>3, FS_AddElement DEF passes
      <4> QED
        BY <1>6, <4>1
    <3>3. IsFiniteSet(Overlapping') /\ Cardinality(Overlapping') <= Cardinality(Overlapping \cup {c})
      BY <2>3, <3>1, FS_Subset
    <3>4. Cardinality(Overlapping') \in Nat
      BY <3>3, FS_CardinalityType
    <3> QED
      BY <1>6, <3>1, <3>2, <3>3, <3>4 DEF passes, Finite
  <2>5. \A C, P, L, U, O \in Nat :
           C = count /\ P <= passes + 1 /\ L <= overtook /\ U = used /\ O = overlap + 1
               => C + P + L <= U + O
    BY <1>2, <1>6, <1>15
  <2>6. Counted
    BY <1>2, <1>16, <1>15, <2>2, <2>4, <2>5 DEF Counted
  <2> QED
    BY <2>4, <2>6
<1>17. ASSUME \A c \in Controllers \ {Leader} : ~GetRollout(c)
       PROVE  /\ overlap' = overlap /\ Overlapping' \in SUBSET Overlapping
              /\ Finite /\ passes' \in Nat /\ passes' <= passes
              /\ \A c \in Overlapping :
                    Create(c) \/ CountCollision(c) => passes' + 1 <= passes
  <2>1. Overlapping' \in SUBSET Overlapping
    BY <1>10, <1>12, <1>17
  <2>2. overlap' = overlap
    BY <1>9, <1>17
  <2>3. ASSUME NEW c \in Overlapping, Create(c) \/ CountCollision(c)
        PROVE  passes' + 1 <= passes
    <3>1. Overlapping' \in SUBSET (Overlapping \ {c})
      BY <1>10, <1>12, <1>17, <2>3
    <3>2. IsFiniteSet(Overlapping \ {c}) /\ Cardinality(Overlapping \ {c}) = passes - 1
      BY <1>3, FS_RemoveElement DEF passes
    <3>3. Cardinality(Overlapping') <= Cardinality(Overlapping \ {c})
      BY <3>1, <3>2, FS_Subset
    <3>4. Cardinality(Overlapping') \in Nat
      BY <1>4, <2>1
    <3> QED
      BY <1>6, <3>2, <3>3, <3>4 DEF passes
  <2> QED
    BY <1>4, <2>1, <2>2, <2>3 DEF passes, Finite
<1>18. ASSUME NEW c \in Controllers \ {Leader}, Create(c) \/ CountCollision(c)
       PROVE  Finite /\ Counted
  <2>1. c \in Overlapping
    BY <1>18 DEF Overlapping, Naming, Create, CountCollision
  <2>2. \A d \in Controllers : ~GetRollout(d)
    BY <1>1, <1>18, OneStep
  <2>3. overlap' = overlap /\ Finite /\ passes' \in Nat /\ passes' + 1 <= passes
    BY <1>17, <1>18, <2>1, <2>2
  <2>4. CASE Create(c)
    <3>1. count' = count /\ used' = used
      BY <1>1, <1>7, <1>9, <2>4, OneStep
    <3>2. \A C, P, L, U, O \in Nat :
             C = count /\ P + 1 <= passes /\ L <= 1 /\ U = used /\ O = overlap
                 => C + P + L <= U + O
      BY <1>2, <1>6, <1>15
    <3>3. Counted
      BY <1>2, <1>15, <2>3, <3>1, <3>2 DEF Counted
    <3> QED
      BY <2>3, <3>3
  <2>5. CASE CountCollision(c)
    <3>1. \A d \in Controllers : ~Create(d)
      BY <1>1, <2>5, OneStep
    <3>2. overtook' <= overtook
      BY <1>5, <1>11, <3>1
    <3>3. count' <= count + 1 /\ used <= used'
      BY <1>2, <1>7, <1>8, <1>9
    <3>4. \A C, P, L, U, O \in Nat :
             C <= count + 1 /\ P + 1 <= passes /\ L <= overtook /\ used <= U /\ O = overlap
                 => C + P + L <= U + O
      BY <1>2, <1>6, <1>15
    <3>5. Counted
      BY <1>2, <1>15, <2>3, <3>2, <3>3, <3>4 DEF Counted
    <3> QED
      BY <2>3, <3>5
  <2> QED
    BY <1>18, <2>4, <2>5
<1>19. ASSUME \A c \in Controllers \ {Leader} : ~GetRollout(c) /\ ~Create(c) /\ ~CountCollision(c)
       PROVE  Finite /\ Counted
  <2>1. /\ overlap' = overlap /\ Finite /\ passes' \in Nat /\ passes' <= passes
        /\ overtook' <= overtook
    BY <1>5, <1>11, <1>17, <1>19
  <2>2. CASE count' = count
    <3>1. \A C, P, L, U, O \in Nat :
             C = count /\ P <= passes /\ L <= overtook /\ U = used /\ O = overlap
                 => C + P + L <= U + O
      BY <1>2, <1>6, <1>15
    <3>2. Counted
      BY <1>2, <1>7, <1>15, <2>1, <2>2, <3>1 DEF Counted
    <3> QED
      BY <2>1, <3>2
  <2>3. CASE CountCollision(Leader) /\ count' = count + 1
    <3>1. overtook' = 0
      BY <1>1, <1>5, <2>3, OvertakenSteps
    <3>2. used <= used'
      BY <1>8, <2>3
    <3>3. CASE Overtaken = {Leader}
      <4>1. overtook = 1
        BY <1>5, <3>3
      <4>2. \A C, P, L, U, O \in Nat :
               C = count + 1 /\ P <= passes /\ L = 0 /\ used <= U /\ O = overlap
                   => C + P + L <= U + O
        BY <1>2, <1>6, <4>1
      <4>3. Counted
        BY <1>2, <1>15, <2>1, <2>3, <3>1, <3>2, <4>2 DEF Counted
      <4> QED
        BY <2>1, <4>3
    <3>4. CASE count \in Taken
      <4>1. Used' = Used \cup {count} /\ count \notin Used
        <5>1. \A i \in Taken : i \in Nat
          BY DEF Taken, Counts
        <5> QED
          BY <1>2, <2>3, <3>4, <5>1 DEF Used, count
      <4>2. IsFiniteSet(Used)
        BY TakenIsFinite DEF Used
      <4>3. used' = used + 1
        BY <4>1, <4>2, FS_AddElement DEF used
      <4>4. \A C, P, L, U, O \in Nat :
               C = count + 1 /\ P <= passes /\ L = 0 /\ U = used + 1 /\ O = overlap
                   => C + P + L <= U + O
        BY <1>2, <1>6, <1>15
      <4>5. Counted
        BY <1>2, <1>15, <2>1, <2>3, <3>1, <4>3, <4>4 DEF Counted
      <4> QED
        BY <2>1, <4>5
    <3> QED
      BY <1>1, <2>3, <3>3, <3>4, LeaderCollides DEF count
  <2> QED
    BY <1>9, <1>19, <2>2, <2>3
<1> QED
  <2>1. CASE \E c \in Controllers \ {Leader} :
                GetRollout(c) /\ overlap' = overlap + 1 /\ overlap < MaxDisturbances
    BY <1>16, <1>14, <2>1
  <2>2. CASE overlap' = overlap
    <3>1. \A c \in Controllers \ {Leader} : ~GetRollout(c)
      BY <1>2, <2>2 DEF GetRollout
    <3> QED
      BY <1>18, <1>19, <1>14, <3>1
  <2> QED
    BY <1>9, <2>1, <2>2

LEMMA NextCollisionsInv == ReplicaSetsInv /\ [Next]_vars => CollisionsInv'
<1>1. ReplicaSetsInv => ReplicaSetsTypeOK /\ CollisionsInv
  BY DEF ReplicaSetsInv
<1> QED
  BY <1>1, NextStatusIsRead, NextTakenBySomebody, NextCollidesWithTaken, NextCollisionsAreCounted
  DEF CollisionsInv

-----------------------------------------------------------------------------
(***************************************************************************)
(* Theorems                                                                *)
(***************************************************************************)
LEMMA InitCollisionsInv == Init => CollisionsInv
<1> SUFFICES ASSUME Init PROVE CollisionsInv
  OBVIOUS
<1>1. \A c \in Controllers : pc[c] = "idle"
  BY DEF Init
<1>2. Overlapping = {} /\ Overtaken = {} /\ StatusIsRead /\ CollidesWithTaken
  BY <1>1 DEF Overlapping, Overtaken, Naming, Controllers, StatusIsRead, CollidesWithTaken
<1>3. TakenBySomebody
  <2>1. PICK n \in {Nil, HashOf(wanted, 0)} \ Foreign, t \in Templates :
            rss = [m \in Names |->
                IF m = n THEN [owner |-> "rollout", template |-> wanted, meta |-> metadata.stable]
                ELSE IF m \in Foreign THEN [owner |-> "other", template |-> t, meta |-> None]
                ELSE NoRS]
    BY DEF Init
  <2>2. \A m \in Names : rss[m] # NoRS => m \in Foreign \/ rss[m].owner = "rollout"
    BY <2>1
  <2> QED
    BY <2>2 DEF TakenBySomebody, Owned
<1>4. CollisionsAreCounted
  <2>1. status.count = 0 /\ overlap = 0
    BY DEF Init
  <2>2. Cardinality({i \in Taken : i < status.count}) \in Nat
    BY TakenIsFinite
  <2>3. IsFiniteSet(Overlapping) /\ Cardinality(Overlapping) = 0 /\ Cardinality(Overtaken) = 0
    BY <1>2, FS_EmptySet
  <2> QED
    BY <2>1, <2>2, <2>3, ReplicaSetsAssumption DEF CollisionsAreCounted
<1> QED
  BY <1>2, <1>3, <1>4 DEF CollisionsInv

LEMMA InitReplicaSetsInv == Init => ReplicaSetsInv
<1> SUFFICES ASSUME Init PROVE ReplicaSetsInv
  OBVIOUS
<1>1. ReplicaSetsTypeOK
  BY InitTypeOK
<1>2. wanted \in Templates /\ 0 \in Counts
  BY ReplicaSetsAssumption DEF Init, Counts
<1>3. \A c \in Controllers : pc[c] = "idle"
  BY DEF Init
<1>4. PICK n \in {Nil, HashOf(wanted, 0)} \ Foreign, t \in Templates :
          /\ rss = [m \in Names |->
                IF m = n THEN [owner |-> "rollout", template |-> wanted, meta |-> metadata.stable]
                ELSE IF m \in Foreign THEN [owner |-> "other", template |-> t, meta |-> None]
                ELSE NoRS]
          /\ pods = [q \in Pods |-> IF q = FirstOf(Pods) /\ n # Nil
                                    THEN [rs |-> n, meta |-> metadata.stable] ELSE Unborn]
  BY DEF Init
<1>5. \A m \in Owned : m = n /\ rss[m].template = wanted /\ rss[m].meta = metadata.stable
  BY <1>4, ReplicaSetsAssumption DEF Owned, NoRS
<1>6. n \in Names => n \in Owned
  BY <1>4 DEF Owned
<1>7. \A p \in Pods : pods[p].rs \in Names => pods[p].rs = n /\ pods[p].meta = metadata.stable
  BY <1>4, ReplicaSetsAssumption DEF Unborn
<1>8. NamedByHash
  <2>1. \A m \in Owned : m = HashOf(wanted, 0)
    BY <1>4, <1>5, ReplicaSetsAssumption DEF Owned
  <2> QED
    BY <1>2, <1>5, <2>1 DEF NamedByHash
<1>9. PodsOfOwned /\ PodsFollowReplicaSets /\ OneReplicaSetPerTemplate
  BY <1>5, <1>6, <1>7 DEF PodsOfOwned, PodsFollowReplicaSets, OneReplicaSetPerTemplate, Owned
<1>10. SeenIsThere /\ NewIsWanted /\ SyncsOne /\ ListedAreThere
  BY <1>3 DEF SeenIsThere, NewIsWanted, SyncsOne, ListedAreThere
<1>11. LeaderCreates
  BY <1>3 DEF LeaderCreates, Controllers
<1> QED
  BY <1>1, <1>8, <1>9, <1>10, <1>11, InitCollisionsInv DEF ReplicaSetsInv

LEMMA NextReplicaSetsInv == ReplicaSetsInv /\ [Next]_vars => ReplicaSetsInv'
<1>1. ReplicaSetsInv => ReplicaSetsTypeOK /\ SyncsOne
  BY DEF ReplicaSetsInv
<1> QED
  BY <1>1, NextTypeOK, NextNamedByHash, NextPodsOfOwned, NextSeenIsThere, NextNewIsWanted,
     NextLeaderCreates, NextOneReplicaSet, NextSyncsOne, NextListedAreThere, NextPodsFollow,
     NextCollisionsInv
  DEF ReplicaSetsInv

\* Types, and all that the results below rest on.
THEOREM ReplicaSetsInvHolds == Spec => []ReplicaSetsInv
<1> QED
  BY InitReplicaSetsInv, NextReplicaSetsInv, PTL DEF Spec

\* What a pass takes for its new ReplicaSet has the template that it wants, for
\* any hash that tells templates apart, however many names are taken and freed,
\* and whatever other controllers do.
THEOREM NewReplicaSetIsWanted == Spec => []NewIsWanted
<1>1. ReplicaSetsInv => NewIsWanted
  BY DEF ReplicaSetsInv
<1> QED
  BY <1>1, ReplicaSetsInvHolds, PTL

\* As long as no two controllers were at work, no template has two ReplicaSets.
THEOREM TemplateHasOneReplicaSet == Spec => []OneReplicaSetPerTemplate
<1>1. ReplicaSetsInv => OneReplicaSetPerTemplate
  BY DEF ReplicaSetsInv
<1> QED
  BY <1>1, ReplicaSetsInvHolds, PTL

\* A pod whose metadata are not those of its ReplicaSet is one that a pass left
\* so: it failed between the two updates, or the pod was made after the listing.
THEOREM PodsHaveTheirMetadata == Spec => []PodsFollowReplicaSets
<1>1. ReplicaSetsInv => PodsFollowReplicaSets
  BY DEF ReplicaSetsInv
<1> QED
  BY <1>1, ReplicaSetsInvHolds, PTL

\* What follows for the counts.
LEMMA CountIsBounded ==
    ASSUME ReplicaSetsTypeOK, CollisionsInv
    PROVE  CollisionsHaveCauses /\ overlap \in Nat /\ overlap <= MaxDisturbances
<1>1. Cardinality({i \in Taken : i < status.count}) \in Nat
      /\ Cardinality({i \in Taken : i < status.count}) <= Cardinality(Taken)
  BY TakenIsFinite
<1>2. Cardinality(Taken) \in Nat /\ status.count \in Nat /\ overlap \in Nat
  BY TakenIsFinite DEF ReplicaSetsTypeOK, Statuses, Counts
<1>3. Cardinality(Overlapping) \in Nat /\ Cardinality(Overtaken) \in Nat
  <2>1. Overtaken \in {{}, {Leader}}
    BY DEF Overtaken
  <2>2. Cardinality({}) = 0 /\ Cardinality({Leader}) = 1
    BY FS_EmptySet, FS_Singleton
  <2>3. Cardinality(Overtaken) = 0 \/ Cardinality(Overtaken) = 1
    BY <2>1, <2>2
  <2>4. IsFiniteSet(Overlapping)
    BY DEF CollisionsInv, CollisionsAreCounted
  <2>5. Cardinality(Overlapping) \in Nat
    BY <2>4, FS_CardinalityType
  <2> QED
    BY <2>3, <2>5
<1> QED
  BY <1>1, <1>2, <1>3 DEF CollisionsHaveCauses, CollisionsInv, CollisionsAreCounted

\* The collision count is at most the number of counts for which others had the
\* name of some template, and of passes that overlapped: no edit, failed call or
\* crash makes a rollout collide with itself.
THEOREM CollisionsAreCaused == Spec => []CollisionsHaveCauses
<1>1. ReplicaSetsInv => CollisionsHaveCauses
  BY CountIsBounded DEF ReplicaSetsInv
<1> QED
  BY <1>1, ReplicaSetsInvHolds, PTL

\* The bound on collision counts keeps no pass from counting a collision, so that
\* the model leaves out none, for any number of names that others have.
THEOREM PassesMayGoOn == Spec => []MayGoOn
<1>1. ReplicaSetsInv => MayGoOn
  <2> SUFFICES ASSUME ReplicaSetsInv,
                      NEW c \in Controllers, pc[c] = "collision"
               PROVE  ctx[c].status.count < MaxCollisions
    BY DEF MayGoOn
  <2>1. ReplicaSetsTypeOK /\ CollisionsInv
    BY DEF ReplicaSetsInv
  <2>2. /\ status.count <= Cardinality(Taken) + overlap
        /\ overlap \in Nat /\ overlap <= MaxDisturbances
    BY <2>1, CountIsBounded DEF CollisionsHaveCauses
  <2>3. ctx[c].status.count <= status.count
    BY <2>1 DEF CollisionsInv, StatusIsRead
  <2>4. ctx[c].status.count \in Nat /\ status.count \in Nat /\ Cardinality(Taken) \in Nat
    BY <2>1, RunningPass, TakenIsFinite DEF ReplicaSetsTypeOK, Statuses, Counts
  <2> QED
    BY <2>2, <2>3, <2>4, NamesSuffice, ReplicaSetsAssumption
<1> QED
  BY <1>1, ReplicaSetsInvHolds, PTL

=============================================================================
