------------------------- MODULE RolloutReplicaSets -------------------------
(***************************************************************************)
(* The names and the metadata of a rollout's ReplicaSets.  A ReplicaSet is *)
(* named by the hash of its template and of status.collisionCount; when    *)
(* the name is taken, the pass adopts the ReplicaSet that has it or counts *)
(* a collision, and a later pass tries another name.  canaryMetadata and   *)
(* stableMetadata are injected into the template of a new ReplicaSet, and  *)
(* later into the pods and the template of whatever has that role.         *)
(*                                                                         *)
(* A controller that loses the leadership does not stop its workers, so    *)
(* that its last passes overlap with those of the leader.  Sizes, steps    *)
(* and revisions are those of CanaryRollout: here a pass may promote the   *)
(* new ReplicaSet at any time, and ReplicaSets may get and lose pods at    *)
(* any time.                                                               *)
(***************************************************************************)
EXTENDS Integers, FiniteSets

CONSTANTS
    Templates,      \* the pod templates a user may ask for
    Deployed,       \* those that may be wanted at first
    Names,          \* the names (and hash labels) of ReplicaSets
    Hash,           \* the name for a template and a collision count
    Foreign,        \* the names that others' ReplicaSets have at first
    Keys, Values,   \* of labels and annotations
    Metadata,       \* the values of canaryMetadata and stableMetadata
    Leader, Former, \* the controller that leads, and those that have led
    Pods,           \* the pods there will ever be
    Nil,
    MaxDisturbances,\* bound on changes of the rollout, failed calls and crashes,
                    \* and passes of controllers that do not lead, taken together
    MaxCollisions   \* bound on collision counts

Counts      == 0..MaxCollisions
HashOf(t, count) == Hash[<<t, count>>]
Controllers == {Leader} \cup Former

\* Metadata are keys with values.
Metas == UNION {[K -> Values] : K \in SUBSET Keys}
None  == [k \in {} |-> Nil]

ASSUME ReplicaSetsAssumption ==
    /\ Hash \in [Templates \X Counts -> Names] /\ Foreign \subseteq Names
    /\ Nil \notin Names \cup Pods \cup Controllers /\ Nil \notin {"rollout", "other", "gone"}
    /\ "gone" \notin Names
    /\ Deployed \subseteq Templates
    /\ Metadata \subseteq [canary : Metas, stable : Metas]
    /\ MaxDisturbances \in Nat /\ MaxCollisions \in Nat

\* No two templates have a hash in common: a ReplicaSet that has the hash of
\* the wanted template is taken for it, whatever its template.
ASSUME HashesDiffer ==
    \A s, t \in Templates, i, j \in Counts : HashOf(s, i) = HashOf(t, j) => s = t

\* The counts with which some template gets a name that another owner had.
Taken == {i \in Counts : \E t \in Templates : HashOf(t, i) \in Foreign}

\* The bound on collision counts is beyond what the others can make of them.
ASSUME NamesSuffice == Cardinality(Taken) + MaxDisturbances < MaxCollisions

VARIABLES
    wanted, metadata,   \* the rollout's template, canaryMetadata and stableMetadata
    status,             \* collision count, pod hash, hash of the stable ReplicaSet
    rss,                \* the ReplicaSets, by name
    pods,               \* the pods
    pc, ctx,            \* each controller's next call and its pass
    staleRO, staleRS,   \* what was written since the pass read it
    apart,              \* the pods that may differ from their ReplicaSet
    edits, faults, overlap  \* counters

rollout == <<wanted, metadata, status>>
cluster == <<rss, pods, apart>>
bounds  == <<edits, faults, overlap>>
vars    == <<rollout, cluster, pc, ctx, staleRO, staleRS, bounds>>

NoRS   == [owner |-> Nil, template |-> Nil, meta |-> None]
Unborn == [rs |-> Nil, meta |-> None]
Gone   == [rs |-> "gone", meta |-> None]
NoPass == Nil

Owned     == {n \in Names : rss[n].owner = "rollout"}
MayDisturb == edits + faults + overlap < MaxDisturbances

PodsOf(n) == {p \in Pods : pods[p].rs = n}

FirstOf(P) == CHOOSE p \in P : TRUE

\* Nothing was deployed yet, or some template is stable and has a pod.
Init ==
    /\ wanted \in Deployed /\ metadata \in Metadata
    /\ \E n \in {Nil, HashOf(wanted, 0)} \ Foreign, t \in Templates :
          /\ status = [count |-> 0, podHash |-> n, stable |-> n]
          /\ rss = [m \in Names |->
                IF m = n THEN [owner |-> "rollout", template |-> wanted, meta |-> metadata.stable]
                ELSE IF m \in Foreign THEN [owner |-> "other", template |-> t, meta |-> None]
                ELSE NoRS]
          /\ pods = [q \in Pods |-> IF q = FirstOf(Pods) /\ n # Nil THEN [rs |-> n, meta |-> metadata.stable]
                                                        ELSE Unborn]
    /\ pc = [c \in Controllers |-> "idle"] /\ ctx = [c \in Controllers |-> NoPass]
    /\ staleRO = [c \in Controllers |-> FALSE] /\ staleRS = [c \in Controllers |-> {}]
    /\ apart = [c \in Controllers |-> {}]
    /\ edits = 0 /\ faults = 0 /\ overlap = 0

-----------------------------------------------------------------------------
(***************************************************************************)
(* What a pass sees and decides                                            *)
(***************************************************************************)
\* FindNewReplicaSet: by the hash label, then by the template without what was
\* injected into it.  (No ReplicaSet here has the label of the older hash that is
\* tried in between.)  Mutant: by the hash label only.
FindByHash(R, t, count) ==
    LET n == HashOf(t, count)
    IN  IF R[n].owner = "rollout" THEN n ELSE Nil
FindNewReplicaSet(R, t, count) ==
    LET n    == HashOf(t, count)
        same == {m \in Names : R[m].owner = "rollout" /\ R[m].template = t}
    IN  CASE R[n].owner = "rollout"                  -> n
          [] R[n].owner # "rollout" /\ same # {}     -> CHOOSE m \in same : TRUE
          [] R[n].owner # "rollout" /\ same = {}     -> Nil

CurrentHash(x) == IF x.new # Nil THEN x.new ELSE HashOf(x.wanted, x.status.count)

\* CheckPodSpecChange
TemplateChanged(x) == x.status.podHash \notin {Nil, CurrentHash(x)}

\* The metadata for the pods of a ReplicaSet, by its role.
MetadataFor(x, n) ==
    CASE n = x.new /\ x.status.stable \in {Nil, x.new}    -> x.metadata.stable
      [] n = x.new /\ x.status.stable \notin {Nil, x.new} -> x.metadata.canary
      [] n # x.new /\ n = x.stable                        -> x.metadata.stable
      [] n \notin {x.new, x.stable}                       -> None

Unsynced(x) == {n \in Names : x.seen[n].owner = "rollout" /\ x.seen[n].meta # MetadataFor(x, n)}

\* Where the pass goes when it has a new ReplicaSet.
MetadataPc(x) == IF Unsynced(x) = {} THEN "persist" ELSE "metadata"

\* The one to sync: the new ReplicaSet first, then the stable one.
NextToSync(x) ==
    CASE x.new \in Unsynced(x)                               -> x.new
      [] x.new \notin Unsynced(x) /\ x.stable \in Unsynced(x) -> x.stable
      [] {x.new, x.stable} \cap Unsynced(x) = {}             -> CHOOSE n \in Unsynced(x) : TRUE

\* SyncEphemeralPodMetadata: what is desired, and what was not injected.
SyncMetadata(meta, existing, desired) ==
    [k \in (DOMAIN meta \ DOMAIN existing) \cup DOMAIN desired |->
        IF k \in DOMAIN desired THEN desired[k] ELSE meta[k]]

PodMetadata(x, p) == LET n == NextToSync(x)
                     IN  SyncMetadata(x.listed[p], x.seen[n].meta, MetadataFor(x, n))

UnsyncedPods(x) == {p \in DOMAIN x.listed : PodMetadata(x, p) # x.listed[p]}

-----------------------------------------------------------------------------
(***************************************************************************)
(* Writes                                                                  *)
(***************************************************************************)
\* Whoever wrote has the new object, and all other passes have a stale one.
WroteRollout(by) == staleRO' = [c \in Controllers |-> pc[c] # "idle" /\ c # by]
WroteRS(by, n)   == staleRS' = [c \in Controllers |->
                        IF pc[c] = "idle" \/ c = by THEN staleRS[c] ELSE staleRS[c] \cup {n}]

Goto(c, step) == pc' = [pc EXCEPT ![c] = step]

Forget(c) == /\ Goto(c, "idle")
             /\ ctx' = [ctx EXCEPT ![c] = NoPass]
             /\ staleRS' = [staleRS EXCEPT ![c] = {}]

EndPass(c) == Forget(c) /\ staleRO' = [staleRO EXCEPT ![c] = FALSE]

-----------------------------------------------------------------------------
(***************************************************************************)
(* A pass of controller c                                                  *)
(***************************************************************************)
\* newRolloutContext, and where canary goes.
GetRollout(c) ==
    LET seen == [n \in Names |-> IF n \in Owned THEN rss[n] ELSE NoRS]
        x    == [wanted |-> wanted, metadata |-> metadata, status |-> status, seen |-> seen,
                 new |-> FindNewReplicaSet(seen, wanted, status.count),
                 stable |-> IF status.stable \in Owned THEN status.stable ELSE Nil,
                 listed |-> None]
    IN  /\ pc[c] = "idle"
        /\ IF c = Leader THEN UNCHANGED overlap
           ELSE MayDisturb /\ overlap' = overlap + 1
        /\ UNCHANGED <<rollout, cluster, staleRO, staleRS, edits, faults>>
        /\ ctx' = [ctx EXCEPT ![c] = x]
        /\ Goto(c, IF TemplateChanged(x) THEN "persist"
                   ELSE IF x.new = Nil THEN "create" ELSE MetadataPc(x))

\* createDesiredReplicaSet: Create.  It gets the metadata of its first role.
\* Mutant: the name does not depend on the collisions.
NameWithoutCount(c) == HashOf(ctx[c].wanted, 0)
Name(c) == HashOf(ctx[c].wanted, ctx[c].status.count)

Desired(c) == [owner |-> "rollout", template |-> ctx[c].wanted,
               meta |-> IF ctx[c].stable # Nil THEN ctx[c].metadata.canary
                                               ELSE ctx[c].metadata.stable]

Create(c) ==
    /\ pc[c] = "create" /\ rss[Name(c)] = NoRS
    /\ rss' = [rss EXCEPT ![Name(c)] = Desired(c)]
    /\ ctx' = [ctx EXCEPT ![c].new = Name(c), ![c].seen[Name(c)] = Desired(c)]
    /\ Goto(c, "announce")
    /\ UNCHANGED <<rollout, pods, apart, staleRO, staleRS, bounds>>

AlreadyExists(c) ==
    /\ pc[c] = "create" /\ rss[Name(c)] # NoRS
    /\ Goto(c, "exists")
    /\ UNCHANGED <<rollout, cluster, ctx, staleRO, staleRS, bounds>>

\* Get what has the name.  What was injected into it makes it differ.
\* Mutant: it is adopted whoever owns it.
SameTemplate(c)   == rss[Name(c)].template = ctx[c].wanted /\ rss[Name(c)].meta = None
IsWantedRS(c) == rss[Name(c)].owner = "rollout" /\ SameTemplate(c)

AdoptExisting(c) ==
    /\ pc[c] = "exists" /\ IsWantedRS(c)
    /\ ctx' = [ctx EXCEPT ![c].new = Name(c), ![c].seen[Name(c)] = rss[Name(c)]]
    /\ Goto(c, "announce")
    /\ UNCHANGED <<rollout, cluster, staleRO, staleRS, bounds>>

FindCollision(c) ==
    /\ pc[c] = "exists" /\ rss[Name(c)] # NoRS /\ ~IsWantedRS(c)
    /\ Goto(c, "collision")
    /\ UNCHANGED <<rollout, cluster, ctx, staleRO, staleRS, bounds>>

\* The pass fails, and the next one tries another name.
\* Mutant: the count is not stored.
DropCount(c) ==
    /\ pc[c] = "collision" /\ ~staleRO[c]
    /\ EndPass(c)
    /\ UNCHANGED <<rollout, cluster, bounds>>
CountCollision(c) ==
    /\ pc[c] = "collision" /\ ~staleRO[c]
    /\ ctx[c].status.count < MaxCollisions
    /\ status' = [ctx[c].status EXCEPT !.count = @ + 1]
    /\ WroteRollout(c) /\ Forget(c)
    /\ UNCHANGED <<wanted, metadata, cluster, bounds>>

\* The revision and the condition are written to the rollout.
Announce(c) ==
    /\ pc[c] = "announce" /\ ~staleRO[c]
    /\ WroteRollout(c)
    /\ Goto(c, MetadataPc(ctx[c]))
    /\ UNCHANGED <<rollout, cluster, ctx, staleRS, bounds>>

\* syncEphemeralMetadata: list the pods, update them one by one, and last the
\* ReplicaSet they are made from.
ListPods(c) ==
    /\ pc[c] = "metadata"
    /\ ctx' = [ctx EXCEPT ![c].listed =
                  [p \in PodsOf(NextToSync(ctx[c])) |-> pods[p].meta]]
    /\ Goto(c, "pods")
    /\ UNCHANGED <<rollout, cluster, staleRO, staleRS, bounds>>

PodIsCurrent(c, p) == pods[p] = [rs |-> NextToSync(ctx[c]), meta |-> ctx[c].listed[p]]

UpdatePod(c, p) ==
    /\ pc[c] = "pods" /\ p \in UnsyncedPods(ctx[c]) /\ PodIsCurrent(c, p)
    /\ pods' = [pods EXCEPT ![p].meta = PodMetadata(ctx[c], p)]
    /\ ctx' = [ctx EXCEPT ![c].listed[p] = PodMetadata(ctx[c], p)]
    /\ apart' = [apart EXCEPT ![c] = @ \cup {p}]
    /\ UNCHANGED <<rollout, rss, pc, staleRO, staleRS, bounds>>

\* The pods that the pass leaves as their ReplicaSet will be.
SyncedPods(x) == {p \in DOMAIN x.listed : x.listed[p] = MetadataFor(x, NextToSync(x))}

\* Pods that were made since the listing, from the old template, are missed.
\* Mutant: the ReplicaSet is updated before its pods.
UpdateReplicaSetFirst(c) ==
    LET n == NextToSync(ctx[c])
    IN  /\ pc[c] = "pods"
        /\ n \in Owned /\ n \notin staleRS[c]
        /\ rss' = [rss EXCEPT ![n].meta = MetadataFor(ctx[c], n)]
        /\ ctx' = [ctx EXCEPT ![c].seen[n].meta = MetadataFor(ctx[c], n), ![c].listed = None]
        /\ apart' = [apart EXCEPT ![c] = (@ \ SyncedPods(ctx[c]))
                                         \cup (PodsOf(n) \ DOMAIN ctx[c].listed)]
        /\ WroteRS(c, n)
        /\ Goto(c, MetadataPc(ctx'[c]))
        /\ UNCHANGED <<rollout, pods, staleRO, bounds>>
UpdateReplicaSet(c) ==
    LET n == NextToSync(ctx[c])
    IN  /\ pc[c] = "pods" /\ UnsyncedPods(ctx[c]) = {}
        /\ n \in Owned /\ n \notin staleRS[c]
        /\ rss' = [rss EXCEPT ![n].meta = MetadataFor(ctx[c], n)]
        /\ ctx' = [ctx EXCEPT ![c].seen[n].meta = MetadataFor(ctx[c], n), ![c].listed = None]
        /\ apart' = [apart EXCEPT ![c] = (@ \ SyncedPods(ctx[c]))
                                         \cup (PodsOf(n) \ DOMAIN ctx[c].listed)]
        /\ WroteRS(c, n)
        /\ Goto(c, MetadataPc(ctx'[c]))
        /\ UNCHANGED <<rollout, pods, staleRO, bounds>>

\* tryToCompleteStepAndSyncRolloutStatusCanary: a pass that found a new
\* template stores its hash; others may promote the new ReplicaSet.  When none
\* of this changes, the rest of the status may change, or nothing.
NewStatuses(x) ==
    LET kept == [x.status EXCEPT !.podHash = CurrentHash(x)]
    IN  IF TemplateChanged(x) THEN {kept}
        ELSE {kept, [kept EXCEPT !.stable = CurrentHash(x)]}

persistRolloutStatus(c) ==
    /\ pc[c] = "persist" /\ ~staleRO[c]
    /\ status' \in NewStatuses(ctx[c])
    /\ WroteRollout(c) \/ (status' = status /\ UNCHANGED staleRO)
    /\ Forget(c)
    /\ UNCHANGED <<wanted, metadata, cluster, bounds>>

\* A write of a stale object, or of one that does not exist any more.
Conflict(c) ==
    /\ \/ pc[c] \in {"collision", "announce", "persist"} /\ staleRO[c]
       \/ pc[c] = "exists" /\ rss[Name(c)] = NoRS
       \/ pc[c] = "pods" /\ \E p \in UnsyncedPods(ctx[c]) : ~PodIsCurrent(c, p)
       \/ pc[c] = "pods" /\ UnsyncedPods(ctx[c]) = {} /\ NextToSync(ctx[c]) \in staleRS[c]
    /\ EndPass(c)
    /\ UNCHANGED <<rollout, cluster, bounds>>

Pass(c) ==
    \/ GetRollout(c) \/ Create(c) \/ AlreadyExists(c)
    \/ AdoptExisting(c) \/ FindCollision(c) \/ CountCollision(c) \/ Announce(c)
    \/ ListPods(c) \/ (\E p \in Pods : UpdatePod(c, p))
    \/ UpdateReplicaSet(c)
    \/ persistRolloutStatus(c) \/ Conflict(c)

\* A call fails, or the controller crashes.
Fail(c) ==
    /\ pc[c] # "idle"
    /\ IF c \in Former THEN UNCHANGED faults
       ELSE MayDisturb /\ faults' = faults + 1
    /\ EndPass(c)
    /\ UNCHANGED <<rollout, cluster, edits, overlap>>

-----------------------------------------------------------------------------
(***************************************************************************)
(* The user and the cluster                                                *)
(***************************************************************************)
Edit ==
    /\ MayDisturb /\ edits' = edits + 1
    /\ wanted' \in Templates /\ metadata' \in Metadata
    /\ <<wanted', metadata'>> # <<wanted, metadata>>
    /\ WroteRollout(Nil)
    /\ UNCHANGED <<status, cluster, pc, ctx, staleRS, faults, overlap>>

\* A name gets free.
DeleteForeign(n) ==
    /\ rss[n].owner = "other"
    /\ rss' = [rss EXCEPT ![n] = NoRS]
    /\ UNCHANGED <<rollout, pods, apart, pc, ctx, staleRO, staleRS, bounds>>

\* The ReplicaSet controller makes a pod, and reports it at once or later.
CreatePod(n) ==
    LET unborn == {p \in Pods : pods[p] = Unborn}
    IN  /\ n \in Owned /\ unborn # {}
        /\ pods' = [pods EXCEPT ![FirstOf(unborn)] = [rs |-> n, meta |-> rss[n].meta]]
        /\ UNCHANGED staleRS \/ WroteRS(Nil, n)
        /\ UNCHANGED <<rollout, rss, apart, pc, ctx, staleRO, bounds>>

DeletePod(p) ==
    /\ pods[p].rs \in Names
    /\ pods' = [pods EXCEPT ![p] = Gone]
    /\ apart' = [c \in Controllers |-> apart[c] \ {p}]
    /\ UNCHANGED <<rollout, rss, pc, ctx, staleRO, staleRS, bounds>>

Next ==
    \/ \E c \in Controllers : Pass(c) \/ Fail(c)
    \/ Edit
    \/ \E n \in Names : DeleteForeign(n) \/ CreatePod(n)
    \/ \E p \in Pods : DeletePod(p)

\* The leader keeps making passes: there is a step it can take in every state
\* (MayGoOn), so that this is weak fairness.
Spec     == Init /\ [][Next]_vars
FairSpec == Spec /\ []<><<Pass(Leader)>>_vars

-----------------------------------------------------------------------------
(***************************************************************************)
(* Properties                                                              *)
(***************************************************************************)
\* No pass meets the bound on collision counts: it is that of the names.
MayGoOn == \A c \in Controllers : pc[c] = "collision" => ctx[c].status.count < MaxCollisions

\* The count goes up once for each count whose name another owner had, and once
\* for each pass that overlapped with the leader's: edits, failed calls and
\* crashes at any moment never make a pass collide with what the rollout owns.
CollisionsHaveCauses == status.count <= Cardinality(Taken) + overlap

Statuses    == [count : Counts, podHash : Names \cup {Nil}, stable : Names \cup {Nil}]
ReplicaSets == [owner : {"rollout", "other", Nil}, template : Templates \cup {Nil}, meta : Metas]
Contexts    == [wanted : Templates, metadata : Metadata, status : Statuses,
                seen : [Names -> ReplicaSets],
                new : Names \cup {Nil}, stable : Names \cup {Nil},
                listed : UNION {[S -> Metas] : S \in SUBSET Pods}]
Steps       == {"idle", "create", "exists", "collision", "announce", "metadata", "pods", "persist"}

ReplicaSetsTypeOK ==
    /\ wanted \in Templates /\ metadata \in Metadata /\ status \in Statuses
    /\ rss \in [Names -> ReplicaSets]
    /\ pods \in [Pods -> [rs : Names \cup {Nil, "gone"}, meta : Metas]]
    /\ pc \in [Controllers -> Steps] /\ DOMAIN ctx = Controllers
    /\ \A c \in Controllers : IF pc[c] = "idle" THEN ctx[c] = NoPass ELSE ctx[c] \in Contexts
    /\ staleRO \in [Controllers -> BOOLEAN]
    /\ staleRS \in [Controllers -> SUBSET Names] /\ apart \in [Controllers -> SUBSET Pods]
    /\ edits \in Nat /\ faults \in Nat /\ overlap \in Nat

\* A pass takes for the new ReplicaSet only one that the rollout owns and that
\* has the template the pass wants, however names are taken and freed.
NewIsWanted ==
    \A c \in Controllers :
        pc[c] # "idle" /\ ctx[c].new # Nil =>
            ctx[c].new \in Owned /\ rss[ctx[c].new].template = ctx[c].wanted

\* As long as one controller is at work, a template has one ReplicaSet, whatever
\* the collision count was when it was made, and however names are freed.
OneReplicaSetPerTemplate ==
    overlap = 0 => \A m, n \in Owned : rss[m].template = rss[n].template => m = n

\* A pod has the metadata of its ReplicaSet, unless it was made between the
\* listing of the pods and the update of the ReplicaSet, or a pass failed
\* between the update of the pod and that of the ReplicaSet.  A pod that was
\* missed may differ for ever: later passes remove only what its ReplicaSet had.
PodsFollowReplicaSets ==
    \A p \in Pods :
        pods[p].rs \in Owned /\ pods[p].meta # rss[pods[p].rs].meta
            => \E c \in Controllers : p \in apart[c]

\* What these three rest on.  The rollout's ReplicaSets have a name for their
\* template, and only them have pods.
NamedByHash ==
    \A n \in Owned : rss[n].template \in Templates /\ \E i \in Counts : n = HashOf(rss[n].template, i)
PodsOfOwned == \A p \in Pods : pods[p].rs \in Names => pods[p].rs \in Owned

\* What a pass saw of a ReplicaSet is still so, except what it knows to be stale.
SeenIsThere ==
    \A c \in Controllers, n \in Names :
        pc[c] # "idle" /\ ctx[c].seen[n].owner = "rollout" =>
            /\ n \in Owned /\ ctx[c].seen[n].template = rss[n].template
            /\ n \in staleRS[c] \/ ctx[c].seen[n].meta = rss[n].meta

\* While the leader is alone, nobody makes the ReplicaSet that it did not find.
LeaderCreates ==
    overlap = 0 =>
        /\ \A c \in Controllers \ {Leader} : pc[c] = "idle"
        /\ pc[Leader] \in {"create", "exists", "collision"} =>
              \A n \in Owned : rss[n].template # ctx[Leader].wanted

\* What a pass listed is still so, unless another pass is between the update of
\* the pod and that of its ReplicaSet, or a pod was missed.
ListedIsThere(c, p) ==
    LET x == ctx[c]
        n == NextToSync(x)
    IN  /\ pods[p].rs \in {n, "gone"}
        /\ pods[p].rs = n /\ n \notin staleRS[c] =>
              /\ pods[p].meta # x.listed[p] => \E d \in Controllers \ {c} : p \in apart[d]
              /\ x.listed[p] # x.seen[n].meta => \E d \in Controllers : p \in apart[d]
ListedAreThere ==
    \A c \in Controllers :
        pc[c] = "pods" => \A p \in DOMAIN ctx[c].listed : ListedIsThere(c, p)

SyncsOne == \A c \in Controllers : pc[c] \in {"metadata", "pods"} => Unsynced(ctx[c]) # {}

\* What CollisionsHaveCauses rests on.  A pass that is not stale has the status;
\* a stale one has an older count.
StatusIsRead ==
    \A c \in Controllers :
        pc[c] # "idle" =>
            /\ ~staleRO[c] => ctx[c].status = status
            /\ ctx[c].status.count <= status.count

\* A name that is taken is the rollout's, or one that another owner had.
TakenBySomebody == \A n \in Names : rss[n] # NoRS => n \in Foreign \cup Owned
CollidesWithTaken == \A c \in Controllers : pc[c] = "collision" => Name(c) \in Foreign \cup Owned

\* The passes that overlap and may yet collide; and whether the leader may,
\* because one of them made the ReplicaSet that the leader did not find.
Naming     == {"create", "exists", "collision"}
Overlapping == {c \in Controllers \ {Leader} : pc[c] \in Naming}
Overtaken ==
    {c \in {Leader} : pc[c] \in Naming /\ \E n \in Owned : rss[n].template = ctx[c].wanted}

\* Each collision has used up a count that is taken, or an overlapping pass:
\* the one that collided, or the one that made what the leader collided with.
CollisionsAreCounted ==
    /\ overlap <= MaxDisturbances /\ IsFiniteSet(Overlapping)
    /\ status.count + Cardinality(Overlapping) + Cardinality(Overtaken)
           <= Cardinality({i \in Taken : i < status.count}) + overlap

CollisionsInv ==
    StatusIsRead /\ TakenBySomebody /\ CollidesWithTaken /\ CollisionsAreCounted

\* All that a step needs to keep them.
ReplicaSetsInv ==
    /\ ReplicaSetsTypeOK /\ NamedByHash /\ PodsOfOwned /\ SeenIsThere
    /\ NewIsWanted /\ LeaderCreates /\ OneReplicaSetPerTemplate
    /\ SyncsOne /\ ListedAreThere /\ PodsFollowReplicaSets
    /\ CollisionsInv

\* When edits and faults end, the wanted template gets its ReplicaSet, however
\* many names are taken, and every ReplicaSet gets the metadata of its role.
Settled ==
    LET new == FindNewReplicaSet(rss, wanted, status.count)
    IN  /\ new \in Owned /\ rss[new].template = wanted
        /\ \A n \in Owned :
              rss[n].meta = MetadataFor([metadata |-> metadata, status |-> status,
                                         new |-> new, stable |-> status.stable], n)
RolloutSettles == <>[]Settled
=============================================================================
