---------------------- MODULE CanaryRolloutProperties ----------------------
(***************************************************************************)
(* What the canary controller promises, over the state of CanaryRollout.   *)
(***************************************************************************)
EXTENDS CanaryRollout

-----------------------------------------------------------------------------
(***************************************************************************)
(* Types                                                                   *)
(***************************************************************************)
PassPcs == {"checkPaused", "syncRevision", "create", "setRevision", "announce",
            "history", "scale", "cleanup", "scaleDown", "persist"}

Context == [spec : RolloutSpec, status : RolloutStatus, revision : Nat,
            rss : [Templates -> ReplicaSet], retired : Nat,
            new : Templates \cup {Nil}, stable : Templates \cup {Nil},
            others : SUBSET Templates, addPause : BOOLEAN,
            todo : SUBSET Templates, budget : Nat]

\* Every variable has its type; a pass has a context; newRS is known wherever
\* the code dereferences it.
TypeOK ==
    /\ spec \in RolloutSpec
    /\ status \in RolloutStatus
    /\ revision \in Nat
    /\ rss \in [Templates -> ReplicaSet]
    /\ retired \in Nat
    /\ pc \in PassPcs \cup {"idle"}
    /\ IF pc = "idle" THEN ctx = NoPass ELSE ctx \in Context
    /\ pc \in {"syncRevision", "setRevision", "announce", "history", "scale",
               "cleanup", "scaleDown"} => ctx.new # Nil
    /\ staleRO \in BOOLEAN
    /\ staleRS \subseteq Templates
    /\ timeUp \in BOOLEAN /\ resumed \in BOOLEAN
    /\ edits \in Nat /\ faults \in Nat

-----------------------------------------------------------------------------
(***************************************************************************)
(* ReplicaSets                                                             *)
(***************************************************************************)
ScaledUp(t)   == rss'[t].spec > rss[t].spec
ScaledDown(t) == Exists(t)' /\ rss'[t].spec < rss[t].spec

\* README principle 2: only the ReplicaSet of the rollout's template is scaled
\* up; a stable or other one never is, even while its pods lag behind its size.
OldNeverScaledUp == [][\A t \in Templates : ScaledUp(t) => t = ctx.new]_vars

\* README principle 3: the new ReplicaSet is only scaled down to the size of
\* the rollout, unless it is the stable one (a rollback).
NewShrinksOnlyToRolloutSize ==
    [][\A t \in Templates : ScaledDown(t) /\ t = ctx.new /\ t # ctx.stable
            => rss'[t].spec = ctx.spec.replicas]_vars

\* README principle 4: the other ReplicaSets go before the stable one, which is
\* scaled down when all of them are at zero.
StableScaledDownLast ==
    [][\A t \in Templates : ScaledDown(t) /\ t = ctx.stable /\ t # ctx.new
            => \A u \in Templates \ {ctx.new, ctx.stable} : rss[u].spec = 0]_vars

\* The stable ReplicaSet, which a rollback needs, is never collected as history.
StableExists == status.stableRS # Nil => Exists(status.stableRS)

\* When newRS is scaled, and when the old ones are, it has the greatest revision.
NewHasGreatestRevision ==
    pc \in {"history", "scale", "cleanup", "scaleDown"} =>
        \A t \in Templates \ {ctx.new} : rss[t].rev < rss[ctx.new].rev

\* README principle 5, as far as it holds: when enough pods are available,
\* scaling up stays within spec.replicas + maxSurge in all.
AvailableEnough(c) == GetAvailableReplicaCount(c.rss, Templates) >= MinAvailable(c.spec)

ScaleUpWithinSurge ==
    [][(\E t \in Templates : ScaledUp(t)) /\ AvailableEnough(ctx)
        => GetReplicaCount(rss', Templates) <= ctx.spec.replicas + MaxSurge(ctx.spec)]_vars

\* README principle 6, as far as it holds: when a pass sees enough available
\* pods, and none that are about to be deleted, what it scales down leaves at
\* least spec.replicas - maxUnavailable of those pods running.
Terminating(rs) == rs.avail > rs.spec

SurvivingPods(r) == Cardinality(Pods(Templates,
    [t \in Templates |-> Smaller(r[t].spec, ctx.rss[t].avail)]))

PassKeepsMinAvailable ==
    [][/\ \E t \in Templates : ScaledDown(t)
       /\ AvailableEnough(ctx)
       /\ \A t \in Templates : ~Terminating(ctx.rss[t])
       => SurvivingPods(rss') >= MinAvailable(ctx.spec)]_vars

-----------------------------------------------------------------------------
(***************************************************************************)
(* Why they hold: the inductive invariant.  A pass works with a snapshot   *)
(* that may be out of date, but nobody else creates, deletes or resizes    *)
(* ReplicaSets, or sets stableRS, so what the pass decides from is current.*)
(***************************************************************************)
AbsentHasNoPods == \A t \in Templates : ~Exists(t) => rss[t].spec = 0

\* newRS, stableRS and otherRSs are all the ReplicaSets there are; newRS is
\* nil only until it is created, or when the pass only resets the status.
SnapshotIsCurrent ==
    pc # "idle" =>
        /\ ctx.status.stableRS = status.stableRS
        /\ status.stableRS # Nil => ctx.stable = status.stableRS
        /\ ctx.new # Nil => ctx.new = ctx.spec.template /\ Exists(ctx.new)
        /\ ctx.new = Nil =>
              \/ pc = "persist" /\ PodTemplateOrStepsChanged(ctx)
              \/ pc \in {"checkPaused", "create"} /\ ~Exists(ctx.spec.template)
        /\ pc = "create" => ctx.new = Nil
        /\ ctx.spec.template \notin ctx.others /\ ctx.stable \notin ctx.others
        /\ \A t \in Templates : Exists(t) => t \in ctx.others \cup {ctx.new, ctx.stable}

\* The sizes in the snapshot are the real ones until the pass has scaled
\* something; in the loop over the old ReplicaSets, those it has not come to
\* keep their sizes, and those it has passed are at zero.
SizesAreCurrent ==
    /\ pc \in PassPcs \ {"scaleDown", "persist"} =>
          \A t \in Templates : rss[t].spec = ctx.rss[t].spec
    /\ pc = "scaleDown" =>
          /\ ctx.budget > 0 /\ ctx.todo \subseteq ctx.others
          /\ \A t \in Templates : t \in ctx.todo \cup {ctx.stable} => rss[t].spec = ctx.rss[t].spec
          /\ \A t \in ctx.others \ ctx.todo : rss[t].spec = 0

\* The revisions in the snapshot are the real ones until newRS gets its own,
\* but for those deleted since; from then on it is beyond all in the snapshot.
RevisionIsOpen == {"checkPaused", "syncRevision", "create"}
RevisionIsSet  == {"setRevision", "announce", "history", "scale", "cleanup", "scaleDown"}

RevisionsAreCurrent ==
    /\ \A t \in Templates : ~Exists(t) => rss[t].rev = 0
    /\ pc # "idle" =>
          \A t \in Templates \ {ctx.new} :
              /\ rss[t].rev <= ctx.rss[t].rev
              /\ t \notin Seen(ctx) => ctx.rss[t].rev = 0
    /\ pc \in RevisionIsOpen => \A t \in Templates : rss[t].rev = ctx.rss[t].rev
    /\ pc \in RevisionIsSet =>
          \A t \in Templates \ {ctx.new} : ctx.rss[t].rev < rss[ctx.new].rev

IInv ==
    /\ TypeOK /\ StableExists /\ AbsentHasNoPods
    /\ SnapshotIsCurrent /\ SizesAreCurrent /\ RevisionsAreCurrent

\* Why the limits hold.  ReplicaSets that the pass does not know have no pods to
\* count; and what the loop over the old ReplicaSets may still take away, the
\* available pods of the snapshot that are wanted can spare.
UnseenHasNoPods ==
    /\ \A t \in Templates : ~Exists(t) => rss[t].actual = 0 /\ rss[t].avail = 0
    /\ pc # "idle" =>
          \A t \in Templates \ (ctx.others \cup {ctx.new, ctx.stable}) : ctx.rss[t].avail = 0

BudgetIsLeft ==
    pc = "scaleDown" /\ (\A t \in Templates : ~Terminating(ctx.rss[t]))
        => SurvivingPods(rss) - ctx.budget >= MinAvailable(ctx.spec)

LimitsInv == UnseenHasNoPods /\ BudgetIsLeft

-----------------------------------------------------------------------------
(***************************************************************************)
(* Steps and pauses                                                        *)
(***************************************************************************)

\* A status st is at a step of the plan it has adopted, and that is a pause.
PausesAt(st) ==
    /\ st.stepHash # Nil
    /\ st.stepIndex \in 0..(Len(st.stepHash) - 1)
    /\ st.stepHash[st.stepIndex + 1].pause

FitsPlan(st) ==
    /\ st.stepHash = Nil <=> st.podHash = Nil
    /\ IF st.stepHash = Nil \/ st.stepHash = <<>>
       THEN st.stepIndex = NoIndex ELSE st.stepIndex \in 0..Len(st.stepHash)
    /\ st.pauseCondition => PausesAt(st)

\* The index is one of the steps it was computed for, or just past them, and
\* the rollout waits at a pause of that plan only, whatever plan the user has
\* put in its place since.
StatusFitsPlan == FitsPlan(status)

\* README, step rules: steps are taken one at a time and in order; otherwise
\* the index starts over with a new template or new steps, or jumps to the end
\* when the template is, or becomes, the stable one.
StepsInOrder ==
    [][status'.stepIndex # status.stepIndex =>
        \/ status'.stepIndex = status.stepIndex + 1
        \/ /\ status'.stepIndex = StartIndex(status'.stepHash)
           /\ \/ status'.stepHash # status.stepHash
              \/ status'.podHash # status.podHash
        \/ /\ status'.stepIndex = EndIndex(status'.stepHash)
           /\ status'.stableRS = status'.podHash]_vars

\* A pause step ends when the user resumes, when its duration is over, or when
\* newRS is already beyond the step: larger than its target, or at full size.
AtPause == PausesAt(status)

AtTimedPause == AtPause /\ status.stepHash[status.stepIndex + 1].timed

PauseHoldsUntilOver ==
    [][AtPause /\ status'.stepIndex = status.stepIndex + 1
            /\ status'.stepHash = status.stepHash /\ status'.podHash = status.podHash
            /\ status'.stableRS # status'.podHash
        => \/ resumed
           \/ AtTimedPause /\ timeUp
           \/ ctx.rss[ctx.new].spec > DesiredNewReplicas(ctx)
           \/ ctx.rss[ctx.new].spec >= ctx.spec.replicas]_vars

\* A pause that the controller has made and that is not a condition any more was
\* ended by the user, since the controller ends it together with controllerPause:
\* the next pause does not count as resumed beforehand.
UserEndedPause == status.controllerPause /\ ~status.pauseCondition => resumed

\* A pass writes the whole rollout back, and never undoes an edit by that.
EditsAreKept == [][pc' # pc => spec' = spec]_vars

\* Only the template the user asks for becomes stable, whatever edits race with
\* the pass that promotes it.
PromotesWantedTemplate ==
    [][status'.stableRS # status.stableRS => status'.stableRS = spec.template]_vars

-----------------------------------------------------------------------------
(***************************************************************************)
(* The rollout as its user sees it: CanaryRollout implements CanarySteps,  *)
(* the abstract machine, when the store rejects stale writes.              *)
(***************************************************************************)
Steps == INSTANCE CanarySteps WITH
    wanted  <- spec.template,   plan    <- spec.steps,
    stable  <- status.stableRS, current <- status.podHash,
    adopted <- status.stepHash, index   <- status.stepIndex,
    waiting <- status.pauseCondition

\* Whatever edits, conflicts, failures and crashes a pass meets, what the user
\* sees of the rollout is a behaviour of the abstract machine.
ImplementsSteps == Steps!Spec

\* With locking, a pass whose copy is not stale holds the rollout as it is.
SnapshotIsFresh ==
    Locking /\ pc # "idle" /\ ~staleRO => ctx.spec = spec /\ ctx.status = status

\* Why it does: a write that succeeds is computed from the rollout it changes.
StepsInv ==
    /\ StatusFitsPlan
    /\ pc # "idle" => FitsPlan(ctx.status) /\ (ctx.addPause => AtPauseStep(ctx))
    /\ SnapshotIsFresh

-----------------------------------------------------------------------------
(***************************************************************************)
(* Progress                                                                *)
(***************************************************************************)
RolledOut ==
    /\ status.stableRS = spec.template /\ status.podHash = spec.template
    /\ status.stepHash = spec.steps /\ status.stepIndex = EndIndex(spec.steps)
    /\ \A t \in Templates :
          rss[t].spec = IF t = spec.template THEN spec.replicas ELSE 0
    /\ \A t \in Templates : rss[t].avail = rss[t].spec /\ rss[t].actual = rss[t].spec

WaitsForUser == spec.paused \/ (status.pauseCondition /\ AtPause /\ ~AtTimedPause)

\* Once the user is done and pods no longer fail, the rollout gets to the wanted
\* template at full size with nothing else running, or waits for the user.
Completes == <>[]RolledOut \/ <>[]WaitsForUser
=============================================================================
