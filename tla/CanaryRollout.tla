--------------------------- MODULE CanaryRollout ---------------------------
(***************************************************************************)
(* One Rollout object, the ReplicaSets it owns, and the controller that    *)
(* reconciles them.  The controller has a single worker: it reads the      *)
(* rollout and lists the ReplicaSets (GetRollout), and then works through  *)
(* one pass with that snapshot, one action per call to the API server.     *)
(* Between any two calls the user may edit or resume the rollout, the      *)
(* ReplicaSet controller and the kubelets may move pods, and time may      *)
(* pass.  Any call may fail, and the controller may crash, which ends the  *)
(* pass and leaves what was written so far.                                *)
(*                                                                         *)
(* A ReplicaSet is named by its pod template (the pod template hash, no    *)
(* collisions).  The rollout is valid, has .spec.replicas set, and has no  *)
(* canaryMetadata or stableMetadata.                                       *)
(***************************************************************************)
EXTENDS CanaryMath

CONSTANTS
    Templates,          \* the pod templates a user may ask for
    StepPlans,          \* the values of spec.strategy.canary.steps
    ReplicaCounts,      \* the values of spec.replicas
    Surge, Unavailable, \* spec.strategy.canary.maxSurge and maxUnavailable
    HistoryLimit,       \* spec.revisionHistoryLimit
    Retired,            \* old ReplicaSets without pods that exist at first
    Deployed,           \* what may be fully rolled out at first: templates, or Nil
    Locking,            \* the rollout store rejects writes of stale objects
    MaxEdits,           \* bound on the user's edits and resumes
    MaxFaults           \* bound on failed calls, crashes, and pods that become
                        \* unavailable, taken together

ASSUME ConstantsAssumption ==
    /\ Templates # {} /\ IsFiniteSet(Templates) /\ Nil  \notin Templates
    /\ StepPlans \subseteq Seq(CanaryStep) /\ StepPlans # {}
    /\ Nil  \notin StepPlans
    /\ ReplicaCounts \subseteq Nat /\ ReplicaCounts # {}
    /\ Surge \in IntOrString /\ Unavailable \in IntOrString
    /\ Surge.value + Unavailable.value > 0
    /\ HistoryLimit \in Nat /\ Retired \in Nat
    /\ Deployed \subseteq Templates \cup {Nil} /\ Deployed # {}
    /\ Locking \in BOOLEAN
    /\ MaxEdits \in Nat /\ MaxFaults \in Nat

VARIABLES
    spec,       \* the rollout's spec
    status,     \* the rollout's status
    revision,   \* the rollout's revision annotation, 0 when it has none
    rss,        \* the ReplicaSets, by template
    retired,    \* how many of the old ReplicaSets without pods still exist
    pc,         \* the controller's next call, "idle" between passes
    ctx,        \* the rolloutContext of the pass: its snapshot, NoPass when idle
    staleRO,    \* the rollout was written since the copy in ctx was read
    staleRS,    \* the ReplicaSets that were written since ctx read them
    timeUp,     \* the running pause has lasted its duration
    resumed,    \* the user has resumed since the controller last paused
    edits, faults

rollout  == <<spec, status, revision>>
cluster  == <<rss, retired>>
pass     == <<pc, ctx, staleRO, staleRS>>
pauses   == <<timeUp, resumed>>
bounds   == <<edits, faults>>
vars     == <<rollout, cluster, pass, pauses, bounds>>

-----------------------------------------------------------------------------
(***************************************************************************)
(* Types and initial state                                                 *)
(***************************************************************************)
RolloutSpec == [template : Templates, steps : StepPlans, replicas : ReplicaCounts,
          surge : {Surge}, unavailable : {Unavailable}, paused : BOOLEAN]

\* Of the conditions, only those that record a pause: Progressing with reason
\* RolloutPaused (progPaused) and Paused with status True (condPaused).
RolloutStatus == [stableRS : Templates \cup {Nil}, podHash : Templates \cup {Nil},
            stepHash : StepPlans \cup {Nil}, stepIndex : Nat \cup {NoIndex},
            controllerPause : BOOLEAN, pauseCondition : BOOLEAN,
            progPaused : BOOLEAN, condPaused : BOOLEAN]

\* born orders creation; a ReplicaSet with born = 0 does not exist.  observed:
\* its controller has seen its generation (status.observedGeneration), which
\* starts with its creation and changes with its size.
ReplicaSet == [born : Nat, rev : Nat, spec : Nat, actual : Nat, avail : Nat, observed : BOOLEAN]
Absent     == [born |-> 0, rev |-> 0, spec |-> 0, actual |-> 0, avail |-> 0, observed |-> FALSE]

EmptyStatus == [stableRS |-> Nil, podHash |-> Nil, stepHash |-> Nil,
                stepIndex |-> NoIndex, controllerPause |-> FALSE,
                pauseCondition |-> FALSE, progPaused |-> FALSE, condPaused |-> FALSE]

\* Past the last step; nil when there are none.
EndIndex(steps)   == IF steps = <<>> THEN NoIndex ELSE Len(steps)
\* The first step; nil when there are none.  Mutant: not nil.
StartAtZero(steps) == 0
StartIndex(steps) == IF steps = <<>> THEN NoIndex ELSE 0

DeployedStatus(s) == [EmptyStatus EXCEPT
    !.stableRS = s.template, !.podHash = s.template, !.stepHash = s.steps,
    !.stepIndex = EndIndex(s.steps)]

DeployedRS(n) == [born |-> 1, rev |-> 1, spec |-> n, actual |-> n, avail |-> n,
                  observed |-> TRUE]

NoPass == Nil

Exists(t) == rss[t].born > 0

\* Either nothing has been deployed (t = Nil), or t is stable at full size.
InitialRollout(t) ==
    /\ spec \in {s \in RolloutSpec : t \in {s.template, Nil} /\ ~s.paused}
    /\ status = IF t = Nil THEN EmptyStatus ELSE DeployedStatus(spec)
    /\ revision = IF t = Nil THEN 0 ELSE 1
    /\ rss = [u \in Templates |-> IF u = t THEN DeployedRS(spec.replicas) ELSE Absent]

Init ==
    /\ \E t \in Deployed : InitialRollout(t)
    /\ retired = Retired
    /\ pc = "idle" /\ ctx = NoPass /\ staleRO = FALSE /\ staleRS = {}
    /\ timeUp = FALSE /\ resumed = FALSE
    /\ edits = 0 /\ faults = 0

-----------------------------------------------------------------------------
(***************************************************************************)
(* What a pass sees and decides                                            *)
(***************************************************************************)
Seen(c)  == {t \in Templates : c.rss[t].born > 0}
Older(c) == Seen(c) \ {c.new}

\* No hash was ever stored, or a stored hash differs: a new rollout begins.
PodTemplateOrStepsChanged(c) ==
    \/ c.status.stepHash # c.spec.steps
    \/ c.status.podHash # Nil /\ c.status.podHash # c.spec.template

MaxRevision(c) == Max({0} \cup {c.rss[t].rev : t \in Older(c)})

\* One more than every older ReplicaSet has.  Mutant: the same.
SameRevision(c) == Larger(1, MaxRevision(c))
NewRevision(c) == MaxRevision(c) + 1

RevisionIsStale(c) == c.rss[c.new].rev < NewRevision(c)

\* What the rollout's revision annotation has to be.
RolloutRevision(c) == Larger(c.rss[c.new].rev, NewRevision(c))

IsPaused(c) == c.status.pauseCondition \/ c.spec.paused

AtPauseStep(c) == StepsRemain(c) /\ GetCurrentCanaryStep(c).pause

OldestFirst(c, R) == CHOOSE t \in R : \A u \in R : c.rss[t].born <= c.rss[u].born

NewestRevisionFirst(c, R) == CHOOSE t \in R : \A u \in R : c.rss[u].rev <= c.rss[t].rev

\* otherRSs beyond the history limit, without pods and at rest.  The retired ones
\* are older than every ReplicaSet of Templates.
Excess(c) == Cardinality(c.others) + c.retired - HistoryLimit

HasNoPods(rs) == rs.spec = 0 /\ rs.actual = 0 /\ rs.observed

\* Mutant: every older ReplicaSet, the stable one too.
DoomedOlder(c) == {t \in Older(c) : HasNoPods(c.rss[t]) /\ Excess(c) >= 0}
Doomed(c) == {t \in c.others :
                /\ c.retired + Cardinality({u \in c.others : c.rss[u].born < c.rss[t].born})
                     < Excess(c)
                /\ HasNoPods(c.rss[t])}

DoomedRetired(c) == Larger(0, Smaller(Excess(c), c.retired))

\* reconcileNewReplicaSet: the new size of newRS; its size when it stays.
\* Mutant: without the branch that refuses to scale it down.
NewReplicasUnguarded(c) ==
    IF c.rss[c.new].spec > c.spec.replicas THEN c.spec.replicas
    ELSE IF AllDesiredAreAvailable(c.rss[c.new], c.spec.replicas) THEN c.rss[c.new].spec
    ELSE Larger(0, NewRSNewReplicas(c))
NewReplicasCount(c) ==
    LET new == c.rss[c.new]
    IN  IF new.spec > c.spec.replicas THEN c.spec.replicas
        ELSE IF AllDesiredAreAvailable(new, c.spec.replicas) THEN new.spec
        ELSE Larger(new.spec, NewRSNewReplicas(c))

\* Old ReplicaSets with pods that are not available.
Unhealthy(c) == {t \in c.others : c.rss[t].spec > 0 /\ c.rss[t].spec # c.rss[t].avail}

\* Mutant: pods that are wanted, available or not.
MaxScaleDownOfWanted(c) ==
    GetReplicaCount(c.rss, Seen(c)) - MinAvailable(c.spec)
MaxScaleDown(c) ==
    GetAvailableReplicaCount(c.rss, Seen(c)) - MinAvailable(c.spec)

\* The next old ReplicaSet to shrink: latest revision first, stable last.
\* Mutant: the stable one is in the list that is sorted.
VictimByRevision(c) ==
    LET running == {t \in c.todo \cup ({c.stable} \ {Nil}) : c.rss[t].spec > 0}
    IN  IF running # {} THEN NewestRevisionFirst(c, running) ELSE c.stable
Victim(c) ==
    LET running == {t \in c.todo : c.rss[t].spec > 0}
    IN  IF running # {} THEN NewestRevisionFirst(c, running) ELSE c.stable

\* Mutant: as many as may go, though there are fewer.
ScaleDownBelowZero(c) == c.rss[Victim(c)].spec - c.budget
ScaleDownTo(c) == Larger(0, c.rss[Victim(c)].spec - c.budget)

\* The pause step at the current index is over.
\* Mutants: a pause that was not yet added counts as removed by the user; the
\* duration of the step is not looked at.
PauseNotMarked(c) ==
    \/ ~c.status.pauseCondition
    \/ GetCurrentCanaryStep(c).timed /\ timeUp
DurationIgnored(c) == c.status.controllerPause /\ ~c.status.pauseCondition
CompletedCanaryPauseStep(c) ==
    \/ c.status.controllerPause /\ ~c.status.pauseCondition
    \/ GetCurrentCanaryStep(c).timed /\ c.status.pauseCondition /\ timeUp

completedCurrentCanaryStep(c) ==
    /\ ~c.spec.paused
    /\ StepsRemain(c)
    /\ IF GetCurrentCanaryStep(c).pause
       THEN \/ AllDesiredAreAvailable(c.rss[c.new], c.spec.replicas)
            \/ c.rss[c.new].spec > DesiredNewReplicas(c)
            \/ CompletedCanaryPauseStep(c)
       ELSE AtDesiredReplicaCountsForCanary(c)

\* Mutant: more than spec.replicas must be available.
PromoteAbove(c) == c.rss[c.new].avail > c.spec.replicas
shouldFullPromote(c) == c.rss[c.new].avail >= c.spec.replicas

-----------------------------------------------------------------------------
(***************************************************************************)
(* Writes.  A write of a stale object is a conflict.                       *)
(***************************************************************************)
EndPass == pc' = "idle" /\ ctx' = NoPass /\ staleRO' = FALSE /\ staleRS' = {}

\* The rollout is as the pass last read or wrote it.  Mutant: the last write wins.
LastWriteWins == TRUE
UpToDate == ~staleRO

\* UpdateStatus replaces the whole status; kept says whether the pass holds
\* the object it got back, or goes on with the one it sent.
UpdateStatus(new, kept) ==
    /\ UpToDate
    /\ status' = new
    /\ staleRO' = (Locking /\ ~kept)

\* Update of a ReplicaSet: its size, or its revision.
UpdateRS(t, new) ==
    /\ t \notin staleRS
    /\ rss' = [rss EXCEPT ![t] = new]

\* Another size is another generation.
Resize(rs, n) == [rs EXCEPT !.spec = n, !.observed = FALSE]

\* Someone else wrote the rollout, or the ReplicaSets R, while a pass runs.
TouchRollout == staleRO' = (staleRO \/ (Locking /\ pc # "idle"))
TouchRS(R)   == staleRS' = IF pc = "idle" THEN {} ELSE staleRS \cup R

-----------------------------------------------------------------------------
(***************************************************************************)
(* The pass                                                                *)
(***************************************************************************)

\* syncHandler, newRolloutContext: get the rollout, list its ReplicaSets.
\* Nothing that happens between the two calls can be told from its happening
\* before the first or after the second.
GetRollout ==
    LET new    == IF Exists(spec.template) THEN spec.template ELSE Nil
        stable == IF status.stableRS # Nil /\ Exists(status.stableRS)
                  THEN status.stableRS ELSE Nil
    IN  /\ pc = "idle"
        /\ pc' = "checkPaused"
        /\ ctx' = [spec |-> spec, status |-> status, revision |-> revision,
                   rss |-> rss, retired |-> retired,
                   new |-> new, stable |-> stable,
                   others |-> {t \in Templates : Exists(t)} \ {new, stable},
                   addPause |-> FALSE, todo |-> {}, budget |-> 0]
        /\ UNCHANGED <<rollout, cluster, staleRO, staleRS, pauses, bounds>>

\* canary: where getNewReplicaSetAndSyncRevision goes.
SyncRevisionPc(c) ==
    IF c.new # Nil THEN "syncRevision"
    ELSE IF PodTemplateOrStepsChanged(c) THEN "persist" ELSE "create"

\* checkPausedConditions: the object that UpdateStatus returns is dropped, so
\* a pass that writes here goes on with a stale rollout.
checkPausedConditions ==
    LET paused == IsPaused(ctx)
        marked == [ctx.status EXCEPT !.progPaused = paused, !.condPaused = paused]
    IN  /\ pc = "checkPaused"
        /\ IF ctx.status = marked
           THEN UNCHANGED <<status, staleRO>>
           ELSE UpdateStatus(marked, FALSE)
        /\ ctx' = [ctx EXCEPT !.status = marked]
        /\ pc' = SyncRevisionPc(ctx)
        /\ UNCHANGED <<spec, revision, cluster, staleRS, pauses, bounds>>

\* syncReplicaSetRevision, when newRS has to get a later revision.
syncReplicaSetRevision ==
    /\ pc = "syncRevision"
    /\ RevisionIsStale(ctx)
    /\ UpdateRS(ctx.new, [rss[ctx.new] EXCEPT !.rev = NewRevision(ctx)])
    /\ ctx' = [ctx EXCEPT !.rss[ctx.new].rev = NewRevision(ctx)]
    /\ pc' = IF PodTemplateOrStepsChanged(ctx) THEN "persist" ELSE "history"
    /\ UNCHANGED <<rollout, retired, staleRO, staleRS, pauses, bounds>>

\* createDesiredReplicaSet: Create, without pods.  allRSs and the others keep
\* what the snapshot held.
CreatedRS == [Absent EXCEPT !.born = 1 + Max({rss[t].born : t \in Templates}),
                            !.rev = 1 + MaxRevision(ctx)]

createDesiredReplicaSet ==
    /\ pc = "create"
    /\ rss' = [rss EXCEPT ![ctx.spec.template] = CreatedRS]
    /\ ctx' = [ctx EXCEPT !.new = ctx.spec.template]
    /\ pc' = "setRevision"
    /\ UNCHANGED <<rollout, retired, staleRO, staleRS, pauses, bounds>>

\* setRolloutRevision writes the whole rollout as the pass holds it.
setRolloutRevision ==
    LET created == ctx.rss[ctx.new].born = 0
    IN  /\ \/ pc = "setRevision"
           \/ pc = "syncRevision" /\ ~RevisionIsStale(ctx)
        /\ IF ctx.revision = RolloutRevision(ctx)
           THEN UNCHANGED <<spec, revision>>
           ELSE UpToDate /\ spec' = ctx.spec /\ revision' = RolloutRevision(ctx)
        /\ ctx' = [ctx EXCEPT !.revision = RolloutRevision(ctx)]
        /\ pc' = IF created THEN "announce"
                 ELSE IF PodTemplateOrStepsChanged(ctx) THEN "persist" ELSE "history"
        /\ UNCHANGED <<status, cluster, staleRO, staleRS, pauses, bounds>>

\* createDesiredReplicaSet, end: the condition that newRS was created.
AnnounceReplicaSet ==
    LET announced == [ctx.status EXCEPT !.progPaused = FALSE]
    IN  /\ pc = "announce"
        /\ UpdateStatus(announced, TRUE)
        /\ ctx' = [ctx EXCEPT !.status = announced]
        /\ pc' = "history"
        /\ UNCHANGED <<spec, revision, cluster, staleRS, pauses, bounds>>

\* reconcileRevisionHistoryLimit: one Delete per call, oldest first.
reconcileRevisionHistoryLimit ==
    LET left == {t \in Doomed(ctx) : Exists(t)}
        retiredLeft == retired > ctx.retired - DoomedRetired(ctx)
    IN  /\ pc = "history"
        /\ IF retiredLeft
           THEN retired' = retired - 1 /\ UNCHANGED <<rss, pc>>
           ELSE IF left # {}
           THEN /\ rss' = [rss EXCEPT ![OldestFirst(ctx, left)] = Absent]
                /\ UNCHANGED <<retired, pc>>
           ELSE pc' = "scale" /\ UNCHANGED cluster
        /\ UNCHANGED <<rollout, ctx, staleRO, staleRS, pauses, bounds>>

\* reconcileCanaryPause: a pause step stops the pass before any scaling.
reconcileCanaryPause ==
    /\ pc = "scale"
    /\ ~ctx.spec.paused /\ AtPauseStep(ctx)
    /\ ctx' = [ctx EXCEPT !.addPause = ~ctx.status.pauseCondition
                                       /\ ~ctx.status.controllerPause]
    /\ pc' = "persist"
    /\ UNCHANGED <<rollout, cluster, staleRO, staleRS, pauses, bounds>>

\* haltProgress: the user has paused the rollout.
haltProgress ==
    /\ pc = "scale"
    /\ ctx.spec.paused
    /\ pc' = "persist"
    /\ UNCHANGED <<rollout, cluster, ctx, staleRO, staleRS, pauses, bounds>>

\* reconcileNewReplicaSet, when newRS changes size: the pass scales nothing else.
reconcileNewReplicaSet ==
    /\ pc = "scale"
    /\ ~ctx.spec.paused /\ ~AtPauseStep(ctx)
    /\ NewReplicasCount(ctx) # ctx.rss[ctx.new].spec
    /\ UpdateRS(ctx.new, Resize(rss[ctx.new], NewReplicasCount(ctx)))
    /\ pc' = "persist"
    /\ UNCHANGED <<rollout, retired, ctx, staleRO, staleRS, pauses, bounds>>

\* reconcileOldReplicaSets, when newRS keeps its size.
reconcileOldReplicaSets ==
    /\ pc = "scale"
    /\ ~ctx.spec.paused /\ ~AtPauseStep(ctx)
    /\ NewReplicasCount(ctx) = ctx.rss[ctx.new].spec
    /\ pc' = IF GetReplicaCount(ctx.rss, Older(ctx)) = 0 THEN "persist" ELSE "cleanup"
    /\ UNCHANGED <<rollout, cluster, ctx, staleRO, staleRS, pauses, bounds>>

\* The error of cleanupUnhealthyReplicas.  Mutant: no such error.
NeverAnError(rs) == FALSE
MoreAvailableThanWanted(rs) == rs.avail > rs.spec

\* cleanupUnhealthyReplicas: oldest first, down to the available pods.  More
\* available than wanted is an error, and every error here is swallowed.
cleanupUnhealthyReplicas ==
    LET t == OldestFirst(ctx, Unhealthy(ctx))
    IN  /\ pc = "cleanup"
        /\ Unhealthy(ctx) # {}
        /\ IF MoreAvailableThanWanted(ctx.rss[t]) \/ t \in staleRS
           THEN pc' = "persist" /\ UNCHANGED <<rss, ctx>>
           ELSE /\ UpdateRS(t, Resize(rss[t], ctx.rss[t].avail))
                /\ ctx' = [ctx EXCEPT !.rss[t].spec = ctx.rss[t].avail]
                /\ UNCHANGED pc
        /\ UNCHANGED <<rollout, retired, staleRO, staleRS, pauses, bounds>>

\* scaleDownOldReplicaSetsForCanary, after the cleanup: how many may go.
StartScaleDown ==
    /\ pc = "cleanup"
    /\ Unhealthy(ctx) = {}
    /\ pc' = IF MaxScaleDown(ctx) <= 0 THEN "persist" ELSE "scaleDown"
    /\ ctx' = [ctx EXCEPT !.budget = Larger(0, MaxScaleDown(ctx)), !.todo = ctx.others]
    /\ UNCHANGED <<rollout, cluster, staleRO, staleRS, pauses, bounds>>

\* The loop over the old ReplicaSets.  A conflict ends it, and is swallowed.
\* The snapshot keeps the old size of what the loop shrinks.
scaleDownOldReplicaSetsForCanary ==
    LET t == Victim(ctx)
        left == ctx.budget - (ctx.rss[t].spec - ScaleDownTo(ctx))
    IN  /\ pc = "scaleDown"
        /\ t # Nil
        /\ IF ctx.rss[t].spec = 0 \/ t \in staleRS
           THEN pc' = "persist" /\ UNCHANGED <<rss, ctx>>
           ELSE /\ UpdateRS(t, Resize(rss[t], ScaleDownTo(ctx)))
                /\ ctx' = [ctx EXCEPT !.todo = ctx.todo \ {t}, !.budget = left]
                /\ pc' = IF t = ctx.stable \/ left = 0 THEN "persist" ELSE "scaleDown"
        /\ UNCHANGED <<rollout, retired, staleRO, staleRS, pauses, bounds>>

\* The loop reaches a nil stableRS: the worker recovers and requeues.
PanicOnNilStable ==
    /\ pc = "scaleDown"
    /\ Victim(ctx) = Nil
    /\ EndPass
    /\ UNCHANGED <<rollout, cluster, pauses, bounds>>

\* calculateBaseStatus and CalculatePauseStatus: what every status has in
\* common, with the pause kept or, when cleared, ended.  Mutant: a cleared pause
\* leaves controllerPause behind.
KeepsControllerPause(c, cleared) ==
    [c.status EXCEPT
        !.podHash = c.spec.template,
        !.stepHash = c.spec.steps,
        !.pauseCondition = ~cleared /\ (@ \/ c.addPause),
        !.controllerPause = c.addPause \/ (@ /\ c.status.pauseCondition)]
BaseStatus(c, cleared) ==
    [c.status EXCEPT
        !.podHash = c.spec.template,
        !.stepHash = c.spec.steps,
        !.pauseCondition = ~cleared /\ (@ \/ c.addPause),
        !.controllerPause = ~cleared /\ (c.addPause \/ (@ /\ c.status.pauseCondition))]

\* A new rollout starts over, unless it is a rollback to the stable ReplicaSet.
\* Mutant: unless there is a stable ReplicaSet.
SkipStepsWithStable(c) == [BaseStatus(c, TRUE) EXCEPT
    !.stepIndex = IF c.new # Nil /\ c.status.stableRS # Nil
                  THEN EndIndex(c.spec.steps) ELSE StartIndex(c.spec.steps)]
ResetStatus(c) ==
    LET rollback == c.new # Nil /\ c.status.stableRS = c.spec.template
    IN  [BaseStatus(c, TRUE) EXCEPT
            !.stepIndex = IF rollback THEN EndIndex(c.spec.steps)
                                      ELSE StartIndex(c.spec.steps)]

\* promoteStable.
PromotedStatus(c) == [BaseStatus(c, TRUE) EXCEPT
    !.stepIndex = EndIndex(c.spec.steps), !.stableRS = c.spec.template]

\* The step is done, or it goes on.
SteppedStatus(c) ==
    IF completedCurrentCanaryStep(c)
    THEN [BaseStatus(c, TRUE) EXCEPT !.stepIndex = CurrentStepIndex(c) + 1]
    ELSE [BaseStatus(c, FALSE) EXCEPT
            !.stepIndex = IF c.spec.steps = <<>> THEN NoIndex ELSE CurrentStepIndex(c)]

NewStatus(c) ==
    IF PodTemplateOrStepsChanged(c) THEN ResetStatus(c)
    ELSE IF shouldFullPromote(c) THEN PromotedStatus(c)
    ELSE SteppedStatus(c)

\* tryToCompleteStepAndSyncRolloutStatusCanary.  calculateRolloutConditions may
\* replace the reason of Progressing.
tryToCompleteStepAndSyncRolloutStatusCanary ==
    LET new  == NewStatus(ctx)
        adds == new.pauseCondition /\ ~ctx.status.pauseCondition
        ends == ~new.pauseCondition
        moves == \/ new.stepIndex # ctx.status.stepIndex
                 \/ PodTemplateOrStepsChanged(ctx)
    IN  /\ pc = "persist"
        /\ UpToDate
        /\ \E kept \in BOOLEAN :
              status' = [new EXCEPT !.progPaused = @ /\ kept]
        /\ timeUp' = (timeUp /\ ~adds /\ ~ends)
        /\ resumed' = (resumed /\ ~adds /\ ~(ends /\ moves))
        /\ EndPass
        /\ UNCHANGED <<spec, revision, cluster, bounds>>

-----------------------------------------------------------------------------
(***************************************************************************)
(* Conflicts, failed calls and crashes                                     *)
(***************************************************************************)

\* The next call writes the rollout, or newRS, and the copy in ctx is stale.
\* The pass ends with an error; the worker requeues the rollout.
Conflict ==
    /\ \/ /\ ~UpToDate
          /\ \/ pc \in {"announce", "persist"}
             \/ /\ pc = "checkPaused"
                /\ IsPaused(ctx) # ctx.status.progPaused
                    \/ IsPaused(ctx) # ctx.status.condPaused
             \/ /\ pc = "setRevision" \/ (pc = "syncRevision" /\ ~RevisionIsStale(ctx))
                /\ ctx.revision # RolloutRevision(ctx)
       \/ /\ ctx # NoPass /\ ctx.new \in staleRS
          /\ \/ pc = "syncRevision" /\ RevisionIsStale(ctx)
             \/ /\ pc = "scale" /\ ~ctx.spec.paused /\ ~AtPauseStep(ctx)
                /\ NewReplicasCount(ctx) # ctx.rss[ctx.new].spec
    /\ EndPass
    /\ UNCHANGED <<rollout, cluster, pauses, bounds>>

\* Any call fails, or the controller crashes, and the pass is over.
PassFails ==
    /\ pc # "idle" /\ faults < MaxFaults
    /\ faults' = faults + 1
    /\ EndPass
    /\ UNCHANGED <<rollout, cluster, pauses, edits>>

\* Shrinking an old ReplicaSet fails: reconcileOldReplicaSets drops the error.
OldScalingFails ==
    /\ faults < MaxFaults
    /\ \/ pc = "cleanup" /\ Unhealthy(ctx) # {}
       \/ pc = "scaleDown" /\ Victim(ctx) # Nil
    /\ faults' = faults + 1
    /\ pc' = "persist"
    /\ UNCHANGED <<rollout, cluster, ctx, staleRO, staleRS, pauses, edits>>

-----------------------------------------------------------------------------
(***************************************************************************)
(* The user, the ReplicaSet controller, the kubelets, the clock            *)
(***************************************************************************)
EditSpec ==
    /\ edits < MaxEdits
    /\ edits' = edits + 1
    /\ \E new \in RolloutSpec \ {spec} : spec' = new
    /\ TouchRollout
    /\ UNCHANGED <<status, revision, cluster, pc, ctx, staleRS, pauses, faults>>

\* The user removes the pause condition and keeps controllerPause; it may take
\* a second write to set spec.paused to false.
Resume ==
    /\ edits < MaxEdits
    /\ edits' = edits + 1
    /\ status.pauseCondition
    /\ status' = [status EXCEPT !.pauseCondition = FALSE]
    /\ \E p \in {FALSE, spec.paused} : spec' = [spec EXCEPT !.paused = p]
    /\ resumed' = TRUE
    /\ TouchRollout
    /\ UNCHANGED <<revision, cluster, pc, ctx, staleRS, timeUp, faults>>

\* The ReplicaSet controller sees the size, and creates or deletes pods,
\* unavailable ones first.
SyncPods(t) ==
    /\ Exists(t) /\ ~rss[t].observed
    /\ rss' = [rss EXCEPT ![t].actual = rss[t].spec,
                          ![t].avail = Smaller(rss[t].avail, rss[t].spec),
                          ![t].observed = TRUE]
    /\ TouchRS({t})
    /\ UNCHANGED <<rollout, retired, pc, ctx, staleRO, pauses, bounds>>

PodReady(t) ==
    /\ rss[t].avail < rss[t].actual
    /\ rss' = [rss EXCEPT ![t].avail = rss[t].avail + 1]
    /\ TouchRS({t})
    /\ UNCHANGED <<rollout, retired, pc, ctx, staleRO, pauses, bounds>>

PodFails(t) ==
    /\ faults < MaxFaults
    /\ faults' = faults + 1
    /\ rss[t].avail > 0
    /\ rss' = [rss EXCEPT ![t].avail = rss[t].avail - 1]
    /\ TouchRS({t})
    /\ UNCHANGED <<rollout, retired, pc, ctx, staleRO, pauses, edits>>

PauseElapses ==
    /\ status.pauseCondition /\ ~timeUp
    /\ timeUp' = TRUE
    /\ UNCHANGED <<rollout, cluster, pass, resumed, bounds>>

-----------------------------------------------------------------------------
Pass ==
    \/ GetRollout
    \/ checkPausedConditions
    \/ syncReplicaSetRevision
    \/ createDesiredReplicaSet
    \/ setRolloutRevision
    \/ AnnounceReplicaSet
    \/ reconcileRevisionHistoryLimit
    \/ reconcileCanaryPause
    \/ haltProgress
    \/ reconcileNewReplicaSet
    \/ reconcileOldReplicaSets
    \/ cleanupUnhealthyReplicas
    \/ StartScaleDown
    \/ scaleDownOldReplicaSetsForCanary
    \/ PanicOnNilStable
    \/ tryToCompleteStepAndSyncRolloutStatusCanary
    \/ Conflict

Failure == PassFails \/ OldScalingFails \/ \E t \in Templates : PodFails(t)

User == EditSpec \/ Resume

Kube == \E t \in Templates : SyncPods(t) \/ PodReady(t)

Next == Pass \/ Failure \/ User \/ Kube \/ PauseElapses

(***************************************************************************)
(* The worker takes up the rollout again and again (the queue is fed by    *)
(* the program that embeds the controller, and by AddRateLimited), pods    *)
(* are created and become ready, and time passes.  A pass has a next step  *)
(* in every state, so that its condition is weak fairness too.             *)
(***************************************************************************)
Fairness ==
    /\ []<><<Pass>>_vars
    /\ WF_vars(\E t \in Templates : SyncPods(t))
    /\ WF_vars(\E t \in Templates : PodReady(t))
    /\ WF_vars(PauseElapses)

Spec     == Init /\ [][Next]_vars
FairSpec == Spec /\ Fairness
=============================================================================
