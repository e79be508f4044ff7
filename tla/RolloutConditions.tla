------------------------- MODULE RolloutConditions -------------------------
(***************************************************************************)
(* What a rollout says of itself: its conditions, the deadline for         *)
(* progress, and its phase.  A pass reads the rollout, may write that it   *)
(* is paused or resumed, creates the new ReplicaSet when there is none,    *)
(* and writes the status it has calculated.  In between, the user edits,   *)
(* pauses and resumes, pods come and go, and time passes.                  *)
(*                                                                         *)
(* How pods are scaled, and when a weight is reached, is the business of   *)
(* CanaryRollout: here pods come and go freely, and so do weights.  Pause  *)
(* steps have no duration.  Conditions Available and Completed are         *)
(* functions of the counters and hashes, and are left out, as are the      *)
(* failures of ReplicaSets.  The rollout store rejects stale writes.       *)
(***************************************************************************)
EXTENDS CanaryMath

CONSTANTS
    Templates,      \* the pod templates
    Plan,           \* spec.strategy.canary.steps
    Replicas,       \* spec.replicas
    Deadline,       \* the progress deadline, in ticks of the clock
    MaxEdits,       \* bound on the user's edits, pauses and resumes
    MaxPodEvents,   \* bound on pods that start, become available, fail or stop
    MaxFailures     \* bound on failed creations

ASSUME ConditionsAssumption ==
    /\ Templates # {} /\ IsFiniteSet(Templates) /\ Nil \notin Templates
    /\ Plan \in Seq(CanaryStep) /\ Plan # <<>>
    /\ Replicas \in Nat \ {0} /\ Deadline \in Nat
    /\ MaxEdits \in Nat /\ MaxPodEvents \in Nat /\ MaxFailures \in Nat

VARIABLES
    template, paused,   \* the spec: the template, and spec.paused
    status,             \* the rollout's status
    pods,               \* the pods of each template's ReplicaSet
    exists,             \* the templates that have a ReplicaSet
    pc, ctx, stale,     \* the pass: its next call, its snapshot, whether that is stale
    quiet,              \* how long no write has recorded progress
    running,            \* how long condition Paused has not been true
    edits, podEvents, failures

spec    == <<template, paused>>
world   == <<pods, exists>>
pass    == <<pc, ctx, stale>>
clocks  == <<quiet, running>>
bounds  == <<edits, podEvents, failures>>
vars    == <<spec, status, world, pass, clocks, bounds>>

-----------------------------------------------------------------------------
(***************************************************************************)
(* The status.  Conditions have a status and a reason; age is the time     *)
(* since Progressing was last updated, as far as the deadline can tell.    *)
(***************************************************************************)
Reasons == {"RolloutPaused", "RolloutResumed", "NewReplicaSetCreated", "FailedRSCreate",
            "ReplicaSetUpdated", "ReplicaSetNotAvailable", "NewReplicaSetAvailable", "TimedOut"}

Progressing == [status : {"True", "False", "Unknown"}, reason : Reasons]
Cond(s, r)  == [status |-> s, reason |-> r]

Times == 0..(Deadline + 1)
Later(t) == Smaller(t + 1, Deadline + 1)

Phases == {"Progressing", "Paused", "Degraded", "Healthy"}

Status == [podHash : Templates \cup {Nil}, stableRS : Templates \cup {Nil},
           stepsKnown : BOOLEAN, stepIndex : (0..Len(Plan)) \cup {NoIndex},
           replicas : Nat, updated : Nat, available : Nat,
           controllerPause : BOOLEAN, pauseCondition : BOOLEAN,
           observed : BOOLEAN, phase : Phases \cup {Nil},
           progressing : Progressing \cup {Nil}, age : Times,
           condPaused : BOOLEAN, healthy : {Nil, "True", "False"}]

EmptyStatus == [podHash |-> Nil, stableRS |-> Nil, stepsKnown |-> FALSE, stepIndex |-> NoIndex,
                replicas |-> 0, updated |-> 0, available |-> 0,
                controllerPause |-> FALSE, pauseCondition |-> FALSE,
                observed |-> FALSE, phase |-> Nil,
                progressing |-> Nil, age |-> 0, condPaused |-> FALSE, healthy |-> Nil]

\* A rollout that was finished long ago.
HealthyStatus(t) == [EmptyStatus EXCEPT
    !.podHash = t, !.stableRS = t, !.stepsKnown = TRUE, !.stepIndex = Len(Plan),
    !.replicas = Replicas, !.updated = Replicas, !.available = Replicas,
    !.observed = TRUE, !.phase = "Healthy", !.age = Deadline + 1,
    !.progressing = Cond("True", "NewReplicaSetAvailable"), !.healthy = "True"]

Running(n) == [actual |-> n, avail |-> n]

Init ==
    /\ template \in Templates /\ paused = FALSE
    /\ \/ /\ status = EmptyStatus /\ exists = {}
          /\ pods = [t \in Templates |-> Running(0)]
       \/ /\ status = HealthyStatus(template) /\ exists = {template}
          /\ pods = [t \in Templates |-> Running(IF t = template THEN Replicas ELSE 0)]
    /\ pc = "idle" /\ ctx = Nil /\ stale = FALSE
    /\ quiet = Deadline + 1 /\ running = Deadline + 1
    /\ edits = 0 /\ podEvents = 0 /\ failures = 0

-----------------------------------------------------------------------------
(***************************************************************************)
(* Conditions.  SetRolloutCondition leaves a condition alone that has the  *)
(* same status and reason already, its time included.                      *)
(***************************************************************************)
ReplaceProgressing(st, c) == [st EXCEPT !.progressing = c, !.age = 0]
SetProgressing(st, c) == IF st.progressing = c THEN st ELSE ReplaceProgressing(st, c)

\* After progress, the time starts anew even if the reason stays.  Mutant:
\* SetProgressing, like any other condition.
RefreshProgressing(st, c) == ReplaceProgressing(st, c)

HasReason(st, r) == st.progressing # Nil /\ st.progressing.reason = r

\* The progress that the new status shows against the one in the snapshot.
RolloutProgressing(c, new) ==
    \/ new.updated # c.status.updated
    \/ new.replicas - new.updated < c.status.replicas - c.status.updated
    \/ new.available > c.status.available
    \/ new.stableRS # c.status.stableRS
    \/ c.status.stepIndex # NoIndex /\ new.stepIndex # c.status.stepIndex
    \/ ~c.status.stepsKnown

\* All replicas are updated and available, no old pods run, the steps are done,
\* and the last write but this one had seen the generation.
RolloutHealthy(c, new) ==
    /\ new.updated = Replicas /\ new.available = Replicas /\ new.replicas = Replicas
    /\ c.status.observed
    /\ new.stepIndex \in {Len(Plan), NoIndex}
    /\ new.stableRS # Nil /\ new.stableRS = new.podHash

\* The last sign of life is longer ago than the deadline, or was too late before.
RolloutTimedOut(new) ==
    /\ new.progressing # Nil
    /\ HasReason(new, "TimedOut") \/ new.age > Deadline

AtPauseStep(c) == StepsRemain(c) /\ GetCurrentCanaryStep(c).pause

\* At a pause step the deadline is not looked at.  Mutant: it always is.
NeverIndefinite(c) == FALSE
isIndefiniteStep(c) == AtPauseStep(c)

IsPaused(c) == c.status.pauseCondition \/ c.paused

TimesOut(c, new) == ~isIndefiniteStep(c) /\ RolloutTimedOut(new)

\* The cases of Progressing, in their order.  Mutant: the deadline comes first.
DeadlineFirst(c, new, becameUnhealthy) ==
    IF TimesOut(c, new) THEN SetProgressing(new, Cond("False", "TimedOut"))
    ELSE IF RolloutHealthy(c, new)
    THEN SetProgressing(new, Cond("True", "NewReplicaSetAvailable"))
    ELSE IF RolloutProgressing(c, new) \/ becameUnhealthy
    THEN RefreshProgressing(new, Cond("True", "ReplicaSetUpdated"))
    ELSE new
EstimateProgress(c, new, becameUnhealthy) ==
    IF RolloutHealthy(c, new)
    THEN SetProgressing(new, Cond("True", "NewReplicaSetAvailable"))
    ELSE IF RolloutProgressing(c, new) \/ becameUnhealthy
    THEN RefreshProgressing(new,
            Cond("True", IF new.stableRS = new.podHash /\ becameUnhealthy
                         THEN "ReplicaSetNotAvailable" ELSE "ReplicaSetUpdated"))
    ELSE IF TimesOut(c, new) THEN SetProgressing(new, Cond("False", "TimedOut"))
    ELSE new

\* Healthy first, since its change from true to false counts as progress.
calculateRolloutConditions(c, new) ==
    LET healthy == ~IsPaused(c) /\ RolloutHealthy(c, new)
        marked  == [new EXCEPT !.healthy = IF healthy THEN "True"
                                           ELSE IF c.status.healthy # Nil THEN "False" ELSE Nil]
    IN  EstimateProgress(c, marked, c.status.healthy = "True" /\ ~healthy)

\* The phase, from the spec and the status that are about to be written.
CalculateRolloutPhase(isPaused, st) ==
    IF HasReason(st, "TimedOut") THEN "Degraded"
    ELSE IF isPaused \/ st.pauseCondition THEN "Paused"
    ELSE IF \/ st.updated < Replicas \/ st.available < st.updated
            \/ st.replicas > st.updated
            \/ st.stableRS = Nil \/ st.stableRS # st.podHash
    THEN "Progressing" ELSE "Healthy"

\* What a client is told: not before the controller has seen the generation,
\* and the user's resume.
GetRolloutPhase ==
    IF ~status.observed \/ (status.controllerPause /\ ~status.pauseCondition)
    THEN "Progressing" ELSE status.phase

-----------------------------------------------------------------------------
(***************************************************************************)
(* The pass                                                                *)
(***************************************************************************)
EndPass == pc' = "idle" /\ ctx' = Nil /\ stale' = FALSE

\* A write of the status: kept says whether the pass goes on with the object
\* that it got back.
Write(new, kept) == ~stale /\ status' = new /\ stale' = ~kept

\* UpdateRolloutStatus: the generation counts as seen, and the phase is that
\* of the old counters.
Observed(c, st) ==
    LET seen == [st EXCEPT !.observed = TRUE]
    IN  [seen EXCEPT !.phase = CalculateRolloutPhase(c.paused, seen)]

TemplateOrStepsChanged(c) ==
    ~c.status.stepsKnown \/ (c.status.podHash # Nil /\ c.status.podHash # c.template)

GetRollout ==
    /\ pc = "idle"
    /\ pc' = "checkPaused"
    /\ ctx' = [template |-> template, paused |-> paused, status |-> status,
               spec |-> [steps |-> Plan], pods |-> pods, exists |-> exists]
    /\ UNCHANGED <<spec, status, world, stale, clocks, bounds>>

\* checkPausedConditions: Progressing and Paused are made to tell whether the
\* rollout is paused, unless they do.
MarkPaused(c) ==
    LET reason == IF IsPaused(c) THEN "RolloutPaused" ELSE "RolloutResumed"
        progress == IF IsPaused(c) = HasReason(c.status, "RolloutPaused") THEN c.status
                    ELSE SetProgressing(c.status, Cond("Unknown", reason))
    IN  [progress EXCEPT !.condPaused = IsPaused(c)]

checkPausedConditions ==
    LET marked == Observed(ctx, MarkPaused(ctx))
    IN  /\ pc = "checkPaused"
        /\ IF MarkPaused(ctx) = ctx.status
           THEN UNCHANGED <<status, ctx, stale>>
           ELSE Write(marked, FALSE) /\ ctx' = [ctx EXCEPT !.status = marked]
        /\ pc' = IF ctx.template \in ctx.exists \/ TemplateOrStepsChanged(ctx)
                 THEN "persist" ELSE "create"
        /\ UNCHANGED <<spec, world, clocks, bounds>>

\* createDesiredReplicaSet: the ReplicaSet, and then the condition.
createDesiredReplicaSet ==
    /\ pc = "create"
    /\ exists' = exists \cup {ctx.template}
    /\ pc' = "announce"
    /\ UNCHANGED <<spec, status, pods, ctx, stale, clocks, bounds>>

AnnounceReplicaSet ==
    LET announced == SetProgressing(ctx.status, Cond("True", "NewReplicaSetCreated"))
    IN  /\ pc = "announce"
        /\ Write(announced, TRUE)
        /\ ctx' = [ctx EXCEPT !.status = announced]
        /\ pc' = "persist"
        /\ UNCHANGED <<spec, world, clocks, bounds>>

\* The API server refuses to create it.  The error of the write is dropped,
\* the one of the creation ends the pass.
CreationFails ==
    LET failed == SetProgressing(ctx.status, Cond("False", "FailedRSCreate"))
    IN  /\ pc = "create"
        /\ failures < MaxFailures
        /\ failures' = failures + 1
        /\ status' = IF stale THEN status ELSE Observed(ctx, failed)
        /\ EndPass
        /\ UNCHANGED <<spec, world, clocks, edits, podEvents>>

\* What is left of controllerPause.
ControllerPause(c, adds) == adds \/ (c.status.controllerPause /\ c.status.pauseCondition)

\* calculateBaseStatus, the counters, and CalculatePauseStatus.
BaseStatus(c, cleared) ==
    LET new  == IF c.template \in c.exists THEN c.pods[c.template].actual ELSE 0
        all  == Pods(Templates, [t \in Templates |-> c.pods[t].actual])
        adds == ~c.paused /\ AtPauseStep(c) /\ ~TemplateOrStepsChanged(c)
                /\ ~c.status.pauseCondition /\ ~c.status.controllerPause
    IN  [c.status EXCEPT
            !.podHash = c.template, !.stepsKnown = TRUE, !.observed = TRUE,
            !.replicas = Cardinality(all), !.updated = new,
            !.available = GetAvailableReplicaCount(c.pods, Templates),
            !.pauseCondition = ~cleared /\ (@ \/ adds),
            !.controllerPause = ~cleared /\ ControllerPause(c, adds)]

\* The pass may complete a step.  Mutant: there may be no more steps.
NotPaused(c) == ~c.paused
MayComplete(c) == ~c.paused /\ StepsRemain(c)

\* The new status without its conditions.  A pause step is completed by the
\* user's resume; whether a weight is reached is not modelled here.
NewStatuses(c) ==
    LET rollback == c.template \in c.exists /\ c.status.stableRS = c.template
        resumed  == c.status.controllerPause /\ ~c.status.pauseCondition
    IN  IF TemplateOrStepsChanged(c)
        THEN {[BaseStatus(c, TRUE) EXCEPT !.stepIndex = IF rollback THEN Len(Plan) ELSE 0]}
        ELSE IF c.pods[c.template].avail >= Replicas
        THEN {[BaseStatus(c, TRUE) EXCEPT !.stepIndex = Len(Plan), !.stableRS = c.template]}
        ELSE {[BaseStatus(c, done) EXCEPT
                 !.stepIndex = CurrentStepIndex(c) + (IF done THEN 1 ELSE 0)] :
              done \in IF ~MayComplete(c) THEN {FALSE}
                       ELSE IF AtPauseStep(c) THEN {resumed} ELSE BOOLEAN}

\* tryToCompleteStepAndSyncRolloutStatusCanary, persistRolloutStatus.
persistRolloutStatus ==
    /\ pc = "persist"
    /\ ~stale
    /\ \E new \in NewStatuses(ctx) :
          LET st == calculateRolloutConditions(ctx, new)
          IN  /\ status' = [st EXCEPT !.phase = CalculateRolloutPhase(ctx.paused, st)]
              /\ quiet' = IF RolloutProgressing(ctx, new) THEN 0 ELSE quiet
    /\ EndPass
    /\ UNCHANGED <<spec, world, running, bounds>>

\* The pass ends with an error, and the rollout is queued again.
Conflict ==
    /\ stale
    /\ \/ pc \in {"announce", "persist"}
       \/ pc = "checkPaused" /\ MarkPaused(ctx) # ctx.status
    /\ EndPass
    /\ UNCHANGED <<spec, status, world, clocks, bounds>>

-----------------------------------------------------------------------------
(***************************************************************************)
(* The user, the pods, the clock                                           *)
(***************************************************************************)
TouchRollout == stale' = (pc # "idle")

\* A new generation: another template, or another value of spec.paused, or both.
EditSpec ==
    /\ edits < MaxEdits
    /\ edits' = edits + 1
    /\ template' \in Templates /\ paused' \in BOOLEAN /\ spec' # spec
    /\ status' = [status EXCEPT !.observed = FALSE]
    /\ TouchRollout
    /\ UNCHANGED <<world, pc, ctx, clocks, podEvents, failures>>

\* The user removes the pause condition, and keeps controllerPause.
Resume ==
    /\ edits < MaxEdits
    /\ edits' = edits + 1
    /\ status.pauseCondition
    /\ status' = [status EXCEPT !.pauseCondition = FALSE]
    /\ TouchRollout
    /\ UNCHANGED <<spec, world, pc, ctx, clocks, podEvents, failures>>

\* A pod starts, becomes available, fails, or stops.
PodChanges(t) ==
    /\ t \in exists
    /\ podEvents < MaxPodEvents
    /\ podEvents' = podEvents + 1
    /\ \E p \in {Running(0)} \cup [actual : 0..Replicas, avail : 0..Replicas] :
          /\ p.avail <= p.actual
          /\ \/ p.actual = pods[t].actual /\ p.avail \in {pods[t].avail - 1, pods[t].avail + 1}
             \/ p.actual = pods[t].actual + 1 /\ p.avail = pods[t].avail
             \/ p.actual = pods[t].actual - 1 /\ p.avail = Smaller(p.actual, pods[t].avail)
          /\ pods' = [pods EXCEPT ![t] = p]
    /\ UNCHANGED <<spec, status, exists, pass, clocks, edits, failures>>

\* All times grow, up to the point from which the deadline sees no difference.
Tick ==
    LET older(st) == [st EXCEPT !.age = Later(@)]
    IN  /\ status' = older(status)
        /\ ctx' = IF pc = "idle" THEN Nil ELSE [ctx EXCEPT !.status = older(@)]
        /\ quiet' = Later(quiet)
        /\ running' = IF status.condPaused THEN 0 ELSE Later(running)
        /\ <<status', quiet', running'>> # <<status, quiet, running>>
        /\ UNCHANGED <<spec, world, pc, stale, bounds>>

-----------------------------------------------------------------------------
Pass ==
    \/ GetRollout
    \/ checkPausedConditions
    \/ createDesiredReplicaSet
    \/ AnnounceReplicaSet
    \/ persistRolloutStatus
    \/ Conflict

Next ==
    \/ Pass \/ CreationFails
    \/ EditSpec \/ Resume
    \/ \E t \in Templates : PodChanges(t)
    \/ Tick

Spec     == Init /\ [][Next]_vars
\* Something takes the rollout up again and again (see CanaryRollout).
FairSpec == Spec /\ WF_vars(Pass)

-----------------------------------------------------------------------------
(***************************************************************************)
(* Properties                                                              *)
(***************************************************************************)
Sizes    == [Templates -> [actual : 0..Replicas, avail : 0..Replicas]]
Contexts == [template : Templates, paused : BOOLEAN, status : Status,
             spec : {[steps |-> Plan]}, pods : Sizes, exists : SUBSET Templates]

ConditionsTypeOK ==
    /\ template \in Templates /\ paused \in BOOLEAN
    /\ status \in Status
    /\ pods \in Sizes /\ exists \subseteq Templates
    /\ pc \in {"idle", "checkPaused", "create", "announce", "persist"}
    /\ IF pc = "idle" THEN ctx = Nil ELSE ctx \in Contexts /\ ctx.exists \subseteq exists
    /\ stale \in BOOLEAN /\ quiet \in Times /\ running \in Times
    /\ edits \in Nat /\ podEvents \in Nat /\ failures \in Nat

\* A rollout that waits at a pause step is reported as paused: a deadline that
\* it missed before is forgotten when it gets there, and none is missed there.
PauseIsNotDegraded == status.pauseCondition => status.phase = "Paused"

\* The deadline counts from the last progress that the controller has written:
\* TimedOut is new only when there was none for longer than the deadline.
BecomesTimedOut ==
    HasReason(status, "TimedOut")' /\ ~HasReason(status, "TimedOut")

DeadlineFromLastProgress == [][BecomesTimedOut => quiet > Deadline]_vars

\* What the two rest on.  A pass whose snapshot is not stale has the status.
Fresh == pc # "idle" /\ ~stale => ctx.status = status

\* The rollout has had its steps written, and then has a current one.
KnownSteps == status.stepsKnown => status.stepIndex # NoIndex

\* The pause condition is set at pause steps only, and there is no TimedOut there.
WaitsAtPause(st) ==
    st.stepIndex # NoIndex /\ st.stepIndex < Len(Plan) /\ Plan[st.stepIndex + 1].pause
PausesAtPauseSteps ==
    /\ status.pauseCondition => WaitsAtPause(status)
    /\ WaitsAtPause(status) => ~HasReason(status, "TimedOut")

\* Progressing is as young as the last progress, unless the rollout is healthy:
\* then it gets young as soon as it is not.
YoungSinceProgress == status.age <= quiet \/ status.healthy = "True"

\* A pass that goes on with a paused rollout does not find it available yet.
PausedIsMarked ==
    pc = "persist" /\ ~stale /\ IsPaused(ctx)
        => ctx.status.progressing # Cond("True", "NewReplicaSetAvailable")

\* All that a step needs to keep them.
ConditionsInv ==
    /\ ConditionsTypeOK /\ Fresh /\ KnownSteps /\ PausesAtPauseSteps
    /\ PauseIsNotDegraded /\ YoungSinceProgress /\ PausedIsMarked

\* When the pods stay as the user wants them, the rollout is at last reported
\* as healthy for good, whatever was written of it before.
AsWanted ==
    /\ ~paused /\ template \in exists
    /\ pods = [t \in Templates |-> Running(IF t = template THEN Replicas ELSE 0)]

ReportsHealthy ==
    /\ GetRolloutPhase = "Healthy" /\ status.healthy = "True"
    /\ status.podHash = template /\ status.stableRS = template
    /\ HasReason(status, "NewReplicaSetAvailable")

HealthIsReported == <>[]AsWanted => <>[]ReportsHealthy

\* sync.go:369: a rollout that was paused for longer than the deadline is not
\* reported as lacking progress when it is resumed.  Progressing may have been
\* overwritten during the pause, and then keeps its time.
ResumedHasDeadline == [][BecomesTimedOut /\ ~ctx.paused => running > Deadline]_vars

\* rolloututil.go:21: the phase for clients is that of the generation the
\* controller has seen.
HealthyIsOfThisTemplate == GetRolloutPhase = "Healthy" => status.podHash = template
=============================================================================
