-------------------------- MODULE CanaryStepsProofs --------------------------
(***************************************************************************)
(* CanaryRollout implements CanarySteps, for every set of templates and    *)
(* plans, every size and limit, and any number of edits, faults and        *)
(* failing pods, provided that the rollout store rejects stale writes; and *)
(* what follows from it.  That a status fits the plan it has adopted needs *)
(* no such store.                                                          *)
(***************************************************************************)
EXTENDS CanaryRolloutProofs

(***************************************************************************)
(* What a step may do to the rollout, and to the pass's copy of it         *)
(***************************************************************************)

\* A pass goes on with the copy it has, in ctx.
HoldsCopy ==
    /\ pc # "idle"
    /\ ctx'.spec = ctx.spec /\ ctx'.status = ctx.status
    /\ ctx'.addPause = ctx.addPause /\ staleRO' = staleRO

\* Steps that write ReplicaSets, or nothing.
ElsewhereInPass ==
    \/ syncReplicaSetRevision \/ createDesiredReplicaSet
    \/ reconcileRevisionHistoryLimit \/ haltProgress
    \/ reconcileNewReplicaSet \/ reconcileOldReplicaSets
    \/ cleanupUnhealthyReplicas \/ StartScaleDown
    \/ scaleDownOldReplicaSetsForCanary \/ OldScalingFails

Beside ==
    \/ \E t \in Templates : SyncPods(t) \/ PodReady(t) \/ PodFails(t)
    \/ PauseElapses
    \/ UNCHANGED vars

PassEnds == PanicOnNilStable \/ Conflict \/ PassFails

\* They keep the rollout, and the pass's copy of it.
LEMMA ElsewhereHoldsCopy ==
    ASSUME TypeOK, ElsewhereInPass
    PROVE  HoldsCopy /\ UNCHANGED <<spec, status>>
<1>1. pc # "idle" /\ staleRO' = staleRO /\ UNCHANGED <<spec, status>>
    BY Zenon DEF ElsewhereInPass, syncReplicaSetRevision, createDesiredReplicaSet,
       reconcileRevisionHistoryLimit, haltProgress, reconcileNewReplicaSet,
       reconcileOldReplicaSets, cleanupUnhealthyReplicas, StartScaleDown,
       scaleDownOldReplicaSetsForCanary, OldScalingFails, rollout
<1>2. ctx \in Context
    BY <1>1 DEF TypeOK
<1>3. ctx'.spec = ctx.spec /\ ctx'.status = ctx.status /\ ctx'.addPause = ctx.addPause
    <2>1. CASE UNCHANGED ctx
        BY <2>1
    <2>2. CASE syncReplicaSetRevision
        BY <1>2, <2>2 DEF syncReplicaSetRevision, Context
    <2>3. CASE createDesiredReplicaSet
        BY <1>2, <2>3 DEF createDesiredReplicaSet, Context
    <2>4. CASE cleanupUnhealthyReplicas
        <3>1. ctx' = ctx \/ \E t, n : ctx' = [ctx EXCEPT !.rss[t].spec = n]
            BY <2>4, Zenon DEF cleanupUnhealthyReplicas
        <3> QED
            BY <1>2, <3>1 DEF Context
    <2>5. CASE StartScaleDown
        BY <1>2, <2>5 DEF StartScaleDown, Context
    <2>6. CASE scaleDownOldReplicaSetsForCanary
        <3>1. ctx' = ctx \/ \E R, n : ctx' = [ctx EXCEPT !.todo = R, !.budget = n]
            BY <2>6, Zenon DEF scaleDownOldReplicaSetsForCanary
        <3> QED
            BY <1>2, <3>1 DEF Context
    <2> QED
        BY <2>1, <2>2, <2>3, <2>4, <2>5, <2>6, Zenon DEF ElsewhereInPass,
           reconcileRevisionHistoryLimit, haltProgress, reconcileNewReplicaSet,
           reconcileOldReplicaSets, OldScalingFails
<1> QED
    BY <1>1, <1>3 DEF HoldsCopy

LEMMA BesideEffect == Beside => UNCHANGED <<spec, status, pc, ctx, staleRO>>
BY DEF Beside, SyncPods, PodReady, PodFails, PauseElapses, rollout, pass, vars

LEMMA PassEndsEffect == PassEnds => pc' = "idle" /\ UNCHANGED <<spec, status>>
BY Zenon DEF PassEnds, PanicOnNilStable, Conflict, PassFails, EndPass, rollout

\* The marks of a pause are the only part of the status the pass rewrites
\* before its end.
Marked(p, q) == [ctx.status EXCEPT !.progPaused = p, !.condPaused = q]

LEMMA MarkingEffect ==
    ASSUME TypeOK, checkPausedConditions \/ AnnounceReplicaSet
    PROVE  /\ pc # "idle" /\ pc' # "idle" /\ spec' = spec
           /\ \E p, q \in BOOLEAN :
                /\ ctx' = [ctx EXCEPT !.status = Marked(p, q)]
                /\ \/ ctx.status = Marked(p, q) /\ UNCHANGED <<status, staleRO>>
                   \/ /\ UpToDate /\ status' = Marked(p, q)
                      /\ staleRO' \in {Locking, FALSE}
<1>1. pc # "idle" /\ pc' # "idle" /\ spec' = spec
    BY DEF checkPausedConditions, AnnounceReplicaSet, SyncRevisionPc
<1>2. ctx \in Context /\ ctx.status \in RolloutStatus
    BY <1>1 DEF TypeOK, Context
<1>3. CASE checkPausedConditions
    <2>1. IsPaused(ctx) \in BOOLEAN
        BY DEF IsPaused
    <2>2. ctx' = [ctx EXCEPT !.status = Marked(IsPaused(ctx), IsPaused(ctx))]
        BY <1>3, Zenon DEF checkPausedConditions, Marked
    <2>3. \/ ctx.status = Marked(IsPaused(ctx), IsPaused(ctx)) /\ UNCHANGED <<status, staleRO>>
          \/ UpdateStatus(Marked(IsPaused(ctx), IsPaused(ctx)), FALSE)
        BY <1>3, Zenon DEF checkPausedConditions, Marked
    <2>4. ASSUME UpdateStatus(Marked(IsPaused(ctx), IsPaused(ctx)), FALSE)
          PROVE  /\ UpToDate /\ status' = Marked(IsPaused(ctx), IsPaused(ctx))
                 /\ staleRO' \in {Locking, FALSE}
        <3>1. staleRO' = (Locking /\ ~FALSE)
            BY <2>4, Zenon DEF UpdateStatus
        <3> QED
            BY <2>4, <3>1, ConstantsAssumption DEF UpdateStatus
    <2> QED
        BY <1>1, <2>1, <2>2, <2>3, <2>4, Zenon
<1>4. CASE AnnounceReplicaSet
    <2>1. [ctx.status EXCEPT !.progPaused = FALSE] = Marked(FALSE, ctx.status.condPaused)
        BY <1>2 DEF Marked, RolloutStatus
    <2>2. ctx.status.condPaused \in BOOLEAN
        BY <1>2 DEF RolloutStatus
    <2>3. ctx' = [ctx EXCEPT !.status = Marked(FALSE, ctx.status.condPaused)]
        BY <1>4, <2>1, Zenon DEF AnnounceReplicaSet
    <2>4. UpdateStatus(Marked(FALSE, ctx.status.condPaused), TRUE)
        BY <1>4, <2>1, Zenon DEF AnnounceReplicaSet
    <2>5. UpToDate /\ status' = Marked(FALSE, ctx.status.condPaused)
          /\ staleRO' \in {Locking, FALSE}
        <3>1. staleRO' = (Locking /\ ~TRUE)
            BY <2>4, Zenon DEF UpdateStatus
        <3> QED
            BY <2>4, <3>1, ConstantsAssumption DEF UpdateStatus
    <2> QED
        BY <1>1, <2>2, <2>3, <2>5, Zenon
<1> QED
    BY <1>3, <1>4

-----------------------------------------------------------------------------
(***************************************************************************)
(* A status fits the plan it has adopted                                   *)
(***************************************************************************)

\* Whether it does is a matter of the hashes, the index and the condition.
LEMMA SameFit ==
    ASSUME NEW s, NEW t, s.stepHash = t.stepHash, s.podHash = t.podHash,
           s.stepIndex = t.stepIndex, t.pauseCondition => s.pauseCondition, FitsPlan(s)
    PROVE  FitsPlan(t)
BY DEF FitsPlan, PausesAt

\* The adopted plan and template are Nil only together with a new status.
LEMMA PlanType ==
    ASSUME NEW st \in RolloutStatus, st.stepHash # Nil
    PROVE  st.stepHash \in StepPlans /\ st.stepHash \in Seq(CanaryStep) /\ Len(st.stepHash) \in Nat
<1>1. st.stepHash \in StepPlans
    BY DEF RolloutStatus
<1>2. st.stepHash \in Seq(CanaryStep)
    BY <1>1, ConstantsAssumption
<1> QED
    BY <1>1, <1>2

\* The fields of a status that the pass starts from.
LEMMA BaseFields ==
    ASSUME NEW c \in Context, NEW cleared \in BOOLEAN
    PROVE  /\ BaseStatus(c, cleared).podHash = c.spec.template
           /\ BaseStatus(c, cleared).stepHash = c.spec.steps
           /\ BaseStatus(c, cleared).stepIndex = c.status.stepIndex
           /\ BaseStatus(c, cleared).pauseCondition =
                (~cleared /\ (c.status.pauseCondition \/ c.addPause))
           /\ BaseStatus(c, cleared) \in RolloutStatus
<1> DEFINE p == ~cleared /\ (c.status.pauseCondition \/ c.addPause)
           q == ~cleared /\ (c.addPause \/ (c.status.controllerPause /\ c.status.pauseCondition))
           base(a, b) == [c.status EXCEPT !.podHash = c.spec.template, !.stepHash = c.spec.steps,
                                          !.pauseCondition = a, !.controllerPause = b]
<1>1. c.status \in RolloutStatus
    BY DEF Context
<1>2. BaseStatus(c, cleared) = base(p, q)
    BY DEF BaseStatus
<1>3. \A a, b : /\ base(a, b).podHash = c.spec.template /\ base(a, b).stepHash = c.spec.steps
                /\ base(a, b).stepIndex = c.status.stepIndex /\ base(a, b).pauseCondition = a
    BY <1>1 DEF RolloutStatus
<1> HIDE DEF p, q, base
<1>4. BaseStatus(c, cleared).pauseCondition = p
    BY <1>2, <1>3
<1> QED
    BY <1>2, <1>3, <1>4, BaseStatusType DEF p

\* A status with another index, or with another stable template too.
WithIndex(st, i) == [st EXCEPT !.stepIndex = i]
WithStable(st, i, t) == [st EXCEPT !.stepIndex = i, !.stableRS = t]

LEMMA WithFields ==
    ASSUME NEW st \in RolloutStatus, NEW i \in Nat \cup {NoIndex}
    PROVE  /\ WithIndex(st, i).stepIndex = i
           /\ WithIndex(st, i).podHash = st.podHash
           /\ WithIndex(st, i).stepHash = st.stepHash
           /\ WithIndex(st, i).pauseCondition = st.pauseCondition
           /\ WithIndex(st, i).stableRS = st.stableRS
BY DEF RolloutStatus, WithIndex

LEMMA WithStableFields ==
    ASSUME NEW st \in RolloutStatus, NEW i \in Nat \cup {NoIndex}, NEW t \in Templates
    PROVE  /\ WithStable(st, i, t).stepIndex = i
           /\ WithStable(st, i, t).podHash = st.podHash
           /\ WithStable(st, i, t).stepHash = st.stepHash
           /\ WithStable(st, i, t).pauseCondition = st.pauseCondition
           /\ WithStable(st, i, t).stableRS = t
BY DEF RolloutStatus, WithStable

\* The three ways to end a pass, by the fields the user sees.
LEMMA EndFields ==
    ASSUME NEW c \in Context
    PROVE  /\ \A st \in {ResetStatus(c), PromotedStatus(c), SteppedStatus(c)} :
                 st.podHash = c.spec.template /\ st.stepHash = c.spec.steps
           /\ ~ResetStatus(c).pauseCondition /\ ~PromotedStatus(c).pauseCondition
           /\ ResetStatus(c).stableRS = c.status.stableRS
           /\ SteppedStatus(c).stableRS = c.status.stableRS
           /\ PromotedStatus(c).stableRS = c.spec.template
           /\ PromotedStatus(c).stepIndex = EndIndex(c.spec.steps)
           /\ \/ ResetStatus(c).stepIndex = StartIndex(c.spec.steps)
              \/ /\ ResetStatus(c).stepIndex = EndIndex(c.spec.steps)
                 /\ c.status.stableRS = c.spec.template
           /\ \/ /\ StepsRemain(c)
                 /\ SteppedStatus(c).stepIndex = CurrentStepIndex(c) + 1
                 /\ ~SteppedStatus(c).pauseCondition
              \/ /\ SteppedStatus(c).stepIndex =
                       IF c.spec.steps = <<>> THEN NoIndex ELSE CurrentStepIndex(c)
                 /\ SteppedStatus(c).pauseCondition = (c.status.pauseCondition \/ c.addPause)
<1>1. c.spec \in RolloutSpec /\ c.status \in RolloutStatus /\ c.addPause \in BOOLEAN
    BY DEF Context
<1>2. /\ c.spec.template \in Templates
      /\ EndIndex(c.spec.steps) \in Nat \cup {NoIndex}
      /\ StartIndex(c.spec.steps) \in Nat \cup {NoIndex}
    BY <1>1, IndexType DEF RolloutSpec
<1>3. CurrentStepIndex(c) \in Nat
    BY <1>1 DEF CurrentStepIndex, RolloutStatus, NoIndex
<1>4. \A cleared \in BOOLEAN :
         /\ BaseStatus(c, cleared) \in RolloutStatus
         /\ BaseStatus(c, cleared).podHash = c.spec.template
         /\ BaseStatus(c, cleared).stepHash = c.spec.steps
         /\ BaseStatus(c, cleared).stableRS = c.status.stableRS
         /\ BaseStatus(c, cleared).pauseCondition =
                (~cleared /\ (c.status.pauseCondition \/ c.addPause))
    BY BaseFields, BaseStatusType
<1>f. \A cleared \in BOOLEAN : cleared => ~BaseStatus(c, cleared).pauseCondition
    BY <1>4
<1>t. /\ BaseStatus(c, TRUE) \in RolloutStatus
      /\ BaseStatus(c, TRUE).podHash = c.spec.template
      /\ BaseStatus(c, TRUE).stepHash = c.spec.steps
      /\ BaseStatus(c, TRUE).stableRS = c.status.stableRS
      /\ ~BaseStatus(c, TRUE).pauseCondition
    BY <1>4, <1>f
<1>5. /\ ResetStatus(c).podHash = c.spec.template /\ ResetStatus(c).stepHash = c.spec.steps
      /\ ~ResetStatus(c).pauseCondition /\ ResetStatus(c).stableRS = c.status.stableRS
      /\ \/ ResetStatus(c).stepIndex = StartIndex(c.spec.steps)
         \/ /\ ResetStatus(c).stepIndex = EndIndex(c.spec.steps)
            /\ c.status.stableRS = c.spec.template
    <2> DEFINE i == IF c.new # Nil /\ c.status.stableRS = c.spec.template
                    THEN EndIndex(c.spec.steps) ELSE StartIndex(c.spec.steps)
    <2>1. ResetStatus(c) = WithIndex(BaseStatus(c, TRUE), i)
        BY Zenon DEF ResetStatus, WithIndex
    <2>2. i \in Nat \cup {NoIndex}
        BY <1>2
    <2>3. \/ i = StartIndex(c.spec.steps)
          \/ i = EndIndex(c.spec.steps) /\ c.status.stableRS = c.spec.template
        OBVIOUS
    <2> DEFINE b == BaseStatus(c, TRUE)
    <2>w. /\ WithIndex(b, i).stepIndex = i
          /\ WithIndex(b, i).podHash = b.podHash
          /\ WithIndex(b, i).stepHash = b.stepHash
          /\ WithIndex(b, i).pauseCondition = b.pauseCondition
          /\ WithIndex(b, i).stableRS = b.stableRS
        <3>1. b \in RolloutStatus
            BY <1>t
        <3> HIDE DEF b, i
        <3> QED
            BY <3>1, <2>2, WithFields
    <2> QED
        BY <1>t, <2>1, <2>3, <2>w
<1>6. /\ PromotedStatus(c).podHash = c.spec.template /\ PromotedStatus(c).stepHash = c.spec.steps
      /\ ~PromotedStatus(c).pauseCondition /\ PromotedStatus(c).stableRS = c.spec.template
      /\ PromotedStatus(c).stepIndex = EndIndex(c.spec.steps)
    <2>1. PromotedStatus(c) = WithStable(BaseStatus(c, TRUE), EndIndex(c.spec.steps), c.spec.template)
        BY Zenon DEF PromotedStatus, WithStable
    <2> DEFINE b == BaseStatus(c, TRUE)
               e == EndIndex(c.spec.steps)
               t == c.spec.template
    <2>2. b \in RolloutStatus /\ e \in Nat \cup {NoIndex} /\ t \in Templates
        BY <1>2, <1>t
    <2>3. /\ WithStable(b, e, t).stepIndex = e
          /\ WithStable(b, e, t).podHash = b.podHash
          /\ WithStable(b, e, t).stepHash = b.stepHash
          /\ WithStable(b, e, t).pauseCondition = b.pauseCondition
          /\ WithStable(b, e, t).stableRS = t
        <3> HIDE DEF b, e, t
        <3> QED
            BY <2>2, WithStableFields
    <2>4. PromotedStatus(c).podHash = t
        BY <1>t, <2>1, <2>3
    <2>5. ~PromotedStatus(c).pauseCondition
        BY <1>t, <2>1, <2>3
    <2> QED
        BY <1>t, <2>1, <2>3
<1>7. CASE completedCurrentCanaryStep(c)
    <2>1. SteppedStatus(c) = WithIndex(BaseStatus(c, TRUE), CurrentStepIndex(c) + 1)
        BY <1>7 DEF SteppedStatus, WithIndex
    <2>2. StepsRemain(c)
        BY <1>7 DEF completedCurrentCanaryStep
    <2>3. CurrentStepIndex(c) + 1 \in Nat
        BY <1>3
    <2> DEFINE b == BaseStatus(c, TRUE)
               j == CurrentStepIndex(c) + 1
    <2>w. /\ WithIndex(b, j).stepIndex = j
          /\ WithIndex(b, j).podHash = b.podHash
          /\ WithIndex(b, j).stepHash = b.stepHash
          /\ WithIndex(b, j).pauseCondition = b.pauseCondition
          /\ WithIndex(b, j).stableRS = b.stableRS
        <3>1. b \in RolloutStatus
            BY <1>t
        <3>2. j \in Nat \cup {NoIndex}
            BY <2>3
        <3> HIDE DEF b, j
        <3> QED
            BY <3>1, <3>2, WithFields
    <2> QED
        BY <1>t, <1>5, <1>6, <2>1, <2>2, <2>w
<1>8. CASE ~completedCurrentCanaryStep(c)
    <2> DEFINE i == IF c.spec.steps = <<>> THEN NoIndex ELSE CurrentStepIndex(c)
    <2>1. SteppedStatus(c) = WithIndex(BaseStatus(c, FALSE), i)
        BY <1>8, Zenon DEF SteppedStatus, WithIndex
    <2>4. i \in Nat \cup {NoIndex}
        BY <1>3
    <2>2. \A cleared \in BOOLEAN : ~cleared =>
             BaseStatus(c, cleared).pauseCondition = (c.status.pauseCondition \/ c.addPause)
        <3>1. c.status.pauseCondition \in BOOLEAN
            BY <1>1 DEF RolloutStatus
        <3> QED
            BY <1>1, <1>4, <3>1
    <2>3. /\ BaseStatus(c, FALSE) \in RolloutStatus
          /\ BaseStatus(c, FALSE).podHash = c.spec.template
          /\ BaseStatus(c, FALSE).stepHash = c.spec.steps
          /\ BaseStatus(c, FALSE).stableRS = c.status.stableRS
          /\ BaseStatus(c, FALSE).pauseCondition = (c.status.pauseCondition \/ c.addPause)
        BY <1>4, <2>2
    <2> DEFINE b == BaseStatus(c, FALSE)
    <2>w. /\ WithIndex(b, i).stepIndex = i
          /\ WithIndex(b, i).podHash = b.podHash
          /\ WithIndex(b, i).stepHash = b.stepHash
          /\ WithIndex(b, i).pauseCondition = b.pauseCondition
          /\ WithIndex(b, i).stableRS = b.stableRS
        <3>1. b \in RolloutStatus
            BY <2>3
        <3> HIDE DEF b, i
        <3> QED
            BY <3>1, <2>4, WithFields
    <2>5. /\ SteppedStatus(c).stepIndex = i
          /\ SteppedStatus(c).podHash = c.spec.template
          /\ SteppedStatus(c).stepHash = c.spec.steps
          /\ SteppedStatus(c).stableRS = c.status.stableRS
          /\ SteppedStatus(c).pauseCondition = (c.status.pauseCondition \/ c.addPause)
        BY <2>1, <2>3, <2>w
    <2> QED
        BY <1>5, <1>6, <2>5
<1> QED
    BY <1>7, <1>8

\* What a pass writes at its end fits the plan, when what it has read did.
LEMMA EndFits ==
    ASSUME NEW c \in Context, FitsPlan(c.status), c.addPause => AtPauseStep(c)
    PROVE  FitsPlan(NewStatus(c))
<1> DEFINE p == c.spec.steps
<1>1. c.spec \in RolloutSpec /\ c.status \in RolloutStatus
    BY DEF Context
<1>2. /\ p \in Seq(CanaryStep) /\ p # Nil /\ Len(p) \in Nat /\ (p # <<>> => Len(p) > 0)
      /\ c.spec.template # Nil
    BY <1>1, ConstantsAssumption DEF RolloutSpec
<1>3. CASE PodTemplateOrStepsChanged(c)
    <2>1. NewStatus(c) = ResetStatus(c)
        BY <1>3 DEF NewStatus
    <2>2. ResetStatus(c).stepIndex \in {StartIndex(p), EndIndex(p)}
        BY EndFields, Zenon
    <2> QED
        BY <1>2, <2>1, <2>2, EndFields DEF FitsPlan, StartIndex, EndIndex
<1>4. CASE ~PodTemplateOrStepsChanged(c) /\ shouldFullPromote(c)
    <2>1. NewStatus(c) = PromotedStatus(c)
        BY <1>4 DEF NewStatus
    <2> QED
        BY <1>2, <2>1, EndFields DEF FitsPlan, EndIndex
<1>5. CASE ~PodTemplateOrStepsChanged(c) /\ ~shouldFullPromote(c)
    <2>1. NewStatus(c) = SteppedStatus(c)
        BY <1>5 DEF NewStatus
    <2>2. c.status.stepHash = p
        BY <1>5 DEF PodTemplateOrStepsChanged
    <2>3. IF p = <<>> THEN c.status.stepIndex = NoIndex
          ELSE c.status.stepIndex \in 0..Len(p) /\ CurrentStepIndex(c) = c.status.stepIndex
        BY <1>2, <2>2 DEF FitsPlan, CurrentStepIndex, NoIndex
    <2>4. SteppedStatus(c).podHash = c.spec.template /\ SteppedStatus(c).stepHash = p
        BY EndFields
    <2>5. CASE /\ StepsRemain(c) /\ ~SteppedStatus(c).pauseCondition
               /\ SteppedStatus(c).stepIndex = CurrentStepIndex(c) + 1
        BY <1>2, <2>1, <2>3, <2>4, <2>5 DEF FitsPlan, StepsRemain, CurrentStepIndex, NoIndex
    <2>6. CASE /\ SteppedStatus(c).stepIndex = (IF p = <<>> THEN NoIndex ELSE CurrentStepIndex(c))
               /\ SteppedStatus(c).pauseCondition = (c.status.pauseCondition \/ c.addPause)
        <3>1. SteppedStatus(c).stepIndex = c.status.stepIndex
            BY <2>3, <2>6
        <3>2. c.status.pauseCondition => PausesAt(c.status)
            BY DEF FitsPlan
        <3>3. c.addPause => PausesAt(c.status)
            <4>1. c.addPause => CurrentStepIndex(c) < Len(p) /\ p[CurrentStepIndex(c) + 1].pause
                BY DEF AtPauseStep, StepsRemain, GetCurrentCanaryStep
            <4> QED
                BY <1>2, <2>2, <2>3, <4>1 DEF PausesAt, CurrentStepIndex, NoIndex
        <3>4. SteppedStatus(c).pauseCondition => PausesAt(SteppedStatus(c))
            BY <2>2, <2>4, <2>6, <3>1, <3>2, <3>3 DEF PausesAt
        <3> QED
            BY <1>2, <2>1, <2>3, <2>4, <3>1, <3>4 DEF FitsPlan
    <2> QED
        BY <2>5, <2>6, EndFields
<1> QED
    BY <1>3, <1>4, <1>5

-----------------------------------------------------------------------------
(***************************************************************************)
(* StepsInv holds at first, and every step keeps it                        *)
(***************************************************************************)
LEMMA InitStepsInv == Init => StepsInv
<1> SUFFICES ASSUME Init PROVE StepsInv
    OBVIOUS
<1>1. PICK t \in Deployed : InitialRollout(t)
    BY DEF Init
<1>2. spec \in RolloutSpec /\ spec.steps \in Seq(CanaryStep) /\ spec.steps # Nil
      /\ spec.template # Nil
    BY <1>1, ConstantsAssumption DEF InitialRollout, RolloutSpec
<1>3. Len(spec.steps) \in Nat
    BY <1>2
<1>4. FitsPlan(status)
    BY <1>1, <1>2, <1>3 DEF InitialRollout, FitsPlan, EmptyStatus, DeployedStatus, EndIndex
<1> QED
    BY <1>4 DEF Init, StepsInv, StatusFitsPlan, SnapshotIsFresh

\* What the pass still holds is as it was.
LEMMA CopyHeld ==
    ASSUME TypeOK, StepsInv, HoldsCopy, UNCHANGED status,
           spec' = spec \/ (UpToDate /\ spec' = ctx.spec)
    PROVE  StepsInv'
<1>1. FitsPlan(status') /\ FitsPlan(ctx'.status)
    BY DEF StepsInv, StatusFitsPlan, HoldsCopy
<1>2. ctx'.addPause => AtPauseStep(ctx')
    BY DEF StepsInv, HoldsCopy, AtPauseStep, StepsRemain, GetCurrentCanaryStep, CurrentStepIndex
<1>3. SnapshotIsFresh'
    BY DEF StepsInv, SnapshotIsFresh, HoldsCopy
<1> QED
    BY <1>1, <1>2, <1>3 DEF StepsInv, StatusFitsPlan

LEMMA MarkedFits ==
    ASSUME NEW p, NEW q, ctx.status \in RolloutStatus
    PROVE  /\ FitsPlan(ctx.status) => FitsPlan(Marked(p, q))
           /\ Marked(p, q).stepIndex = ctx.status.stepIndex
           /\ Marked(p, q).podHash = ctx.status.podHash
           /\ Marked(p, q).stepHash = ctx.status.stepHash
           /\ Marked(p, q).stableRS = ctx.status.stableRS
           /\ Marked(p, q).pauseCondition = ctx.status.pauseCondition
<1>1. /\ Marked(p, q).stepIndex = ctx.status.stepIndex
      /\ Marked(p, q).podHash = ctx.status.podHash
      /\ Marked(p, q).stepHash = ctx.status.stepHash
      /\ Marked(p, q).stableRS = ctx.status.stableRS
      /\ Marked(p, q).pauseCondition = ctx.status.pauseCondition
    BY DEF Marked, RolloutStatus
<1> QED
    BY <1>1, SameFit

LEMMA MarkingKeeps ==
    ASSUME TypeOK, StepsInv, checkPausedConditions \/ AnnounceReplicaSet
    PROVE  StepsInv'
<1>1. pc # "idle" /\ pc' # "idle" /\ spec' = spec
    BY MarkingEffect
<1>2. PICK p, q \in BOOLEAN :
         /\ ctx' = [ctx EXCEPT !.status = Marked(p, q)]
         /\ \/ ctx.status = Marked(p, q) /\ UNCHANGED <<status, staleRO>>
            \/ UpToDate /\ status' = Marked(p, q) /\ staleRO' \in {Locking, FALSE}
    BY MarkingEffect, Zenon
<1>3. ctx \in Context /\ ctx.status \in RolloutStatus
    BY <1>1 DEF TypeOK, Context
<1> DEFINE m == Marked(p, q)
<1>4. /\ FitsPlan(m) /\ m.stepIndex = ctx.status.stepIndex
    BY <1>1, <1>3, MarkedFits DEF StepsInv
<1> HIDE DEF m
<1>5. ctx' = [ctx EXCEPT !.status = m]
    BY <1>2 DEF m
<1>6. ctx'.status = m /\ ctx'.spec = ctx.spec /\ ctx'.addPause = ctx.addPause
    BY <1>3, <1>5 DEF Context
<1>7. status' \in {status, m}
    BY <1>2 DEF m
<1>8. StatusFitsPlan'
    BY <1>4, <1>7 DEF StepsInv, StatusFitsPlan
<1>9. ctx'.addPause => AtPauseStep(ctx')
    BY <1>1, <1>4, <1>6 DEF StepsInv, AtPauseStep, StepsRemain, GetCurrentCanaryStep, CurrentStepIndex
<1>10. SnapshotIsFresh'
    BY <1>1, <1>2, <1>6 DEF StepsInv, SnapshotIsFresh, UpToDate, m
<1> QED
    BY <1>4, <1>6, <1>8, <1>9, <1>10 DEF StepsInv

\* The last write of a pass, up to the marks of a pause.
LEMMA EndEffect ==
    ASSUME TypeOK, StepsInv, tryToCompleteStepAndSyncRolloutStatusCanary
    PROVE  /\ pc # "idle" /\ pc' = "idle" /\ UpToDate /\ spec' = spec
           /\ ctx \in Context /\ FitsPlan(status')
           /\ status'.podHash = NewStatus(ctx).podHash
           /\ status'.stepHash = NewStatus(ctx).stepHash
           /\ status'.stepIndex = NewStatus(ctx).stepIndex
           /\ status'.stableRS = NewStatus(ctx).stableRS
           /\ status'.pauseCondition = NewStatus(ctx).pauseCondition
<1>1. pc # "idle" /\ pc' = "idle" /\ UpToDate /\ spec' = spec
    BY Zenon DEF tryToCompleteStepAndSyncRolloutStatusCanary, EndPass
<1>2. ctx \in Context
    BY <1>1 DEF TypeOK
<1>3. PICK kept \in BOOLEAN : status' = [NewStatus(ctx) EXCEPT !.progPaused = @ /\ kept]
    BY Zenon DEF tryToCompleteStepAndSyncRolloutStatusCanary
<1> DEFINE new == NewStatus(ctx)
<1>4. new \in RolloutStatus
    BY <1>2, NewStatusType
<1>5. FitsPlan(new)
    BY <1>1, <1>2, EndFits DEF StepsInv
<1> HIDE DEF new
<1>6. status' = [new EXCEPT !.progPaused = @ /\ kept]
    BY <1>3 DEF new
<1>7. /\ status'.podHash = new.podHash /\ status'.stepHash = new.stepHash
      /\ status'.stepIndex = new.stepIndex /\ status'.stableRS = new.stableRS
      /\ status'.pauseCondition = new.pauseCondition
    BY <1>4, <1>6 DEF RolloutStatus
<1>8. FitsPlan(status')
    BY <1>5, <1>7, SameFit
<1> QED
    BY <1>1, <1>2, <1>7, <1>8 DEF new

LEMMA NextStepsInv == TypeOK /\ StepsInv /\ [Next]_vars => StepsInv'
<1> SUFFICES ASSUME TypeOK, StepsInv, [Next]_vars PROVE StepsInv'
    OBVIOUS
<1>1. CASE ElsewhereInPass
    BY <1>1, ElsewhereHoldsCopy, CopyHeld
<1>2. CASE Beside
    BY <1>2, BesideEffect DEF StepsInv, StatusFitsPlan, SnapshotIsFresh,
       AtPauseStep, StepsRemain, GetCurrentCanaryStep, CurrentStepIndex
<1>3. CASE PassEnds
    BY <1>3, PassEndsEffect DEF StepsInv, StatusFitsPlan, SnapshotIsFresh
<1>4. CASE GetRollout
    <2>1. pc' = "checkPaused" /\ UNCHANGED <<spec, status>>
        BY <1>4, Zenon DEF GetRollout, rollout
    <2>2. ctx'.spec = spec /\ ctx'.status = status /\ ctx'.addPause = FALSE
        BY <1>4 DEF GetRollout
    <2> QED
        BY <2>1, <2>2 DEF StepsInv, StatusFitsPlan, SnapshotIsFresh
<1>5. CASE checkPausedConditions \/ AnnounceReplicaSet
    BY <1>5, MarkingKeeps
<1>6. CASE setRolloutRevision
    <2>1. /\ pc # "idle" /\ UNCHANGED <<status, staleRO>>
          /\ spec' = spec \/ (UpToDate /\ spec' = ctx.spec)
          /\ ctx' = [ctx EXCEPT !.revision = RolloutRevision(ctx)]
        BY <1>6, Zenon DEF setRolloutRevision
    <2>2. ctx \in Context
        BY <2>1 DEF TypeOK
    <2>3. HoldsCopy
        BY <2>1, <2>2 DEF HoldsCopy, Context
    <2> QED
        BY <2>1, <2>3, CopyHeld
<1>7. CASE reconcileCanaryPause
    <2>1. pc # "idle" /\ UNCHANGED <<spec, status, staleRO>> /\ AtPauseStep(ctx)
        BY <1>7, Zenon DEF reconcileCanaryPause, rollout
    <2>2. ctx \in Context
        BY <2>1 DEF TypeOK
    <2>3. ctx'.spec = ctx.spec /\ ctx'.status = ctx.status
        BY <1>7, <2>2 DEF reconcileCanaryPause, Context
    <2>4. AtPauseStep(ctx')
        BY <2>1, <2>3 DEF AtPauseStep, StepsRemain, GetCurrentCanaryStep, CurrentStepIndex
    <2> QED
        BY <2>1, <2>3, <2>4 DEF StepsInv, StatusFitsPlan, SnapshotIsFresh
<1>8. CASE tryToCompleteStepAndSyncRolloutStatusCanary
    BY <1>8, EndEffect DEF StepsInv, StatusFitsPlan, SnapshotIsFresh
<1>9. CASE EditSpec \/ Resume
    <2>1. UNCHANGED <<pc, ctx>> /\ staleRO' = (staleRO \/ (Locking /\ pc # "idle"))
        BY <1>9, Zenon DEF EditSpec, Resume, TouchRollout
    <2>2. SnapshotIsFresh'
        BY <2>1 DEF SnapshotIsFresh
    <2>3. StatusFitsPlan'
        <3>1. CASE EditSpec
            BY <3>1 DEF EditSpec, StepsInv, StatusFitsPlan
        <3>2. CASE Resume
            BY <3>2 DEF Resume, StepsInv, StatusFitsPlan, FitsPlan, PausesAt, TypeOK, RolloutStatus
        <3> QED
            BY <1>9, <3>1, <3>2
    <2> QED
        BY <2>1, <2>2, <2>3 DEF StepsInv, AtPauseStep, StepsRemain, GetCurrentCanaryStep,
           CurrentStepIndex
<1> QED
    BY <1>1, <1>2, <1>3, <1>4, <1>5, <1>6, <1>7, <1>8, <1>9, Zenon
    DEF Next, Pass, Failure, User, Kube, ElsewhereInPass, Beside, PassEnds

\* With or without locking, the status is one that fits its plan, and so is the
\* pass's copy of it; with locking, a copy that is not stale is the rollout.
THEOREM StepsInvariant == Spec => []StepsInv
<1>1. TypeOK /\ StepsInv /\ [Next]_vars => StepsInv'
    BY NextStepsInv
<1> QED
    BY <1>1, InitStepsInv, TypeCorrect, PTL DEF Spec

\* Whatever the user puts in place of the plan, and whatever races with it, the
\* index stays within the adopted plan and the rollout waits at its pauses only.
THEOREM StatusAlwaysFitsPlan == Spec => []StatusFitsPlan
<1>1. StepsInv => StatusFitsPlan
    BY DEF StepsInv
<1> QED
    BY <1>1, StepsInvariant, PTL

-----------------------------------------------------------------------------
(***************************************************************************)
(* The refinement                                                          *)
(***************************************************************************)
LEMMA InitImplements == Init => Steps!Init
<1> SUFFICES ASSUME Init PROVE Steps!Init
    OBVIOUS
<1>1. PICK t \in Deployed : InitialRollout(t)
    BY DEF Init
<1>2. spec.template \in Templates /\ spec.steps \in StepPlans
    BY <1>1 DEF InitialRollout, RolloutSpec
<1>3. CASE t = Nil
    BY <1>1, <1>2, <1>3 DEF InitialRollout, EmptyStatus, Steps!Init, NoIndex, Steps!NoIndex
<1>4. CASE t # Nil
    BY <1>1, <1>2, <1>4 DEF InitialRollout, EmptyStatus, DeployedStatus, EndIndex,
       Steps!Init, Steps!Past, NoIndex, Steps!NoIndex
<1> QED
    BY <1>3, <1>4

\* What the user sees does not change.
SameView ==
    /\ spec' = spec /\ status'.stableRS = status.stableRS
    /\ status'.podHash = status.podHash /\ status'.stepHash = status.stepHash
    /\ status'.stepIndex = status.stepIndex
    /\ status'.pauseCondition = status.pauseCondition

LEMMA SameViewStutters == SameView => UNCHANGED Steps!vars
BY DEF SameView, Steps!vars

\* With locking, the last write of a pass is one step of the machine.
LEMMA EndImplements ==
    ASSUME Locking, TypeOK, StepsInv, tryToCompleteStepAndSyncRolloutStatusCanary
    PROVE  [Steps!Next]_(Steps!vars)
<1>1. /\ pc # "idle" /\ UpToDate /\ spec' = spec /\ ctx \in Context
      /\ status'.podHash = NewStatus(ctx).podHash
      /\ status'.stepHash = NewStatus(ctx).stepHash
      /\ status'.stepIndex = NewStatus(ctx).stepIndex
      /\ status'.stableRS = NewStatus(ctx).stableRS
      /\ status'.pauseCondition = NewStatus(ctx).pauseCondition
    BY EndEffect
<1>2. ctx.spec = spec /\ ctx.status = status
    BY <1>1 DEF StepsInv, SnapshotIsFresh, UpToDate
<1>3. FitsPlan(status) /\ (ctx.addPause => AtPauseStep(ctx))
    BY <1>1 DEF StepsInv, StatusFitsPlan
<1>4. /\ spec.template \in Templates /\ spec.steps \in StepPlans
      /\ spec.template # Nil /\ spec.steps # Nil /\ Len(spec.steps) \in Nat
      /\ status.pauseCondition \in BOOLEAN /\ ctx.addPause \in BOOLEAN
    <2>1. spec.steps \in Seq(CanaryStep)
        BY ConstantsAssumption DEF TypeOK, RolloutSpec
    <2> QED
        BY <1>1, <2>1, ConstantsAssumption DEF TypeOK, RolloutSpec, RolloutStatus, Context
<1>5. CASE PodTemplateOrStepsChanged(ctx)
    <2>1. NewStatus(ctx) = ResetStatus(ctx)
        BY <1>5 DEF NewStatus
    <2>2. status.podHash # spec.template \/ status.stepHash # spec.steps
        BY <1>2, <1>5 DEF PodTemplateOrStepsChanged
    <2>3. status'.podHash = spec.template /\ status'.stepHash = spec.steps
          /\ status'.stableRS = status.stableRS
        BY <1>1, <1>2, <2>1, EndFields
    <2>4. status'.pauseCondition = FALSE
        <3>1. status'.pauseCondition \in BOOLEAN
            BY TryToCompleteTypeOK DEF TypeOK, RolloutStatus
        <3> QED
            BY <1>1, <2>1, <3>1, EndFields
    <2>5. \/ status'.stepIndex = Steps!First(spec.steps)
          \/ status.stableRS = spec.template /\ status'.stepIndex = Steps!Past(spec.steps)
        BY <1>1, <1>2, <2>1, EndFields DEF StartIndex, EndIndex, Steps!First, Steps!Past,
           NoIndex, Steps!NoIndex
    <2>6. Steps!Adopt
        BY <1>1, <2>2, <2>3, <2>4, <2>5 DEF Steps!Adopt
    <2> QED
        BY <2>6 DEF Steps!Next
<1> DEFINE current == /\ ~PodTemplateOrStepsChanged(ctx)
                      /\ status.stepHash = spec.steps /\ status.podHash = spec.template
<1>6. ~PodTemplateOrStepsChanged(ctx) => current
    BY <1>2, <1>3, <1>4 DEF PodTemplateOrStepsChanged, FitsPlan
<1>7. CASE current /\ shouldFullPromote(ctx)
    <2>1. NewStatus(ctx) = PromotedStatus(ctx)
        BY <1>7 DEF NewStatus
    <2>2. status'.pauseCondition = FALSE
        <3>1. status'.pauseCondition \in BOOLEAN
            BY TryToCompleteTypeOK DEF TypeOK, RolloutStatus
        <3> QED
            BY <1>1, <2>1, <3>1, EndFields
    <2>3. Steps!Promote
        BY <1>1, <1>2, <1>7, <2>1, <2>2, EndFields DEF Steps!Promote, Steps!UpToDate,
           Steps!Past, EndIndex, NoIndex, Steps!NoIndex
    <2> QED
        BY <2>3 DEF Steps!Next
<1>8. CASE current /\ ~shouldFullPromote(ctx)
    <2>1. NewStatus(ctx) = SteppedStatus(ctx)
        BY <1>8 DEF NewStatus
    <2>2. status'.podHash = status.podHash /\ status'.stepHash = status.stepHash
          /\ status'.stableRS = status.stableRS
        BY <1>1, <1>2, <1>8, <2>1, EndFields
    <2>3. IF spec.steps = <<>> THEN status.stepIndex = NoIndex
          ELSE status.stepIndex \in 0..Len(spec.steps) /\ CurrentStepIndex(ctx) = status.stepIndex
        BY <1>2, <1>3, <1>4, <1>8 DEF FitsPlan, CurrentStepIndex, NoIndex
    <2>4. CASE /\ StepsRemain(ctx) /\ ~SteppedStatus(ctx).pauseCondition
               /\ SteppedStatus(ctx).stepIndex = CurrentStepIndex(ctx) + 1
        <3>1. status'.pauseCondition = FALSE
            <4>1. status'.pauseCondition \in BOOLEAN
                BY TryToCompleteTypeOK DEF TypeOK, RolloutStatus
            <4> QED
                BY <1>1, <2>1, <2>4, <4>1
        <3>2. /\ status.stepIndex \in 0..(Len(spec.steps) - 1)
              /\ status'.stepIndex = status.stepIndex + 1
            BY <1>1, <1>2, <1>4, <2>1, <2>3, <2>4 DEF StepsRemain, CurrentStepIndex, NoIndex
        <3>3. Steps!TakeStep
            BY <1>1, <1>4, <1>8, <2>2, <3>1, <3>2 DEF Steps!TakeStep, Steps!UpToDate, Steps!AtStep
        <3> QED
            BY <3>3 DEF Steps!Next
    <2>5. CASE /\ SteppedStatus(ctx).stepIndex =
                      (IF spec.steps = <<>> THEN NoIndex ELSE CurrentStepIndex(ctx))
               /\ SteppedStatus(ctx).pauseCondition = (status.pauseCondition \/ ctx.addPause)
        <3>1. status'.stepIndex = status.stepIndex
            BY <1>1, <2>1, <2>3, <2>5
        <3>2. status'.pauseCondition = (status.pauseCondition \/ ctx.addPause)
            BY <1>1, <2>1, <2>5
        <3>3. CASE ctx.addPause
            <4>1. CurrentStepIndex(ctx) < Len(spec.steps) /\ spec.steps[CurrentStepIndex(ctx) + 1].pause
                BY <1>2, <1>3, <3>3 DEF AtPauseStep, StepsRemain, GetCurrentCanaryStep
            <4>2. Steps!AtPause
                BY <1>2, <1>4, <1>8, <2>3, <4>1 DEF Steps!AtPause, Steps!AtStep, CurrentStepIndex, NoIndex
            <4>3. status'.pauseCondition = TRUE
                BY <1>4, <3>2, <3>3
            <4>4. Steps!Wait
                BY <1>1, <1>8, <2>2, <3>1, <4>2, <4>3 DEF Steps!Wait, Steps!UpToDate
            <4> QED
                BY <4>4 DEF Steps!Next
        <3>4. CASE ~ctx.addPause
            <4>1. status'.pauseCondition = status.pauseCondition
                BY <1>4, <3>2, <3>4
            <4> QED
                BY <1>1, <2>2, <3>1, <4>1, SameViewStutters DEF SameView
        <3> QED
            BY <3>3, <3>4
    <2> QED
        BY <1>1, <1>2, <2>4, <2>5, EndFields
<1> QED
    BY <1>5, <1>6, <1>7, <1>8

\* With locking, every step is a step of the machine or one it does not see.
LEMMA NextImplements ==
    ASSUME Locking
    PROVE  TypeOK /\ StepsInv /\ [Next]_vars => [Steps!Next]_(Steps!vars)
<1> SUFFICES ASSUME TypeOK, StepsInv, [Next]_vars PROVE [Steps!Next]_(Steps!vars)
    OBVIOUS
<1>1. CASE ElsewhereInPass
    BY <1>1, ElsewhereHoldsCopy, SameViewStutters DEF SameView
<1>2. CASE Beside
    BY <1>2, BesideEffect, SameViewStutters DEF SameView
<1>3. CASE PassEnds
    BY <1>3, PassEndsEffect, SameViewStutters DEF SameView
<1>4. CASE GetRollout \/ reconcileCanaryPause
    BY <1>4, SameViewStutters, Zenon DEF GetRollout, reconcileCanaryPause, rollout, SameView
<1>5. CASE checkPausedConditions \/ AnnounceReplicaSet
    <2>1. pc # "idle" /\ spec' = spec
        BY <1>5, MarkingEffect
    <2>2. PICK p, q \in BOOLEAN :
             UNCHANGED status \/ (UpToDate /\ status' = Marked(p, q))
        BY <1>5, MarkingEffect, Zenon
    <2>3. UpToDate => ctx.status = status
        BY <2>1 DEF StepsInv, SnapshotIsFresh, UpToDate
    <2>4. ctx.status \in RolloutStatus
        BY <2>1 DEF TypeOK, Context
    <2>5. SameView
        BY <2>1, <2>2, <2>3, <2>4, MarkedFits DEF SameView
    <2> QED
        BY <2>5, SameViewStutters
<1>6. CASE setRolloutRevision
    <2>1. /\ pc # "idle" /\ UNCHANGED status
          /\ spec' = spec \/ (UpToDate /\ spec' = ctx.spec)
        BY <1>6, Zenon DEF setRolloutRevision
    <2>2. spec' = spec
        BY <2>1 DEF StepsInv, SnapshotIsFresh, UpToDate
    <2> QED
        BY <2>1, <2>2, SameViewStutters DEF SameView
<1>7. CASE tryToCompleteStepAndSyncRolloutStatusCanary
    BY <1>7, EndImplements
<1>8. CASE EditSpec
    <2>1. spec' \in RolloutSpec /\ status' = status
        BY <1>8, Zenon DEF EditSpec
    <2>2. Steps!Ask
        BY <2>1 DEF Steps!Ask, RolloutSpec
    <2> QED
        BY <2>2 DEF Steps!Next
<1>9. CASE Resume
    <2>1. PICK p \in {FALSE, spec.paused} : spec' = [spec EXCEPT !.paused = p]
        BY <1>9, Zenon DEF Resume
    <2>2. spec'.template = spec.template /\ spec'.steps = spec.steps
        BY <2>1 DEF TypeOK, RolloutSpec
    <2>3. status.pauseCondition /\ status' = [status EXCEPT !.pauseCondition = FALSE]
        BY <1>9, Zenon DEF Resume
    <2>4. /\ status'.stableRS = status.stableRS /\ status'.podHash = status.podHash
          /\ status'.stepHash = status.stepHash /\ status'.stepIndex = status.stepIndex
          /\ status'.pauseCondition = FALSE
        BY <2>3 DEF TypeOK, RolloutStatus
    <2>5. Steps!Resume
        BY <2>2, <2>3, <2>4 DEF Steps!Resume
    <2> QED
        BY <2>5 DEF Steps!Next
<1> QED
    BY <1>1, <1>2, <1>3, <1>4, <1>5, <1>6, <1>7, <1>8, <1>9, Zenon
    DEF Next, Pass, Failure, User, Kube, ElsewhereInPass, Beside, PassEnds

\* The rollout as its user sees it is a behaviour of CanarySteps, when the store
\* rejects stale writes.
THEOREM RolloutImplementsSteps ==
    ASSUME Locking PROVE Spec => ImplementsSteps
<1>1. Init => Steps!Init
    BY InitImplements
<1>2. TypeOK /\ StepsInv /\ [Next]_vars => [Steps!Next]_(Steps!vars)
    BY NextImplements
<1> QED
    BY <1>1, <1>2, TypeCorrect, StepsInvariant, PTL DEF Spec, ImplementsSteps, Steps!Spec

-----------------------------------------------------------------------------
(***************************************************************************)
(* What follows for the user                                               *)
(***************************************************************************)

\* A write of the whole rollout puts back what is there: no edit is lost.
THEOREM NoEditIsLost ==
    ASSUME Locking PROVE Spec => EditsAreKept
<1>1. TypeOK /\ StepsInv /\ [Next]_vars => [pc' # pc => spec' = spec]_vars
    <2> SUFFICES ASSUME TypeOK, StepsInv, Next, pc' # pc PROVE spec' = spec
        OBVIOUS
    <2>1. CASE ElsewhereInPass
        BY <2>1, ElsewhereHoldsCopy
    <2>2. CASE Beside
        BY <2>2, BesideEffect
    <2>3. CASE PassEnds
        BY <2>3, PassEndsEffect
    <2>4. CASE \/ GetRollout \/ reconcileCanaryPause \/ checkPausedConditions
               \/ AnnounceReplicaSet \/ tryToCompleteStepAndSyncRolloutStatusCanary
        BY <2>4, Zenon DEF GetRollout, reconcileCanaryPause, checkPausedConditions,
           AnnounceReplicaSet, tryToCompleteStepAndSyncRolloutStatusCanary, rollout
    <2>5. CASE setRolloutRevision
        <3>1. pc # "idle" /\ (spec' = spec \/ (UpToDate /\ spec' = ctx.spec))
            BY <2>5, Zenon DEF setRolloutRevision
        <3> QED
            BY <3>1 DEF StepsInv, SnapshotIsFresh, UpToDate
    <2>6. CASE EditSpec \/ Resume
        BY <2>6, Zenon DEF EditSpec, Resume
    <2> QED
        BY <2>1, <2>2, <2>3, <2>4, <2>5, <2>6, Zenon
        DEF Next, Pass, Failure, User, Kube, ElsewhereInPass, Beside, PassEnds
<1> QED
    BY <1>1, TypeCorrect, StepsInvariant, PTL DEF Spec, EditsAreKept

\* Only the template the user wants at that moment becomes stable.
THEOREM OnlyWantedIsPromoted ==
    ASSUME Locking PROVE Spec => PromotesWantedTemplate
<1>1. [Steps!Next]_(Steps!vars)
        => [status'.stableRS # status.stableRS => status'.stableRS = spec.template]_vars
    BY DEF Steps!Next, Steps!vars, Steps!Ask, Steps!Adopt, Steps!Wait, Steps!TakeStep,
       Steps!Promote, Steps!Resume
<1> QED
    BY <1>1, RolloutImplementsSteps, PTL DEF ImplementsSteps, Steps!Spec, PromotesWantedTemplate

\* Steps are taken one at a time and in order; otherwise the index starts over
\* with another template or plan, or goes past the end with the stable template.
THEOREM StepsAreInOrder ==
    ASSUME Locking PROVE Spec => StepsInOrder
<1> DEFINE Ordered ==
        status'.stepIndex # status.stepIndex =>
            \/ status'.stepIndex = status.stepIndex + 1
            \/ /\ status'.stepIndex = StartIndex(status'.stepHash)
               /\ \/ status'.stepHash # status.stepHash
                  \/ status'.podHash # status.podHash
            \/ /\ status'.stepIndex = EndIndex(status'.stepHash)
               /\ status'.stableRS = status'.podHash
<1>1. [Steps!Next]_(Steps!vars) => [Ordered]_vars
    BY DEF Steps!Next, Steps!vars, Steps!Ask, Steps!Adopt, Steps!Wait, Steps!TakeStep,
       Steps!Promote, Steps!Resume, Steps!UpToDate, Steps!First, Steps!Past, StartIndex,
       EndIndex, NoIndex, Steps!NoIndex
<1> QED
    BY <1>1, RolloutImplementsSteps, PTL DEF ImplementsSteps, Steps!Spec, StepsInOrder

-----------------------------------------------------------------------------
(***************************************************************************)
(* Pauses                                                                  *)
(***************************************************************************)

\* The pause that a pass writes at its end: none when it is cleared, and one
\* that is a condition too when it is kept.
LEMMA BasePause ==
    ASSUME NEW c \in Context
    PROVE  /\ ~BaseStatus(c, TRUE).controllerPause
           /\ BaseStatus(c, FALSE).controllerPause => BaseStatus(c, FALSE).pauseCondition
<1> DEFINE base(h, s, a, b) == [c.status EXCEPT !.podHash = h, !.stepHash = s,
                                               !.pauseCondition = a, !.controllerPause = b]
<1>1. c.status \in RolloutStatus
    BY DEF Context
<1>2. \A h, s, a, b : base(h, s, a, b).pauseCondition = a /\ base(h, s, a, b).controllerPause = b
    BY <1>1 DEF RolloutStatus
<1> DEFINE p(cleared) == ~cleared /\ (c.status.pauseCondition \/ c.addPause)
           q(cleared) == ~cleared /\ (c.addPause \/ (c.status.controllerPause
                                                     /\ c.status.pauseCondition))
<1>3. \A cleared : BaseStatus(c, cleared) =
                      base(c.spec.template, c.spec.steps, p(cleared), q(cleared))
    BY DEF BaseStatus
<1>4. ~q(TRUE) /\ (q(FALSE) => p(FALSE))
    OBVIOUS
<1> HIDE DEF base, p, q
<1>5. \A cleared : /\ BaseStatus(c, cleared).controllerPause = q(cleared)
                   /\ BaseStatus(c, cleared).pauseCondition = p(cleared)
    BY <1>2, <1>3
<1> QED
    BY <1>4, <1>5, Zenon

\* So it is in each of the three ways to end.
LEMMA EndPause ==
    ASSUME NEW c \in Context, NewStatus(c).controllerPause
    PROVE  NewStatus(c).pauseCondition
<1>1. /\ CurrentStepIndex(c) \in Nat
      /\ BaseStatus(c, TRUE) \in RolloutStatus /\ BaseStatus(c, FALSE) \in RolloutStatus
    BY BaseStatusType DEF Context, CurrentStepIndex, RolloutStatus, NoIndex
<1>2. \A st \in RolloutStatus : \A i, t :
         /\ WithIndex(st, i).controllerPause = st.controllerPause
         /\ WithIndex(st, i).pauseCondition = st.pauseCondition
         /\ WithStable(st, i, t).controllerPause = st.controllerPause
    BY DEF RolloutStatus, WithIndex, WithStable
<1>3. \/ \E i, t : NewStatus(c) \in {WithIndex(BaseStatus(c, TRUE), i),
                                     WithStable(BaseStatus(c, TRUE), i, t)}
      \/ \E i : NewStatus(c) = WithIndex(BaseStatus(c, FALSE), i)
    BY Zenon DEF NewStatus, ResetStatus, PromotedStatus, SteppedStatus, WithIndex, WithStable
<1>4. CASE \E i, t : NewStatus(c) \in {WithIndex(BaseStatus(c, TRUE), i),
                                      WithStable(BaseStatus(c, TRUE), i, t)}
    <2>1. PICK i, t : \/ NewStatus(c) = WithIndex(BaseStatus(c, TRUE), i)
                      \/ NewStatus(c) = WithStable(BaseStatus(c, TRUE), i, t)
        BY <1>4
    <2>2. /\ WithIndex(BaseStatus(c, TRUE), i).controllerPause = BaseStatus(c, TRUE).controllerPause
          /\ WithStable(BaseStatus(c, TRUE), i, t).controllerPause
                = BaseStatus(c, TRUE).controllerPause
        BY <1>1, <1>2
    <2>3. NewStatus(c).controllerPause = BaseStatus(c, TRUE).controllerPause
        BY <2>1, <2>2, Zenon
    <2> QED
        BY <2>3, BasePause
<1>5. CASE \E i : NewStatus(c) = WithIndex(BaseStatus(c, FALSE), i)
    <2>1. PICK i : NewStatus(c) = WithIndex(BaseStatus(c, FALSE), i)
        BY <1>5
    <2>2. /\ NewStatus(c).controllerPause = BaseStatus(c, FALSE).controllerPause
          /\ NewStatus(c).pauseCondition = BaseStatus(c, FALSE).pauseCondition
        BY <1>1, <1>2, <2>1
    <2> QED
        BY <2>2, BasePause
<1> QED
    BY <1>3, <1>4, <1>5

LEMMA EndUserEnded ==
    ASSUME TypeOK, StepsInv, tryToCompleteStepAndSyncRolloutStatusCanary
    PROVE  UserEndedPause'
<1>1. ctx \in Context /\ status'.pauseCondition = NewStatus(ctx).pauseCondition
    BY EndEffect
<1>2. PICK kept \in BOOLEAN : status' = [NewStatus(ctx) EXCEPT !.progPaused = @ /\ kept]
    BY Zenon DEF tryToCompleteStepAndSyncRolloutStatusCanary
<1> DEFINE new == NewStatus(ctx)
<1>3. new \in RolloutStatus
    BY <1>1, NewStatusType
<1> HIDE DEF new
<1>4. status' = [new EXCEPT !.progPaused = @ /\ kept]
    BY <1>2 DEF new
<1>5. status'.controllerPause = new.controllerPause
    BY <1>3, <1>4 DEF RolloutStatus
<1> QED
    BY <1>1, <1>5, EndPause DEF new, UserEndedPause

LEMMA InitUserEnded == Init => UserEndedPause
<1> SUFFICES ASSUME Init PROVE UserEndedPause
    OBVIOUS
<1>1. PICK t \in Deployed : InitialRollout(t)
    BY DEF Init
<1> QED
    BY <1>1 DEF InitialRollout, EmptyStatus, DeployedStatus, UserEndedPause

\* Before its end, a pass only rewrites the marks of a pause, in a status that
\* is still the rollout's.
LEMMA NextUserEnded ==
    ASSUME Locking
    PROVE  TypeOK /\ StepsInv /\ UserEndedPause /\ [Next]_vars => UserEndedPause'
<1> SUFFICES ASSUME TypeOK, StepsInv, UserEndedPause, [Next]_vars PROVE UserEndedPause'
    OBVIOUS
<1>1. CASE tryToCompleteStepAndSyncRolloutStatusCanary
    BY <1>1, EndUserEnded
<1>2. CASE checkPausedConditions \/ AnnounceReplicaSet
    <2>1. pc # "idle" /\ UNCHANGED resumed
        BY <1>2, Zenon DEF checkPausedConditions, AnnounceReplicaSet, pauses
    <2>2. PICK p, q \in BOOLEAN :
             UNCHANGED status \/ (UpToDate /\ status' = Marked(p, q))
        BY <1>2, MarkingEffect, Zenon
    <2>3. UpToDate => ctx.status = status
        BY <2>1 DEF StepsInv, SnapshotIsFresh, UpToDate
    <2>4. Marked(p, q).pauseCondition = ctx.status.pauseCondition
          /\ Marked(p, q).controllerPause = ctx.status.controllerPause
        BY <2>1 DEF TypeOK, Context, RolloutStatus, Marked
    <2> QED
        BY <2>1, <2>2, <2>3, <2>4 DEF UserEndedPause
<1>3. CASE Resume
    BY <1>3, Zenon DEF Resume, UserEndedPause
<1>4. ASSUME UNCHANGED <<status, resumed>> PROVE UserEndedPause'
    BY <1>4 DEF UserEndedPause
<1>5. CASE \/ ElsewhereInPass \/ Beside \/ PassEnds \/ GetRollout \/ setRolloutRevision
           \/ reconcileCanaryPause \/ EditSpec
    <2>1. UNCHANGED <<status, resumed>>
        BY <1>5, Zenon DEF ElsewhereInPass, Beside, PassEnds, syncReplicaSetRevision,
           createDesiredReplicaSet, reconcileRevisionHistoryLimit, haltProgress,
           reconcileNewReplicaSet, reconcileOldReplicaSets, cleanupUnhealthyReplicas,
           StartScaleDown, scaleDownOldReplicaSetsForCanary, OldScalingFails, SyncPods,
           PodReady, PodFails, PauseElapses, PanicOnNilStable, Conflict, PassFails,
           GetRollout, setRolloutRevision, reconcileCanaryPause, EditSpec,
           vars, rollout, pauses
    <2> QED
        BY <2>1, <1>4
<1> QED
    BY <1>1, <1>2, <1>3, <1>5, Zenon
    DEF Next, Pass, Failure, User, Kube, ElsewhereInPass, Beside, PassEnds

\* A pause that is no longer in the conditions, while controllerPause still
\* says that there was one, was ended by the user; no write of the controller
\* leaves such a status behind.
THEOREM OnlyUserEndsPause ==
    ASSUME Locking PROVE Spec => []UserEndedPause
<1>1. TypeOK /\ StepsInv /\ UserEndedPause /\ [Next]_vars => UserEndedPause'
    BY NextUserEnded
<1> QED
    BY <1>1, InitUserEnded, TypeCorrect, StepsInvariant, PTL DEF Spec

\* What ends a pause step: the last write of a pass, whose copy is the rollout.
LEMMA PauseStepEnds ==
    ASSUME Locking, IInv, StepsInv, UserEndedPause,
           tryToCompleteStepAndSyncRolloutStatusCanary,
           AtPause, status'.stepIndex = status.stepIndex + 1,
           status'.stepHash = status.stepHash, status'.podHash = status.podHash,
           status'.stableRS # status'.podHash
    PROVE  \/ resumed
           \/ AtTimedPause /\ timeUp
           \/ ctx.rss[ctx.new].spec > DesiredNewReplicas(ctx)
           \/ ctx.rss[ctx.new].spec >= ctx.spec.replicas
<1>1. /\ pc # "idle" /\ UpToDate /\ ctx \in Context
      /\ status'.podHash = NewStatus(ctx).podHash
      /\ status'.stepHash = NewStatus(ctx).stepHash
      /\ status'.stepIndex = NewStatus(ctx).stepIndex
      /\ status'.stableRS = NewStatus(ctx).stableRS
    BY EndEffect DEF IInv
<1>2. ctx.status = status
    BY <1>1 DEF StepsInv, SnapshotIsFresh, UpToDate
<1>3. NewStatus(ctx) \in {ResetStatus(ctx), PromotedStatus(ctx), SteppedStatus(ctx)}
    BY DEF NewStatus
<1>4. NewStatus(ctx).podHash = ctx.spec.template /\ NewStatus(ctx).stepHash = ctx.spec.steps
    BY <1>1, <1>3, EndFields
<1>5. status.podHash = ctx.spec.template /\ status.stepHash = ctx.spec.steps
    BY <1>1, <1>4
<1>6. ~PodTemplateOrStepsChanged(ctx)
    BY <1>2, <1>5 DEF PodTemplateOrStepsChanged
<1>7. ~shouldFullPromote(ctx)
    BY <1>1, <1>4, <1>6, EndFields DEF NewStatus
<1>8. NewStatus(ctx) = SteppedStatus(ctx)
    BY <1>6, <1>7 DEF NewStatus
<1>9. /\ status.stepIndex \in Nat /\ CurrentStepIndex(ctx) = status.stepIndex
      /\ GetCurrentCanaryStep(ctx).pause
      /\ GetCurrentCanaryStep(ctx) = status.stepHash[status.stepIndex + 1]
    <2>1. status.stepIndex \in 0..(Len(status.stepHash) - 1)
          /\ status.stepHash[status.stepIndex + 1].pause
        BY DEF AtPause, PausesAt
    <2>2. status.stepIndex \in Nat
        BY <2>1
    <2>3. CurrentStepIndex(ctx) = status.stepIndex
        BY <1>2, <2>2 DEF CurrentStepIndex, NoIndex
    <2> QED
        BY <1>5, <2>1, <2>2, <2>3 DEF GetCurrentCanaryStep
<1>10. completedCurrentCanaryStep(ctx)
    <2>1. ASSUME ~completedCurrentCanaryStep(ctx)
          PROVE  SteppedStatus(ctx).stepIndex \in {NoIndex, CurrentStepIndex(ctx)}
        <3> DEFINE b == BaseStatus(ctx, FALSE)
                   i == IF ctx.spec.steps = <<>> THEN NoIndex ELSE CurrentStepIndex(ctx)
        <3>1. SteppedStatus(ctx) = WithIndex(b, i)
            BY <2>1, Zenon DEF SteppedStatus, WithIndex
        <3>2. b \in RolloutStatus /\ i \in Nat \cup {NoIndex}
            BY <1>1, <1>9, BaseStatusType
        <3>3. WithIndex(b, i).stepIndex = i
            <4> HIDE DEF b, i
            <4> QED
                BY <3>2, WithFields
        <3> QED
            BY <3>1, <3>3
    <2> QED
        BY <1>1, <1>8, <1>9, <2>1 DEF NoIndex
<1>11. \/ AllDesiredAreAvailable(ctx.rss[ctx.new], ctx.spec.replicas)
       \/ ctx.rss[ctx.new].spec > DesiredNewReplicas(ctx)
       \/ CompletedCanaryPauseStep(ctx)
    BY <1>9, <1>10 DEF completedCurrentCanaryStep
<1>12. CASE AllDesiredAreAvailable(ctx.rss[ctx.new], ctx.spec.replicas)
    <2>1. ctx.new # Nil
        BY <1>1, <1>6, Zenon DEF IInv, SnapshotIsCurrent,
           tryToCompleteStepAndSyncRolloutStatusCanary
    <2>2. ctx.rss[ctx.new].spec \in Nat /\ ctx.spec.replicas \in Nat
        BY <1>1, <2>1, ConstantsAssumption DEF Context, ReplicaSet, RolloutSpec
    <2> QED
        BY <1>12, <2>2 DEF AllDesiredAreAvailable
<1>13. CASE ctx.rss[ctx.new].spec > DesiredNewReplicas(ctx)
    BY <1>13
<1>14. CASE CompletedCanaryPauseStep(ctx)
    BY <1>2, <1>9, <1>14 DEF CompletedCanaryPauseStep, UserEndedPause, AtTimedPause
<1> QED
    BY <1>11, <1>12, <1>13, <1>14

\* A pause step ends only by the user's resume, by its duration, or because the
\* new ReplicaSet is beyond it, whatever edits race with the pass.
THEOREM PauseIsHeld ==
    ASSUME Locking PROVE Spec => PauseHoldsUntilOver
<1> DEFINE Ended == /\ AtPause /\ status'.stepIndex = status.stepIndex + 1
                    /\ status'.stepHash = status.stepHash /\ status'.podHash = status.podHash
                    /\ status'.stableRS # status'.podHash
           Over  == \/ resumed
                    \/ AtTimedPause /\ timeUp
                    \/ ctx.rss[ctx.new].spec > DesiredNewReplicas(ctx)
                    \/ ctx.rss[ctx.new].spec >= ctx.spec.replicas
<1>1. IInv /\ StepsInv /\ UserEndedPause /\ [Next]_vars => [Ended => Over]_vars
    <2> SUFFICES ASSUME IInv, StepsInv, UserEndedPause, Next, Ended PROVE Over
        OBVIOUS
    <2>0. TypeOK
        BY DEF IInv
    <2>1. status.stepIndex \in Nat /\ status'.stepIndex # status.stepIndex
        <3>1. status.stepIndex \in Nat
            BY DEF AtPause, PausesAt
        <3> QED
            BY <3>1
    <2>2. CASE tryToCompleteStepAndSyncRolloutStatusCanary
        BY <2>2, PauseStepEnds
    <2>3. CASE checkPausedConditions \/ AnnounceReplicaSet
        <3>1. pc # "idle"
            BY <2>0, <2>3, MarkingEffect
        <3>2. PICK p, q \in BOOLEAN :
                 UNCHANGED status \/ (UpToDate /\ status' = Marked(p, q))
            BY <2>0, <2>3, MarkingEffect, Zenon
        <3>3. UpToDate => ctx.status = status
            BY <3>1 DEF StepsInv, SnapshotIsFresh, UpToDate
        <3>4. ctx.status \in RolloutStatus
            BY <2>0, <3>1 DEF TypeOK, Context
        <3> QED
            BY <2>1, <3>2, <3>3, <3>4, MarkedFits
    <2>4. CASE Resume
        <3>1. status' = [status EXCEPT !.pauseCondition = FALSE]
            BY <2>4, Zenon DEF Resume
        <3> QED
            BY <2>0, <2>1, <3>1 DEF TypeOK, RolloutStatus
    <2>5. CASE ElsewhereInPass \/ Beside \/ PassEnds
        BY <2>0, <2>1, <2>5, ElsewhereHoldsCopy, BesideEffect, PassEndsEffect
    <2>6. CASE GetRollout \/ setRolloutRevision \/ reconcileCanaryPause \/ EditSpec
        BY <2>1, <2>6, Zenon DEF GetRollout, setRolloutRevision, reconcileCanaryPause,
           EditSpec, rollout
    <2> QED
        BY <2>2, <2>3, <2>4, <2>5, <2>6, Zenon
        DEF Next, Pass, Failure, User, Kube, ElsewhereInPass, Beside, PassEnds
<1> QED
    BY <1>1, Inductive, StepsInvariant, OnlyUserEndsPause, PTL DEF Spec, PauseHoldsUntilOver
=============================================================================
