----------------------- MODULE RolloutConditionsProofs -----------------------
(***************************************************************************)
(* Proofs about RolloutConditions, for any templates, step plan, number of *)
(* replicas and deadline: a rollout that waits at a pause step is reported *)
(* as paused, and the deadline counts from the last progress written.      *)
(***************************************************************************)
EXTENDS RolloutConditions, CanaryMathProofs

-----------------------------------------------------------------------------
(***************************************************************************)
(* What the operators make of a status                                     *)
(***************************************************************************)
\* All that writing Progressing leaves alone.
Kept(st, new) ==
    /\ new.podHash = st.podHash /\ new.stableRS = st.stableRS
    /\ new.stepsKnown = st.stepsKnown /\ new.stepIndex = st.stepIndex
    /\ new.replicas = st.replicas /\ new.updated = st.updated /\ new.available = st.available
    /\ new.pauseCondition = st.pauseCondition /\ new.controllerPause = st.controllerPause
    /\ new.healthy = st.healthy

LEMMA PlanType == /\ Len(Plan) \in Nat /\ \A i \in 1..Len(Plan) : Plan[i].pause \in BOOLEAN
<1>1. Plan \in Seq(CanaryStep)
  BY ConditionsAssumption
<1>2. Len(Plan) \in Nat /\ \A i \in 1..Len(Plan) : Plan[i] \in CanaryStep
  BY <1>1
<1> QED
  BY <1>2 DEF CanaryStep

LEMMA ZeroIsATime == 0 \in Times /\ Deadline + 1 \in Times /\ \A t \in Times : Later(t) \in Times
BY ConditionsAssumption DEF Times, Later, Smaller

LEMMA CondType ==
    ASSUME NEW s \in {"True", "False", "Unknown"}, NEW r \in Reasons
    PROVE  Cond(s, r) \in Progressing /\ Cond(s, r).reason = r
BY DEF Cond, Progressing

LEMMA ReplaceEffect ==
    ASSUME NEW st \in Status, NEW c \in Progressing
    PROVE  LET new == ReplaceProgressing(st, c)
           IN  /\ new \in Status /\ Kept(st, new) /\ new.progressing = c /\ new.age = 0
               /\ new.phase = st.phase
BY ZeroIsATime DEF ReplaceProgressing, Status, Kept

LEMMA SetEffect ==
    ASSUME NEW st \in Status, NEW c \in Progressing
    PROVE  LET new == SetProgressing(st, c)
           IN  /\ new \in Status /\ Kept(st, new) /\ new.progressing = c
               /\ new.age = IF st.progressing = c THEN st.age ELSE 0
               /\ new.phase = st.phase
BY ReplaceEffect DEF SetProgressing, Kept

LEMMA PhaseType ==
    ASSUME NEW p, NEW st
    PROVE  /\ CalculateRolloutPhase(p, st) \in Phases
           /\ st.pauseCondition /\ ~HasReason(st, "TimedOut")
                 => CalculateRolloutPhase(p, st) = "Paused"
BY DEF CalculateRolloutPhase, Phases

LEMMA ObservedEffect ==
    ASSUME NEW c, NEW st \in Status
    PROVE  LET new == Observed(c, st)
           IN  /\ new \in Status /\ Kept(st, new)
               /\ new.progressing = st.progressing /\ new.age = st.age
               /\ st.pauseCondition /\ ~HasReason(st, "TimedOut") => new.phase = "Paused"
<1> DEFINE seen == [st EXCEPT !.observed = TRUE]
           phase == CalculateRolloutPhase(c.paused, seen)
<1>1. /\ seen \in Status /\ Kept(st, seen)
      /\ seen.progressing = st.progressing /\ seen.age = st.age
  BY DEF Status, Kept
<1>2. phase \in Phases /\ (st.pauseCondition /\ ~HasReason(st, "TimedOut") => phase = "Paused")
  BY <1>1, PhaseType DEF Kept, HasReason
<1>3. Observed(c, st) = [seen EXCEPT !.phase = phase]
  BY DEF Observed
<1> HIDE DEF seen, phase
<1> QED
  BY <1>1, <1>2, <1>3 DEF Status, Kept

LEMMA ContextFields ==
    ASSUME NEW c \in Contexts
    PROVE  /\ c.template \in Templates /\ c.paused \in BOOLEAN /\ c.status \in Status
           /\ c.spec.steps = Plan /\ c.pods \in Sizes /\ c.exists \subseteq Templates
BY DEF Contexts

\* checkPausedConditions touches Progressing and Paused only, and then a paused
\* rollout is not found available.
LEMMA MarkedEffect ==
    ASSUME NEW c \in Contexts
    PROVE  LET new == MarkPaused(c)
           IN  /\ new \in Status /\ Kept(c.status, new)
               /\ new.age \in {0, c.status.age}
               /\ HasReason(new, "TimedOut") => HasReason(c.status, "TimedOut")
               /\ new = c.status /\ IsPaused(c)
                     => c.status.progressing # Cond("True", "NewReplicaSetAvailable")
<1> DEFINE reason == IF IsPaused(c) THEN "RolloutPaused" ELSE "RolloutResumed"
           cond == Cond("Unknown", reason)
           set == SetProgressing(c.status, cond)
           progress == IF IsPaused(c) = HasReason(c.status, "RolloutPaused") THEN c.status ELSE set
<1>1. reason \in Reasons /\ cond \in Progressing /\ cond.reason = reason
  BY CondType DEF Reasons
<1>2. c.status \in Status
  BY ContextFields
<1>3. /\ set \in Status /\ Kept(c.status, set) /\ set.progressing = cond
      /\ set.age \in {0, c.status.age}
  BY <1>1, <1>2, SetEffect
<1>4. reason # "TimedOut" /\ (IsPaused(c) => reason = "RolloutPaused")
  OBVIOUS
<1>5. MarkPaused(c) = [progress EXCEPT !.condPaused = IsPaused(c)] /\ IsPaused(c) \in BOOLEAN
  <2>1. c.status.pauseCondition \in BOOLEAN /\ c.paused \in BOOLEAN
    BY <1>2, ContextFields DEF Status
  <2> QED
    BY <2>1 DEF MarkPaused, IsPaused
<1> HIDE DEF reason, cond, set
<1>6. /\ progress \in Status /\ Kept(c.status, progress) /\ progress.age \in {0, c.status.age}
      /\ progress.progressing \in {c.status.progressing, cond}
  BY <1>2, <1>3 DEF Kept
<1>7. IsPaused(c) => progress.progressing = cond \/ HasReason(progress, "RolloutPaused")
  BY <1>2, <1>3
<1> HIDE DEF progress
<1>8. /\ MarkPaused(c) \in Status /\ Kept(c.status, MarkPaused(c))
      /\ MarkPaused(c).age = progress.age /\ MarkPaused(c).progressing = progress.progressing
  BY <1>5, <1>6 DEF Status, Kept
<1>9. HasReason(MarkPaused(c), "TimedOut") => HasReason(c.status, "TimedOut")
  BY <1>1, <1>4, <1>6, <1>8 DEF HasReason
<1>10. ASSUME MarkPaused(c) = c.status, IsPaused(c)
       PROVE  c.status.progressing # Cond("True", "NewReplicaSetAvailable")
  <2>1. c.status.progressing.reason = "RolloutPaused"
    BY <1>1, <1>4, <1>7, <1>8, <1>10 DEF HasReason
  <2>2. Cond("True", "NewReplicaSetAvailable").reason = "NewReplicaSetAvailable"
    BY DEF Cond
  <2> QED
    BY <2>1, <2>2
<1> QED
  BY <1>6, <1>8, <1>9, <1>10

LEMMA PodsAreCounted ==
    ASSUME NEW p \in Sizes
    PROVE  /\ Cardinality(Pods(Templates, [t \in Templates |-> p[t].actual])) \in Nat
           /\ GetAvailableReplicaCount(p, Templates) \in Nat
<1>1. IsFiniteSet(Templates) /\ \A t \in Templates : p[t].actual \in Nat /\ p[t].avail \in Nat
  BY ConditionsAssumption DEF Sizes
<1> DEFINE actual == [t \in Templates |-> p[t].actual]
           avail  == [t \in Templates |-> p[t].avail]
<1>2. \A t \in Templates : actual[t] \in Nat /\ avail[t] \in Nat
  BY <1>1
<1> HIDE DEF actual, avail
<1>3. Cardinality(Pods(Templates, actual)) \in Nat /\ Cardinality(Pods(Templates, avail)) \in Nat
  BY <1>1, <1>2, PodsFinite
<1> QED
  BY <1>3 DEF actual, avail, GetAvailableReplicaCount

\* The conditions' part of the status that a pass starts from.
SameConditions(st, new) ==
    new.progressing = st.progressing /\ new.age = st.age /\ new.healthy = st.healthy

LEMMA BaseEffect ==
    ASSUME NEW c \in Contexts, NEW cleared \in BOOLEAN
    PROVE  LET new == BaseStatus(c, cleared)
           IN  /\ new \in Status /\ SameConditions(c.status, new) /\ new.stepsKnown = TRUE
               /\ new.stepIndex = c.status.stepIndex
               /\ new.pauseCondition => ~cleared /\ (c.status.pauseCondition \/ AtPauseStep(c))
<1> DEFINE new  == IF c.template \in c.exists THEN c.pods[c.template].actual ELSE 0
           sum  == Cardinality(Pods(Templates, [t \in Templates |-> c.pods[t].actual]))
           avail == GetAvailableReplicaCount(c.pods, Templates)
           adds == ~c.paused /\ AtPauseStep(c) /\ ~TemplateOrStepsChanged(c)
                   /\ ~c.status.pauseCondition /\ ~c.status.controllerPause
           pauses == ~cleared /\ (c.status.pauseCondition \/ adds)
           controls == ~cleared /\ ControllerPause(c, adds)
<1>1. c.status \in Status /\ c.template \in Templates /\ c.pods \in Sizes
  BY ContextFields
<1>2. new \in Nat
  BY <1>1, ConditionsAssumption DEF Sizes
<1>3. sum \in Nat /\ avail \in Nat
  BY <1>1, PodsAreCounted
<1>4. pauses \in BOOLEAN /\ controls \in BOOLEAN
  OBVIOUS
<1>5. BaseStatus(c, cleared) =
        [c.status EXCEPT !.podHash = c.template, !.stepsKnown = TRUE, !.observed = TRUE,
                         !.replicas = sum, !.updated = new, !.available = avail,
                         !.pauseCondition = pauses, !.controllerPause = controls]
  <2>1. \A a : (~cleared /\ (c.status.pauseCondition \/ a)) \in BOOLEAN
    OBVIOUS
  <2> QED
    BY <1>1 DEF BaseStatus
<1>6. pauses => ~cleared /\ (c.status.pauseCondition \/ AtPauseStep(c))
  OBVIOUS
<1> HIDE DEF new, sum, avail, pauses, controls
<1>7. BaseStatus(c, cleared) \in Status
  BY <1>1, <1>2, <1>3, <1>4, <1>5 DEF Status
<1>8. /\ SameConditions(c.status, BaseStatus(c, cleared))
      /\ BaseStatus(c, cleared).stepsKnown = TRUE
      /\ BaseStatus(c, cleared).stepIndex = c.status.stepIndex
      /\ BaseStatus(c, cleared).pauseCondition = pauses
  BY <1>1, <1>5 DEF Status, SameConditions
<1> QED
  BY <1>6, <1>7, <1>8

\* CalculatePauseStatus and the step: a status that stays paused stays at its step.
LEMMA NewStatusEffect ==
    ASSUME NEW c \in Contexts, NEW new \in NewStatuses(c)
    PROVE  /\ new \in Status /\ SameConditions(c.status, new)
           /\ new.stepsKnown = TRUE /\ new.stepIndex # NoIndex
           /\ new.pauseCondition => /\ new.stepIndex = CurrentStepIndex(c)
                                    /\ c.status.pauseCondition \/ AtPauseStep(c)
<1>1. /\ c.status \in Status /\ c.template \in Templates /\ c.spec.steps = Plan
      /\ Len(Plan) \in Nat
  BY ContextFields, PlanType
<1>2. CurrentStepIndex(c) \in 0..Len(Plan)
  BY <1>1 DEF CurrentStepIndex, Status
<1> DEFINE old  == BaseStatus(c, FALSE)
           base == BaseStatus(c, TRUE)
<1>3. /\ old \in Status /\ SameConditions(c.status, old) /\ old.stepsKnown = TRUE
      /\ old.pauseCondition => c.status.pauseCondition \/ AtPauseStep(c)
      /\ base \in Status /\ SameConditions(c.status, base) /\ base.stepsKnown = TRUE
      /\ ~base.pauseCondition
  <2>1. /\ old \in Status /\ SameConditions(c.status, old) /\ old.stepsKnown = TRUE
        /\ old.pauseCondition => c.status.pauseCondition \/ AtPauseStep(c)
    BY BaseEffect, Zenon
  <2>2. /\ base \in Status /\ SameConditions(c.status, base) /\ base.stepsKnown = TRUE
        /\ base.pauseCondition => ~TRUE
    BY BaseEffect, Zenon
  <2> QED
    BY <2>1, <2>2
<1>4. CASE TemplateOrStepsChanged(c)
  <2>1. PICK i \in {0, Len(Plan)} : new = [base EXCEPT !.stepIndex = i]
    BY <1>4 DEF NewStatuses
  <2> HIDE DEF base
  <2>2. i \in 0..Len(Plan) /\ i # NoIndex
    BY <1>1 DEF NoIndex
  <2>3. new \in Status
    BY <1>3, <2>1, <2>2 DEF Status
  <2>4. /\ new.progressing = base.progressing /\ new.age = base.age /\ new.healthy = base.healthy
        /\ new.stepIndex = i /\ new.stepsKnown = base.stepsKnown
        /\ new.pauseCondition = base.pauseCondition
    BY <1>3, <2>1 DEF Status
  <2> QED
    BY <1>3, <2>2, <2>3, <2>4 DEF SameConditions
<1>5. CASE ~TemplateOrStepsChanged(c) /\ c.pods[c.template].avail >= Replicas
  <2>1. new = [base EXCEPT !.stepIndex = Len(Plan), !.stableRS = c.template]
    BY <1>5 DEF NewStatuses
  <2> HIDE DEF base
  <2>2. Len(Plan) \in 0..Len(Plan) /\ Len(Plan) # NoIndex
    BY <1>1 DEF NoIndex
  <2>3. new \in Status
    BY <1>1, <1>3, <2>1, <2>2 DEF Status
  <2>4. /\ new.progressing = base.progressing /\ new.age = base.age /\ new.healthy = base.healthy
        /\ new.stepIndex = Len(Plan) /\ new.stepsKnown = base.stepsKnown
        /\ new.pauseCondition = base.pauseCondition
    BY <1>3, <2>1 DEF Status
  <2> QED
    BY <1>3, <2>2, <2>3, <2>4 DEF SameConditions
<1>6. CASE ~TemplateOrStepsChanged(c) /\ ~(c.pods[c.template].avail >= Replicas)
  <2> DEFINE resumed == c.status.controllerPause /\ ~c.status.pauseCondition
             next(done) == [BaseStatus(c, done) EXCEPT
                              !.stepIndex = CurrentStepIndex(c) + (IF done THEN 1 ELSE 0)]
  <2>1. PICK done \in BOOLEAN : new = next(done) /\ (done => MayComplete(c))
    <3>1. new \in {next(done) : done \in IF ~MayComplete(c) THEN {FALSE}
                                         ELSE IF AtPauseStep(c) THEN {resumed} ELSE BOOLEAN}
      BY <1>6 DEF NewStatuses
    <3>2. resumed \in BOOLEAN
      OBVIOUS
    <3> HIDE DEF next, resumed
    <3> QED
      BY <3>1, <3>2
  <2>2. done => CurrentStepIndex(c) < Len(Plan)
    BY <1>1, <2>1 DEF MayComplete, StepsRemain
  <2>3. CASE done
    <3> DEFINE i == CurrentStepIndex(c) + 1
    <3>1. new = [base EXCEPT !.stepIndex = i]
      BY <2>1, <2>3
    <3> HIDE DEF base
    <3>2. i \in 0..Len(Plan) /\ base.stableRS \in Templates \cup {Nil}
      BY <1>1, <1>2, <1>3, <2>2, <2>3 DEF Status
    <3> HIDE DEF i
    <3> QED
      BY <1>3, <3>1, <3>2, PlanType DEF Status, SameConditions, NoIndex
  <2>4. CASE ~done
    <3>1. new = [old EXCEPT !.stepIndex = CurrentStepIndex(c) + 0]
      BY <2>1, <2>4
    <3> HIDE DEF old
    <3>2. old.stableRS \in Templates \cup {Nil}
      BY <1>3 DEF Status
    <3> QED
      BY <1>2, <1>3, <3>1, <3>2, PlanType DEF Status, SameConditions, NoIndex
  <2> QED
    BY <2>3, <2>4
<1> QED
  BY <1>4, <1>5, <1>6

LEMMA HealthyType == ASSUME NEW c, NEW new PROVE RolloutHealthy(c, new) \in BOOLEAN
BY DEF RolloutHealthy

\* The conditions of the new status, case by case.
LEMMA CalculatedEffect ==
    ASSUME NEW c \in Contexts, NEW new \in Status
    PROVE  LET st == calculateRolloutConditions(c, new)
           IN  /\ st \in Status
               /\ st.pauseCondition = new.pauseCondition /\ st.stepIndex = new.stepIndex
               /\ st.stepsKnown = new.stepsKnown
               /\ RolloutHealthy(c, new) =>
                     /\ st.progressing = Cond("True", "NewReplicaSetAvailable")
                     /\ st.age = 0 \/ new.progressing = Cond("True", "NewReplicaSetAvailable")
                     /\ st.healthy = "True" \/ IsPaused(c)
               /\ ~RolloutHealthy(c, new) =>
                     \/ st.age = 0 /\ st.progressing.reason # "TimedOut"
                     \/ /\ ~RolloutProgressing(c, new) /\ c.status.healthy # "True"
                        /\ st.progressing # new.progressing => TimesOut(c, new)
                        /\ st.age \in {0, new.age}
<1> DEFINE healthy == ~IsPaused(c) /\ RolloutHealthy(c, new)
           h       == IF healthy THEN "True" ELSE IF c.status.healthy # Nil THEN "False" ELSE Nil
           marked  == [new EXCEPT !.healthy = h]
           became  == c.status.healthy = "True" /\ ~healthy
           st      == calculateRolloutConditions(c, new)
           available == Cond("True", "NewReplicaSetAvailable")
           updated   == Cond("True", IF marked.stableRS = marked.podHash /\ became
                                     THEN "ReplicaSetNotAvailable" ELSE "ReplicaSetUpdated")
           timedOut  == Cond("False", "TimedOut")
<1>1. /\ marked \in Status /\ marked.healthy = h /\ marked.pauseCondition = new.pauseCondition
      /\ marked.stepIndex = new.stepIndex /\ marked.stepsKnown = new.stepsKnown
      /\ marked.progressing = new.progressing /\ marked.age = new.age
      /\ marked.updated = new.updated /\ marked.available = new.available
      /\ marked.replicas = new.replicas /\ marked.stableRS = new.stableRS
      /\ marked.podHash = new.podHash
  BY DEF Status
<1>2. /\ RolloutHealthy(c, marked) <=> RolloutHealthy(c, new)
      /\ RolloutProgressing(c, marked) <=> RolloutProgressing(c, new)
      /\ TimesOut(c, marked) <=> TimesOut(c, new)
  BY <1>1 DEF RolloutHealthy, RolloutProgressing, TimesOut, RolloutTimedOut, HasReason
<1>3. /\ available \in Progressing /\ updated \in Progressing /\ timedOut \in Progressing
      /\ updated.reason # "TimedOut"
  BY CondType DEF Reasons
<1>4. st = IF RolloutHealthy(c, marked) THEN SetProgressing(marked, available)
           ELSE IF RolloutProgressing(c, marked) \/ became
           THEN RefreshProgressing(marked, updated)
           ELSE IF TimesOut(c, marked) THEN SetProgressing(marked, timedOut)
           ELSE marked
  BY DEF calculateRolloutConditions, EstimateProgress
<1> HIDE DEF marked, available, updated, timedOut, st, h
<1>5. CASE RolloutHealthy(c, new)
  <2>1. st = SetProgressing(marked, available)
    BY <1>2, <1>4, <1>5
  <2>2. /\ st \in Status /\ Kept(marked, st) /\ st.progressing = available
        /\ st.age = 0 \/ marked.progressing = available
    BY <1>1, <1>3, <2>1, SetEffect
  <2> QED
    BY <1>1, <1>5, <2>2 DEF Kept, h, st, available
<1>6. CASE ~RolloutHealthy(c, new) /\ (RolloutProgressing(c, new) \/ became)
  <2>1. st = RefreshProgressing(marked, updated)
    BY <1>2, <1>4, <1>6
  <2>2. /\ st \in Status /\ Kept(marked, st) /\ st.progressing = updated /\ st.age = 0
    BY <1>1, <1>3, <2>1, ReplaceEffect DEF RefreshProgressing
  <2> QED
    BY <1>1, <1>3, <1>6, <2>2 DEF Kept, st
<1>7. CASE ~RolloutHealthy(c, new) /\ ~RolloutProgressing(c, new) /\ ~became
  <2>1. st = IF TimesOut(c, new) THEN SetProgressing(marked, timedOut) ELSE marked
    BY <1>2, <1>4, <1>7
  <2>2. /\ st \in Status /\ Kept(marked, st) /\ st.age \in {0, new.age}
        /\ st.progressing # new.progressing => TimesOut(c, new)
    BY <1>1, <1>3, <2>1, SetEffect DEF Kept
  <2>3. c.status.healthy # "True"
    BY <1>7
  <2> QED
    BY <1>1, <1>7, <2>2, <2>3 DEF Kept, st
<1> QED
  BY <1>5, <1>6, <1>7

-----------------------------------------------------------------------------
(***************************************************************************)
(* Types                                                                   *)
(***************************************************************************)
LEMMA FirstStatusTypes ==
    /\ EmptyStatus \in Status
    /\ \A t \in Templates : /\ HealthyStatus(t) \in Status
                          /\ HealthyStatus(t).age = Deadline + 1
                          /\ HealthyStatus(t).stepIndex = Len(Plan)
                          /\ HealthyStatus(t).pauseCondition = FALSE
<1>1. EmptyStatus \in Status
  BY ZeroIsATime DEF EmptyStatus, Status
<1>2. ASSUME NEW t \in Templates
      PROVE  /\ HealthyStatus(t) \in Status /\ HealthyStatus(t).age = Deadline + 1
             /\ HealthyStatus(t).stepIndex = Len(Plan)
             /\ HealthyStatus(t).pauseCondition = FALSE
  <2> DEFINE cond == Cond("True", "NewReplicaSetAvailable")
  <2>1. cond \in Progressing
    BY CondType DEF Reasons
  <2>2. Len(Plan) \in 0..Len(Plan) /\ Replicas \in Nat
    BY PlanType, ConditionsAssumption
  <2> DEFINE seen == [EmptyStatus EXCEPT
                        !.podHash = t, !.stableRS = t, !.stepsKnown = TRUE, !.stepIndex = Len(Plan),
                        !.replicas = Replicas, !.updated = Replicas, !.available = Replicas]
  <2>3. HealthyStatus(t) = [seen EXCEPT
            !.observed = TRUE, !.phase = "Healthy", !.age = Deadline + 1,
            !.progressing = cond, !.healthy = "True"]
    BY DEF HealthyStatus
  <2>4. /\ seen \in Status /\ seen.stepIndex = Len(Plan) /\ seen.stepsKnown = TRUE
        /\ seen.pauseCondition = FALSE
    <3>1. seen.stepIndex = Len(Plan) /\ seen.stepsKnown = TRUE /\ seen.pauseCondition = FALSE
      BY <1>1 DEF EmptyStatus
    <3>2. seen \in Status
      BY <1>1, <2>2 DEF Status
    <3> QED
      BY <3>1, <3>2
  <2> DEFINE told == [seen EXCEPT !.observed = TRUE, !.phase = "Healthy", !.age = Deadline + 1]
  <2>5. HealthyStatus(t) = [told EXCEPT !.progressing = cond, !.healthy = "True"]
    BY <2>3
  <2> HIDE DEF cond, seen
  <2>6. /\ told \in Status /\ told.stepIndex = Len(Plan) /\ told.pauseCondition = FALSE
        /\ told.age = Deadline + 1 /\ told.stepsKnown = TRUE
    BY <2>4, ZeroIsATime DEF Status, Phases
  <2> HIDE DEF told
  <2> QED
    BY <2>1, <2>5, <2>6 DEF Status
<1> QED
  BY <1>1, <1>2

LEMMA InitConditionsTypeOK == Init => ConditionsTypeOK
<1> SUFFICES ASSUME Init PROVE ConditionsTypeOK
  OBVIOUS
<1>1. status \in Status /\ exists \subseteq Templates /\ template \in Templates
  BY FirstStatusTypes DEF Init
<1>2. pods \in Sizes
  BY ConditionsAssumption DEF Init, Sizes, Running
<1> QED
  BY <1>1, <1>2, ZeroIsATime DEF Init, ConditionsTypeOK

\* What steps of the pass write.
LEMMA RunningPass == ASSUME ConditionsTypeOK, pc # "idle"
                     PROVE  ctx \in Contexts /\ ctx.status \in Status /\ ctx.exists \subseteq exists
BY ContextFields DEF ConditionsTypeOK

LEMMA WithStatus ==
    ASSUME NEW c \in Contexts, NEW st \in Status
    PROVE  LET x == [c EXCEPT !.status = st]
           IN  x \in Contexts /\ x.status = st /\ x.paused = c.paused /\ x.exists = c.exists
BY DEF Contexts

LEMMA AnnouncedEffect ==
    ASSUME ConditionsTypeOK, AnnounceReplicaSet
    PROVE  /\ ~stale /\ status' \in Status /\ Kept(ctx.status, status')
           /\ status'.phase = ctx.status.phase
           /\ status'.progressing = Cond("True", "NewReplicaSetCreated")
           /\ status'.age \in {0, ctx.status.age}
           /\ ctx' \in Contexts /\ ctx'.status = status' /\ ctx'.exists = ctx.exists
<1> DEFINE cond == Cond("True", "NewReplicaSetCreated")
           st   == SetProgressing(ctx.status, cond)
<1>1. ctx \in Contexts /\ ctx.status \in Status /\ cond \in Progressing
  BY RunningPass, CondType DEF AnnounceReplicaSet, Reasons
<1>2. ~stale /\ status' = st /\ ctx' = [ctx EXCEPT !.status = st]
  BY DEF AnnounceReplicaSet, Write
<1>3. /\ st \in Status /\ Kept(ctx.status, st) /\ st.progressing = cond
      /\ st.age \in {0, ctx.status.age} /\ st.phase = ctx.status.phase
  BY <1>1, SetEffect
<1> HIDE DEF st, cond
<1> QED
  BY <1>1, <1>2, <1>3, WithStatus DEF cond

LEMMA FailedEffect ==
    ASSUME ConditionsTypeOK, CreationFails, ~stale
    PROVE  /\ status' \in Status /\ Kept(ctx.status, status')
           /\ status'.pauseCondition => status'.phase = "Paused"
           /\ status'.progressing.reason # "TimedOut"
           /\ status'.age \in {0, ctx.status.age}
<1> DEFINE cond == Cond("False", "FailedRSCreate")
           failed == SetProgressing(ctx.status, cond)
<1>1. ctx.status \in Status /\ cond \in Progressing /\ cond.reason # "TimedOut"
  BY RunningPass, CondType DEF CreationFails, Reasons
<1>2. status' = Observed(ctx, failed)
  BY DEF CreationFails
<1>3. /\ failed \in Status /\ Kept(ctx.status, failed) /\ failed.progressing = cond
      /\ failed.age \in {0, ctx.status.age}
  BY <1>1, SetEffect
<1> HIDE DEF failed, cond
<1>4. ~HasReason(failed, "TimedOut")
  BY <1>1, <1>3 DEF HasReason
<1> QED
  BY <1>1, <1>2, <1>3, <1>4, ObservedEffect DEF Kept

LEMMA CheckedEffect ==
    ASSUME ConditionsTypeOK, checkPausedConditions
    PROVE  /\ ctx' \in Contexts /\ ctx'.exists = ctx.exists
           /\ \/ /\ UNCHANGED <<status, ctx, stale>>
                 /\ IsPaused(ctx) => ctx.status.progressing # Cond("True", "NewReplicaSetAvailable")
              \/ /\ ~stale /\ stale' = TRUE /\ status' \in Status /\ Kept(ctx.status, status')
                 /\ status'.age \in {0, ctx.status.age}
                 /\ HasReason(status', "TimedOut") => HasReason(ctx.status, "TimedOut")
                 /\ status'.pauseCondition /\ ~HasReason(status', "TimedOut")
                       => status'.phase = "Paused"
<1> DEFINE m == MarkPaused(ctx)
           marked == Observed(ctx, m)
<1>1. ctx \in Contexts /\ ctx.status \in Status
  BY RunningPass DEF checkPausedConditions
<1>2. /\ m \in Status /\ Kept(ctx.status, m) /\ m.age \in {0, ctx.status.age}
      /\ HasReason(m, "TimedOut") => HasReason(ctx.status, "TimedOut")
      /\ m = ctx.status /\ IsPaused(ctx)
            => ctx.status.progressing # Cond("True", "NewReplicaSetAvailable")
  BY <1>1, MarkedEffect
<1>3. IF m = ctx.status THEN UNCHANGED <<status, ctx, stale>>
      ELSE Write(marked, FALSE) /\ ctx' = [ctx EXCEPT !.status = marked]
  BY DEF checkPausedConditions
<1> HIDE DEF m
<1>4. CASE m = ctx.status
  BY <1>1, <1>2, <1>3, <1>4
<1>5. CASE m # ctx.status
  <2>1. ~stale /\ status' = marked /\ stale' = TRUE /\ ctx' = [ctx EXCEPT !.status = marked]
    BY <1>3, <1>5 DEF Write
  <2>2. /\ marked \in Status /\ Kept(m, marked)
        /\ marked.progressing = m.progressing /\ marked.age = m.age
        /\ m.pauseCondition /\ ~HasReason(m, "TimedOut") => marked.phase = "Paused"
    BY <1>2, ObservedEffect
  <2> HIDE DEF marked
  <2>3. HasReason(marked, "TimedOut") <=> HasReason(m, "TimedOut")
    BY <2>2 DEF HasReason
  <2>4. ctx' \in Contexts /\ ctx'.exists = ctx.exists
    BY <1>1, <2>1, <2>2, WithStatus
  <2> QED
    BY <1>2, <2>1, <2>2, <2>3, <2>4 DEF Kept
<1> QED
  BY <1>4, <1>5

LEMMA PersistedEffect ==
    ASSUME ConditionsTypeOK, persistRolloutStatus
    PROVE  \E new \in NewStatuses(ctx) :
              LET st == calculateRolloutConditions(ctx, new)
              IN  /\ ctx \in Contexts /\ ~stale /\ new \in Status /\ st \in Status
                  /\ status' \in Status /\ Kept(st, status') /\ status'.progressing = st.progressing
                  /\ status'.age = st.age
                  /\ st.pauseCondition /\ ~HasReason(st, "TimedOut") => status'.phase = "Paused"
                  /\ quiet' = IF RolloutProgressing(ctx, new) THEN 0 ELSE quiet
<1>1. ctx \in Contexts /\ ~stale
  BY RunningPass DEF persistRolloutStatus
<1>2. PICK new \in NewStatuses(ctx) :
        LET st == calculateRolloutConditions(ctx, new)
        IN  /\ status' = [st EXCEPT !.phase = CalculateRolloutPhase(ctx.paused, st)]
            /\ quiet' = IF RolloutProgressing(ctx, new) THEN 0 ELSE quiet
  BY DEF persistRolloutStatus
<1> DEFINE st == calculateRolloutConditions(ctx, new)
<1>3. new \in Status /\ st \in Status
  BY <1>1, NewStatusEffect, CalculatedEffect
<1>4. /\ CalculateRolloutPhase(ctx.paused, st) \in Phases
      /\ st.pauseCondition /\ ~HasReason(st, "TimedOut")
            => CalculateRolloutPhase(ctx.paused, st) = "Paused"
  BY PhaseType
<1>5. /\ status' \in Status /\ Kept(st, status') /\ status'.progressing = st.progressing
      /\ status'.age = st.age /\ status'.phase = CalculateRolloutPhase(ctx.paused, st)
  <2> DEFINE phase == CalculateRolloutPhase(ctx.paused, st)
  <2>1. status' = [st EXCEPT !.phase = phase]
    BY <1>2
  <2> HIDE DEF st, phase
  <2>2. phase \in Phases
    BY <1>4 DEF phase
  <2>3. status' \in Status /\ status'.phase = phase
    BY <1>3, <2>1, <2>2 DEF Status
  <2>4. Kept(st, status') /\ status'.progressing = st.progressing /\ status'.age = st.age
    BY <1>3, <2>1 DEF Status, Kept
  <2> QED
    BY <2>3, <2>4 DEF phase
<1> QED
  BY <1>1, <1>2, <1>3, <1>4, <1>5

\* The clock.
LEMMA OlderEffect ==
    ASSUME NEW st \in Status
    PROVE  LET new == [st EXCEPT !.age = Later(@)]
           IN  /\ new \in Status /\ Kept(st, new) /\ new.age = Later(st.age)
               /\ new.progressing = st.progressing /\ new.phase = st.phase
<1>1. st.age \in Times
  BY DEF Status
<1>2. Later(st.age) \in Times
  BY <1>1, ZeroIsATime
<1> DEFINE later == Later(st.age)
           new   == [st EXCEPT !.age = Later(@)]
<1>3. new = [st EXCEPT !.age = later]
  BY DEF Status
<1> HIDE DEF later, new
<1>4. later \in Times
  BY <1>2 DEF later
<1>5. new \in Status /\ new.age = later
  BY <1>3, <1>4 DEF Status
<1>6. Kept(st, new) /\ new.progressing = st.progressing /\ new.phase = st.phase
  BY <1>3 DEF Status, Kept
<1> QED
  BY <1>5, <1>6 DEF later, new

LEMMA TickEffect ==
    ASSUME ConditionsTypeOK, Tick
    PROVE  /\ status' \in Status /\ Kept(status, status') /\ status'.age = Later(status.age)
           /\ status'.progressing = status.progressing /\ status'.phase = status.phase
           /\ pc # "idle" =>
                 /\ ctx' \in Contexts /\ ctx'.exists = ctx.exists
                 /\ ctx'.paused = ctx.paused
                 /\ ctx'.status.progressing = ctx.status.progressing
                 /\ ctx'.status.pauseCondition = ctx.status.pauseCondition
                 /\ ctx.status = status => ctx'.status = status'
           /\ pc = "idle" => ctx' = Nil
<1> DEFINE older(st) == [st EXCEPT !.age = Later(@)]
<1>1. status \in Status /\ status' = older(status)
  BY DEF ConditionsTypeOK, Tick
<1>2. /\ status' \in Status /\ Kept(status, status') /\ status'.age = Later(status.age)
      /\ status'.progressing = status.progressing /\ status'.phase = status.phase
  BY <1>1, OlderEffect
<1>3. CASE pc # "idle"
  <2>1. ctx \in Contexts /\ ctx.status \in Status
    BY <1>3, RunningPass
  <2>2. ctx' = [ctx EXCEPT !.status = older(ctx.status)]
    BY <1>3, <2>1 DEF Tick, Contexts
  <2>3. older(ctx.status) \in Status /\ Kept(ctx.status, older(ctx.status))
        /\ older(ctx.status).progressing = ctx.status.progressing
    BY <2>1, OlderEffect
  <2>4. ctx.status = status => older(ctx.status) = status'
    BY <1>1
  <2> HIDE DEF older
  <2> QED
    BY <1>2, <1>3, <2>1, <2>2, <2>3, <2>4, WithStatus DEF Kept
<1>4. CASE pc = "idle"
  BY <1>2, <1>4 DEF Tick
<1> QED
  BY <1>3, <1>4

LEMMA UserEffect ==
    ASSUME ConditionsTypeOK, EditSpec \/ Resume
    PROVE  /\ status' \in Status /\ status'.progressing = status.progressing
           /\ status'.age = status.age /\ status'.healthy = status.healthy
           /\ status'.stepsKnown = status.stepsKnown /\ status'.stepIndex = status.stepIndex
           /\ status'.phase = status.phase
           /\ status'.pauseCondition => status.pauseCondition
           /\ stale' = (pc # "idle")
           /\ UNCHANGED <<world, pc, ctx, clocks>>
           /\ template' \in Templates /\ paused' \in BOOLEAN /\ edits' \in Nat
           /\ UNCHANGED <<podEvents, failures>>
<1>1. status \in Status /\ template \in Templates /\ paused \in BOOLEAN /\ edits \in Nat
  BY DEF ConditionsTypeOK
<1>2. stale' = (pc # "idle")
  <2>1. TouchRollout
    BY DEF EditSpec, Resume
  <2> QED
    BY <2>1, Zenon DEF TouchRollout
<1>3. CASE EditSpec
  <2>1. status' = [status EXCEPT !.observed = FALSE]
    BY <1>3 DEF EditSpec
  <2>2. /\ UNCHANGED <<world, pc, ctx, clocks, podEvents, failures>>
        /\ template' \in Templates /\ paused' \in BOOLEAN /\ edits' \in Nat
    BY <1>1, <1>3 DEF EditSpec
  <2> QED
    BY <1>1, <1>2, <2>1, <2>2 DEF Status
<1>4. CASE Resume
  <2>1. status' = [status EXCEPT !.pauseCondition = FALSE]
    BY <1>4 DEF Resume
  <2>2. /\ UNCHANGED <<world, pc, ctx, clocks, podEvents, failures>>
        /\ template' \in Templates /\ paused' \in BOOLEAN /\ edits' \in Nat
    BY <1>1, <1>4 DEF Resume, spec
  <2> QED
    BY <1>1, <1>2, <2>1, <2>2 DEF Status
<1> QED
  BY <1>3, <1>4

LEMMA NextConditionsTypeOK == ConditionsTypeOK /\ [Next]_vars => ConditionsTypeOK'
<1> SUFFICES ASSUME ConditionsTypeOK, [Next]_vars PROVE ConditionsTypeOK'
  OBVIOUS
<1> USE DEF spec, world, pass, clocks, bounds
<1>1. CASE GetRollout
  <2>1. ctx' \in Contexts /\ ctx'.exists = exists
    BY <1>1 DEF GetRollout, ConditionsTypeOK, Contexts
  <2> QED
    BY <1>1, <2>1 DEF GetRollout, ConditionsTypeOK
<1>2. CASE checkPausedConditions
  <2>1. ctx' \in Contexts /\ ctx'.exists = ctx.exists
    BY <1>2, CheckedEffect
  <2>2. status' \in Status /\ stale' \in BOOLEAN
    BY <1>2, CheckedEffect DEF ConditionsTypeOK
  <2>3. pc' \in {"persist", "create"} /\ pc = "checkPaused"
    BY <1>2 DEF checkPausedConditions
  <2> QED
    BY <1>2, <2>1, <2>2, <2>3 DEF checkPausedConditions, ConditionsTypeOK
<1>3. CASE createDesiredReplicaSet
  BY <1>3, RunningPass, ContextFields DEF createDesiredReplicaSet, ConditionsTypeOK
<1>4. CASE AnnounceReplicaSet
  <2>1. status' \in Status /\ ctx' \in Contexts /\ ctx'.exists = ctx.exists
    BY <1>4, AnnouncedEffect
  <2>2. stale' = FALSE /\ pc = "announce" /\ pc' = "persist"
    BY <1>4 DEF AnnounceReplicaSet, Write
  <2> QED
    BY <1>4, <2>1, <2>2 DEF AnnounceReplicaSet, ConditionsTypeOK
<1>5. CASE CreationFails
  <2>1. status' \in Status
    BY <1>5, FailedEffect DEF CreationFails, ConditionsTypeOK
  <2>2. /\ pc' = "idle" /\ ctx' = Nil /\ stale' = FALSE /\ failures' = failures + 1
        /\ UNCHANGED <<template, paused, pods, exists, quiet, running, edits, podEvents>>
    BY <1>5 DEF CreationFails, EndPass
  <2>3. failures' \in Nat
    BY <2>2 DEF ConditionsTypeOK
  <2> QED
    BY <2>1, <2>2, <2>3 DEF ConditionsTypeOK
<1>6. CASE persistRolloutStatus
  <2>1. status' \in Status /\ quiet' \in Times
    BY <1>6, PersistedEffect, ZeroIsATime DEF ConditionsTypeOK
  <2> QED
    BY <1>6, <2>1 DEF persistRolloutStatus, EndPass, ConditionsTypeOK
<1>7. CASE Conflict
  BY <1>7 DEF Conflict, EndPass, ConditionsTypeOK
<1>8. CASE EditSpec \/ Resume
  BY <1>8, UserEffect DEF ConditionsTypeOK
<1>9. ASSUME NEW t \in Templates, PodChanges(t) PROVE ConditionsTypeOK'
  <2>1. PICK p \in {Running(0)} \cup [actual : 0..Replicas, avail : 0..Replicas] :
          pods' = [pods EXCEPT ![t] = p]
    BY <1>9 DEF PodChanges
  <2>2. p \in [actual : 0..Replicas, avail : 0..Replicas]
    BY ConditionsAssumption DEF Running
  <2>3. pods' \in Sizes
    BY <2>1, <2>2 DEF ConditionsTypeOK, Sizes
  <2> QED
    BY <1>9, <2>3 DEF PodChanges, ConditionsTypeOK
<1>10. CASE Tick
  <2>1. quiet' \in Times /\ running' \in Times
    BY <1>10, ZeroIsATime DEF Tick, ConditionsTypeOK
  <2>2. UNCHANGED <<spec, world, pc, stale, bounds>>
    BY <1>10 DEF Tick
  <2>3. status' \in Status
    BY <1>10, TickEffect
  <2>4. pc = "idle" => ctx' = Nil
    BY <1>10, TickEffect
  <2>5. pc # "idle" => ctx' \in Contexts /\ ctx'.exists = ctx.exists
    BY <1>10, TickEffect
  <2> QED
    BY <2>1, <2>2, <2>3, <2>4, <2>5 DEF ConditionsTypeOK
<1>11. CASE UNCHANGED vars
  BY <1>11 DEF vars, ConditionsTypeOK
<1> QED
  BY <1>1, <1>2, <1>3, <1>4, <1>5, <1>6, <1>7, <1>8, <1>9, <1>10, <1>11 DEF Next, Pass

-----------------------------------------------------------------------------
(***************************************************************************)
(* The invariant                                                           *)
(***************************************************************************)
\* Parts of a status that matter to the pause invariants.
PausedRightly(st) ==
    /\ st.stepsKnown => st.stepIndex # NoIndex
    /\ st.pauseCondition => WaitsAtPause(st)
    /\ WaitsAtPause(st) => ~HasReason(st, "TimedOut")
    /\ st.pauseCondition => st.phase = "Paused"

LEMMA PausedRightlyIsThat ==
    PausedRightly(status) <=> KnownSteps /\ PausesAtPauseSteps /\ PauseIsNotDegraded
BY DEF PausedRightly, KnownSteps, PausesAtPauseSteps, PauseIsNotDegraded

\* A write that keeps step and pause, and does not report the deadline as missed.
LEMMA StaysPausedRightly ==
    ASSUME NEW st, NEW new, PausedRightly(st), Kept(st, new),
           HasReason(new, "TimedOut") => HasReason(st, "TimedOut"),
           new.pauseCondition /\ ~HasReason(new, "TimedOut") => new.phase = "Paused"
    PROVE  PausedRightly(new)
<1>1. WaitsAtPause(new) <=> WaitsAtPause(st)
  BY DEF Kept, WaitsAtPause
<1> QED
  BY <1>1 DEF PausedRightly, Kept

\* Progressing is as young as the progress.
Young(st, q) == st.age <= q \/ st.healthy = "True"

LEMMA StaysYoung ==
    ASSUME NEW st \in Status, NEW new, NEW q \in Times, Young(st, q),
           new.healthy = st.healthy, new.age \in {0, st.age}
    PROVE  Young(new, q)
BY ConditionsAssumption DEF Young, Times

LEMMA AtPauseStepIsWaiting ==
    ASSUME NEW c \in Contexts
    PROVE  /\ CurrentStepIndex(c) \in 0..Len(Plan) /\ CurrentStepIndex(c) # NoIndex
           /\ \A st : st.stepIndex = CurrentStepIndex(c) =>
                 (WaitsAtPause(st) <=> AtPauseStep(c))
           /\ c.status.stepIndex # NoIndex => CurrentStepIndex(c) = c.status.stepIndex
<1>1. c.spec.steps = Plan /\ c.status \in Status
  BY ContextFields
<1>2. /\ CurrentStepIndex(c) \in 0..Len(Plan) /\ CurrentStepIndex(c) # NoIndex
      /\ c.status.stepIndex # NoIndex => CurrentStepIndex(c) = c.status.stepIndex
  BY <1>1, PlanType DEF CurrentStepIndex, Status, NoIndex
<1> QED
  BY <1>1, <1>2 DEF WaitsAtPause, AtPauseStep, StepsRemain, GetCurrentCanaryStep

\* The last write of a pass: a deadline is not missed at a pause step, and not
\* before the time since the last progress is over.
LEMMA PersistedRightly ==
    ASSUME ConditionsInv, persistRolloutStatus
    PROVE  /\ PausedRightly(status') /\ Young(status', quiet')
           /\ HasReason(status', "TimedOut") /\ ~HasReason(status, "TimedOut")
                 => quiet > Deadline
<1>1. /\ ConditionsTypeOK /\ ctx.status = status /\ PausedRightly(status)
      /\ Young(status, quiet) /\ quiet \in Times
      /\ IsPaused(ctx) => status.progressing # Cond("True", "NewReplicaSetAvailable")
  <2>1. Fresh /\ PausedIsMarked /\ pc = "persist" /\ ~stale
    BY DEF ConditionsInv, persistRolloutStatus
  <2>2. ctx.status = status
    BY <2>1 DEF Fresh
  <2>3. IsPaused(ctx) => status.progressing # Cond("True", "NewReplicaSetAvailable")
    BY <2>1, <2>2 DEF PausedIsMarked
  <2>4. PausedRightly(status)
    BY PausedRightlyIsThat DEF ConditionsInv
  <2>5. ConditionsTypeOK /\ quiet \in Times /\ Young(status, quiet)
    BY DEF ConditionsInv, ConditionsTypeOK, YoungSinceProgress, Young
  <2> QED
    BY <2>2, <2>3, <2>4, <2>5
<1>2. PICK new \in NewStatuses(ctx) :
        LET st == calculateRolloutConditions(ctx, new)
        IN  /\ ctx \in Contexts /\ ~stale /\ new \in Status /\ st \in Status
            /\ status' \in Status /\ Kept(st, status') /\ status'.progressing = st.progressing
            /\ status'.age = st.age
            /\ st.pauseCondition /\ ~HasReason(st, "TimedOut") => status'.phase = "Paused"
            /\ quiet' = IF RolloutProgressing(ctx, new) THEN 0 ELSE quiet
  BY <1>1, PersistedEffect
<1> DEFINE st == calculateRolloutConditions(ctx, new)
           available == Cond("True", "NewReplicaSetAvailable")
<1>3. /\ SameConditions(status, new) /\ new.stepsKnown = TRUE /\ new.stepIndex # NoIndex
      /\ new.pauseCondition => /\ new.stepIndex = CurrentStepIndex(ctx)
                               /\ status.pauseCondition \/ AtPauseStep(ctx)
  BY <1>1, <1>2, NewStatusEffect
<1>4. /\ st.pauseCondition = new.pauseCondition /\ st.stepIndex = new.stepIndex
      /\ st.stepsKnown = new.stepsKnown
      /\ RolloutHealthy(ctx, new) =>
            /\ st.progressing = available
            /\ st.age = 0 \/ new.progressing = available
            /\ st.healthy = "True" \/ IsPaused(ctx)
      /\ ~RolloutHealthy(ctx, new) =>
            \/ st.age = 0 /\ st.progressing.reason # "TimedOut"
            \/ /\ ~RolloutProgressing(ctx, new) /\ status.healthy # "True"
               /\ st.progressing # new.progressing => TimesOut(ctx, new)
               /\ st.age \in {0, new.age}
  BY <1>1, <1>2, CalculatedEffect
<1>5. available.reason # "TimedOut"
  BY DEF Cond
<1> HIDE DEF st, available
<1>6. /\ status'.progressing = st.progressing /\ status'.age = st.age
      /\ status'.healthy = st.healthy
      /\ status'.pauseCondition = new.pauseCondition /\ status'.stepIndex = new.stepIndex
      /\ status'.stepsKnown = TRUE
      /\ HasReason(status', "TimedOut") <=> HasReason(st, "TimedOut")
      /\ new.pauseCondition /\ ~HasReason(st, "TimedOut") => status'.phase = "Paused"
      /\ quiet' = IF RolloutProgressing(ctx, new) THEN 0 ELSE quiet
  BY <1>2, <1>3, <1>4 DEF Kept, HasReason, st
\* When the deadline is missed.
<1>7. ASSUME HasReason(st, "TimedOut")
      PROVE  /\ ~RolloutProgressing(ctx, new) /\ status.healthy # "True"
             /\ st.progressing # status.progressing => TimesOut(ctx, new)
  <2>1. ~RolloutHealthy(ctx, new)
    BY <1>4, <1>5, <1>7 DEF HasReason
  <2>2. st.progressing.reason = "TimedOut"
    BY <1>7 DEF HasReason
  <2>3. new.progressing = status.progressing
    BY <1>3 DEF SameConditions
  <2> QED
    BY <1>4, <2>1, <2>2, <2>3
<1>8. ASSUME ~RolloutProgressing(ctx, new)
      PROVE  status.stepIndex # NoIndex /\ new.stepIndex = status.stepIndex
  <2>1. ctx.status.stepsKnown /\ (ctx.status.stepIndex = NoIndex \/ new.stepIndex = ctx.status.stepIndex)
    BY <1>8 DEF RolloutProgressing
  <2> QED
    BY <1>1, <2>1 DEF PausedRightly
<1>9. ASSUME HasReason(st, "TimedOut") PROVE ~WaitsAtPause(status')
  <2>1. status.stepIndex # NoIndex /\ new.stepIndex = status.stepIndex
    BY <1>7, <1>8, <1>9
  <2>2. /\ WaitsAtPause(status') <=> AtPauseStep(ctx)
        /\ WaitsAtPause(status) <=> AtPauseStep(ctx)
    BY <1>1, <1>2, <1>6, <2>1, AtPauseStepIsWaiting
  <2>3. CASE st.progressing = status.progressing
    <3>1. HasReason(status, "TimedOut")
      BY <1>9, <2>3 DEF HasReason
    <3> QED
      BY <1>1, <2>2, <3>1 DEF PausedRightly
  <2>4. CASE st.progressing # status.progressing
    BY <1>7, <1>9, <2>2, <2>4 DEF TimesOut, isIndefiniteStep
  <2> QED
    BY <2>3, <2>4
<1>10. ASSUME new.pauseCondition PROVE WaitsAtPause(status')
  <2>1. WaitsAtPause(status') <=> AtPauseStep(ctx)
    BY <1>2, <1>3, <1>6, <1>10, AtPauseStepIsWaiting
  <2>2. CASE status.pauseCondition
    <3>1. WaitsAtPause(status) /\ status.stepIndex # NoIndex
      BY <1>1, <2>2 DEF PausedRightly, WaitsAtPause
    <3>2. WaitsAtPause(status) <=> AtPauseStep(ctx)
      BY <1>1, <1>2, <3>1, AtPauseStepIsWaiting
    <3> QED
      BY <2>1, <3>1, <3>2
  <2> QED
    BY <1>3, <1>10, <2>1, <2>2
<1>11. PausedRightly(status')
  BY <1>3, <1>6, <1>9, <1>10 DEF PausedRightly
<1>12. Young(status', quiet')
  <2>1. quiet' \in Times
    BY <1>1, <1>6, ZeroIsATime
  <2>2. CASE RolloutHealthy(ctx, new)
    <3>1. st.age = 0 \/ st.healthy = "True"
      BY <1>1, <1>3, <1>4, <2>2 DEF available, SameConditions
    <3> QED
      BY <1>6, <2>1, <3>1 DEF Young, Times
  <2>3. CASE ~RolloutHealthy(ctx, new)
    <3>1. st.age = 0 \/ (~RolloutProgressing(ctx, new) /\ status.healthy # "True" /\ st.age = status.age)
      BY <1>3, <1>4, <2>3 DEF SameConditions
    <3> QED
      BY <1>1, <1>6, <2>1, <3>1 DEF Young, Times
  <2> QED
    BY <2>2, <2>3
<1>13. ASSUME HasReason(st, "TimedOut"), ~HasReason(status, "TimedOut")
       PROVE  quiet > Deadline
  <2>1. st.progressing # status.progressing
    BY <1>13 DEF HasReason
  <2>2. RolloutTimedOut(new) /\ status.healthy # "True"
    BY <1>7, <1>13, <2>1 DEF TimesOut
  <2>3. new.progressing = status.progressing /\ new.age = status.age
    BY <1>3 DEF SameConditions
  <2>4. status.age > Deadline
    BY <1>13, <2>2, <2>3 DEF RolloutTimedOut, HasReason
  <2>5. status.age \in Times
    BY <1>1 DEF ConditionsTypeOK, Status
  <2> QED
    BY <1>1, <2>2, <2>4, <2>5, ConditionsAssumption DEF Young, Times
<1> QED
  BY <1>6, <1>11, <1>12, <1>13

LEMMA InitConditionsInv == Init => ConditionsInv
<1> SUFFICES ASSUME Init PROVE ConditionsInv
  OBVIOUS
<1>1. ConditionsTypeOK
  BY InitConditionsTypeOK
<1>2. pc = "idle" /\ quiet = Deadline + 1
  BY DEF Init
<1>3. PausedRightly(status) /\ Young(status, quiet)
  <2>1. CASE status = EmptyStatus
    <3>1. /\ status.stepsKnown = FALSE /\ status.pauseCondition = FALSE
          /\ status.stepIndex = NoIndex /\ status.age = 0
      BY <2>1 DEF EmptyStatus
    <3> QED
      BY <1>2, <3>1, ConditionsAssumption DEF PausedRightly, WaitsAtPause, Young
  <2>2. CASE status = HealthyStatus(template)
    <3>1. /\ status.age = Deadline + 1 /\ status.stepIndex = Len(Plan)
          /\ status.pauseCondition = FALSE
      BY <1>1, <2>2, FirstStatusTypes DEF ConditionsTypeOK
    <3>2. Len(Plan) # NoIndex /\ ~(Len(Plan) < Len(Plan))
      BY PlanType DEF NoIndex
    <3> QED
      BY <1>2, <3>1, <3>2, ConditionsAssumption DEF PausedRightly, WaitsAtPause, Young
  <2> QED
    BY <2>1, <2>2 DEF Init
<1> QED
  BY <1>1, <1>2, <1>3, PausedRightlyIsThat
     DEF ConditionsInv, Fresh, YoungSinceProgress, Young, PausedIsMarked

\* What every step keeps, in the terms of a status.
LEMMA NextPausedRightly ==
    ASSUME ConditionsInv, [Next]_vars
    PROVE  PausedRightly(status') /\ Young(status', quiet')
<1> USE DEF spec, world, pass, clocks, bounds
<1>1. /\ ConditionsTypeOK /\ status \in Status /\ quiet \in Times
      /\ PausedRightly(status) /\ Young(status, quiet)
      /\ pc # "idle" /\ ~stale => ctx.status = status
  <2>1. PausedRightly(status)
    BY PausedRightlyIsThat DEF ConditionsInv
  <2> QED
    BY <2>1 DEF ConditionsInv, ConditionsTypeOK, Fresh, YoungSinceProgress, Young
<1>2. ASSUME status' = status, quiet' = quiet PROVE PausedRightly(status') /\ Young(status', quiet')
  BY <1>1, <1>2
<1>3. ASSUME ctx.status = status, quiet' = quiet, Kept(ctx.status, status'),
             status'.age \in {0, ctx.status.age},
             HasReason(status', "TimedOut") => HasReason(ctx.status, "TimedOut"),
             status'.pauseCondition /\ ~HasReason(status', "TimedOut") => status'.phase = "Paused"
      PROVE  PausedRightly(status') /\ Young(status', quiet')
  <2>1. PausedRightly(status')
    BY <1>1, <1>3, StaysPausedRightly
  <2>2. status'.healthy = status.healthy
    BY <1>3 DEF Kept
  <2>3. Young(status', quiet')
    BY <1>1, <1>3, <2>2, StaysYoung
  <2> QED
    BY <2>1, <2>3
<1>4. CASE GetRollout \/ createDesiredReplicaSet \/ Conflict \/ \E t \in Templates : PodChanges(t)
  BY <1>2, <1>4 DEF GetRollout, createDesiredReplicaSet, Conflict, PodChanges
<1>5. CASE checkPausedConditions
  <2>1. quiet' = quiet /\ pc # "idle"
    BY <1>5 DEF checkPausedConditions
  <2>2. CASE status' = status
    BY <1>2, <2>1, <2>2
  <2>3. CASE status' # status
    <3>1. /\ ~stale /\ Kept(ctx.status, status') /\ status'.age \in {0, ctx.status.age}
          /\ HasReason(status', "TimedOut") => HasReason(ctx.status, "TimedOut")
          /\ status'.pauseCondition /\ ~HasReason(status', "TimedOut")
                => status'.phase = "Paused"
      BY <1>1, <1>5, <2>3, CheckedEffect
    <3> QED
      BY <1>1, <1>3, <2>1, <3>1
  <2> QED
    BY <2>2, <2>3
<1>6. CASE AnnounceReplicaSet
  <2>1. /\ ~stale /\ Kept(ctx.status, status') /\ status'.phase = ctx.status.phase
        /\ status'.progressing = Cond("True", "NewReplicaSetCreated")
        /\ status'.age \in {0, ctx.status.age}
    BY <1>1, <1>6, AnnouncedEffect
  <2>2. quiet' = quiet /\ ctx.status = status
    BY <1>1, <1>6, <2>1 DEF AnnounceReplicaSet
  <2>3. ~HasReason(status', "TimedOut")
    BY <2>1 DEF HasReason, Cond
  <2>4. status'.pauseCondition => status'.phase = "Paused"
    BY <1>1, <2>1, <2>2 DEF Kept, PausedRightly
  <2> QED
    BY <1>3, <2>1, <2>2, <2>3, <2>4
<1>7. CASE CreationFails
  <2>1. quiet' = quiet /\ pc # "idle" /\ (stale => status' = status)
    BY <1>7 DEF CreationFails
  <2>2. CASE stale
    BY <1>2, <2>1, <2>2
  <2>3. CASE ~stale
    <3>1. /\ Kept(ctx.status, status') /\ (status'.pauseCondition => status'.phase = "Paused")
          /\ status'.progressing.reason # "TimedOut" /\ status'.age \in {0, ctx.status.age}
      BY <1>1, <1>7, <2>3, FailedEffect
    <3>2. ~HasReason(status', "TimedOut")
      BY <3>1 DEF HasReason
    <3> QED
      BY <1>1, <1>3, <2>1, <2>3, <3>1, <3>2
  <2> QED
    BY <2>2, <2>3
<1>8. CASE persistRolloutStatus
  BY <1>8, PersistedRightly
<1>9. CASE EditSpec \/ Resume
  <2>1. /\ status'.progressing = status.progressing /\ status'.age = status.age
        /\ status'.healthy = status.healthy /\ status'.stepsKnown = status.stepsKnown
        /\ status'.stepIndex = status.stepIndex /\ status'.phase = status.phase
        /\ status'.pauseCondition => status.pauseCondition
    BY <1>1, <1>9, UserEffect
  <2>2. quiet' = quiet
    BY <1>1, <1>9, UserEffect
  <2> QED
    BY <1>1, <2>1, <2>2 DEF PausedRightly, WaitsAtPause, HasReason, Young
<1>10. CASE Tick
  <2>1. /\ Kept(status, status') /\ status'.age = Later(status.age)
        /\ status'.progressing = status.progressing /\ status'.phase = status.phase
    BY <1>1, <1>10, TickEffect
  <2>2. quiet' = Later(quiet)
    BY <1>10 DEF Tick
  <2>3. PausedRightly(status')
    BY <1>1, <2>1 DEF PausedRightly, WaitsAtPause, HasReason, Kept
  <2>4. status.age \in Times
    BY <1>1 DEF Status
  <2>5. status.age <= quiet => Later(status.age) <= Later(quiet)
    BY <1>1, <2>4, ConditionsAssumption DEF Later, Smaller, Times
  <2> QED
    BY <1>1, <2>1, <2>2, <2>3, <2>5 DEF Young, Kept
<1>11. CASE UNCHANGED vars
  BY <1>2, <1>11 DEF vars
<1> QED
  BY <1>4, <1>5, <1>6, <1>7, <1>8, <1>9, <1>10, <1>11 DEF Next, Pass

LEMMA NextFresh == ConditionsInv /\ [Next]_vars => Fresh' /\ PausedIsMarked'
<1> SUFFICES ASSUME ConditionsInv, [Next]_vars PROVE Fresh' /\ PausedIsMarked'
  OBVIOUS
<1> USE DEF spec, world, pass, clocks, bounds
<1>1. /\ ConditionsTypeOK
      /\ pc # "idle" /\ ~stale => ctx.status = status
      /\ PausedIsMarked
  BY DEF ConditionsInv, Fresh
<1>2. ASSUME pc' = "idle" \/ stale' = TRUE PROVE Fresh' /\ PausedIsMarked'
  BY <1>2 DEF Fresh, PausedIsMarked
<1>3. CASE GetRollout
  BY <1>3 DEF GetRollout, Fresh, PausedIsMarked
<1>4. CASE checkPausedConditions
  <2>1. CASE UNCHANGED <<status, ctx, stale>>
    <3>1. IsPaused(ctx) /\ ~stale => ctx.status.progressing # Cond("True", "NewReplicaSetAvailable")
      <4>1. stale' = TRUE => stale
        BY <2>1
      <4>2. \/ IsPaused(ctx) => ctx.status.progressing # Cond("True", "NewReplicaSetAvailable")
            \/ ~stale /\ stale' = TRUE
        BY <1>1, <1>4, CheckedEffect
      <4> QED
        BY <4>1, <4>2
    <3> QED
      BY <1>1, <1>4, <2>1, <3>1 DEF checkPausedConditions, Fresh, PausedIsMarked, IsPaused
  <2>2. CASE ~UNCHANGED <<status, ctx, stale>>
    <3>1. stale' = TRUE
      BY <1>1, <1>4, <2>2, CheckedEffect
    <3> QED
      BY <1>2, <3>1
  <2> QED
    BY <2>1, <2>2
<1>5. CASE createDesiredReplicaSet
  BY <1>1, <1>5 DEF createDesiredReplicaSet, Fresh, PausedIsMarked
<1>6. CASE AnnounceReplicaSet
  <2>1. /\ status'.progressing = Cond("True", "NewReplicaSetCreated")
        /\ ctx'.status = status'
    BY <1>1, <1>6, AnnouncedEffect
  <2>2. Cond("True", "NewReplicaSetCreated") # Cond("True", "NewReplicaSetAvailable")
    <3>1. /\ Cond("True", "NewReplicaSetCreated").reason = "NewReplicaSetCreated"
          /\ Cond("True", "NewReplicaSetAvailable").reason = "NewReplicaSetAvailable"
      BY DEF Cond
    <3> QED
      BY <3>1
  <2> QED
    BY <2>1, <2>2 DEF Fresh, PausedIsMarked
<1>7. CASE CreationFails \/ persistRolloutStatus \/ Conflict
  BY <1>2, <1>7 DEF CreationFails, persistRolloutStatus, Conflict, EndPass
<1>8. CASE EditSpec \/ Resume
  <2>1. stale' = (pc # "idle") /\ pc' = pc
    BY <1>1, <1>8, UserEffect
  <2> QED
    BY <1>2, <2>1
<1>9. ASSUME NEW t \in Templates, PodChanges(t) PROVE Fresh' /\ PausedIsMarked'
  BY <1>1, <1>9 DEF PodChanges, Fresh, PausedIsMarked, IsPaused
<1>10. CASE Tick
  <2>1. pc' = pc /\ stale' = stale
    BY <1>10 DEF Tick
  <2>2. CASE pc = "idle"
    BY <1>2, <2>1, <2>2
  <2>3. CASE pc # "idle"
    <3>1. /\ ctx'.paused = ctx.paused /\ ctx'.status.progressing = ctx.status.progressing
          /\ ctx'.status.pauseCondition = ctx.status.pauseCondition
          /\ ctx.status = status => ctx'.status = status'
      BY <1>1, <1>10, <2>3, TickEffect
    <3> QED
      BY <1>1, <2>1, <2>3, <3>1 DEF Fresh, PausedIsMarked, IsPaused
  <2> QED
    BY <2>2, <2>3
<1>11. CASE UNCHANGED vars
  BY <1>1, <1>11 DEF vars, Fresh, PausedIsMarked, IsPaused
<1> QED
  BY <1>3, <1>4, <1>5, <1>6, <1>7, <1>8, <1>9, <1>10, <1>11 DEF Next, Pass

LEMMA NextConditionsInv == ConditionsInv /\ [Next]_vars => ConditionsInv'
<1> SUFFICES ASSUME ConditionsInv, [Next]_vars PROVE ConditionsInv'
  OBVIOUS
<1>1. ConditionsTypeOK'
  BY NextConditionsTypeOK DEF ConditionsInv
<1>2. Fresh' /\ PausedIsMarked'
  BY NextFresh
<1>3. PausedRightly(status') /\ Young(status', quiet')
  BY NextPausedRightly
<1>4. KnownSteps' /\ PausesAtPauseSteps' /\ PauseIsNotDegraded' /\ YoungSinceProgress'
  BY <1>3 DEF PausedRightly, Young, KnownSteps, PausesAtPauseSteps, PauseIsNotDegraded,
              YoungSinceProgress
<1> QED
  BY <1>1, <1>2, <1>4 DEF ConditionsInv

\* The writes of a pass, the edits and the clock keep all that the properties
\* below rest on (checkPausedConditions, persistRolloutStatus and
\* calculateRolloutConditions).
THEOREM ConditionsInvHolds == Spec => []ConditionsInv
<1>1. Init => ConditionsInv
  BY InitConditionsInv
<1>2. ConditionsInv /\ [Next]_vars => ConditionsInv'
  BY NextConditionsInv
<1> QED
  BY <1>1, <1>2, PTL DEF Spec

\* A rollout with a pause condition is reported as paused, whatever deadline it
\* missed before (CalculateRolloutPhase, isIndefiniteStep).
THEOREM PauseIsReported == Spec => []PauseIsNotDegraded
<1>1. ConditionsInv => PauseIsNotDegraded
  BY DEF ConditionsInv
<1> QED
  BY <1>1, ConditionsInvHolds, PTL

\* Only the last write of a pass reports a missed deadline.
LEMMA TimesOutOnlyWhenPersisted ==
    ASSUME ConditionsInv, [Next]_vars, BecomesTimedOut
    PROVE  persistRolloutStatus
<1> USE DEF spec, world, pass, clocks, bounds
<1>1. /\ ConditionsTypeOK
      /\ pc # "idle" /\ ~stale => ctx.status = status
  BY DEF ConditionsInv, Fresh
<1>2. HasReason(status', "TimedOut") /\ ~HasReason(status, "TimedOut")
  BY DEF BecomesTimedOut, HasReason
<1>3. status'.progressing # status.progressing /\ status'.progressing.reason = "TimedOut"
  BY <1>2 DEF HasReason
<1>4. CASE GetRollout \/ createDesiredReplicaSet \/ Conflict \/ UNCHANGED vars
           \/ \E t \in Templates : PodChanges(t)
  BY <1>3, <1>4 DEF GetRollout, createDesiredReplicaSet, Conflict, PodChanges, vars
<1>5. CASE checkPausedConditions
  <2>1. pc # "idle" /\ status' # status
    BY <1>3, <1>5 DEF checkPausedConditions
  <2>2. ~stale /\ HasReason(ctx.status, "TimedOut")
    BY <1>1, <1>2, <1>5, <2>1, CheckedEffect
  <2> QED
    BY <1>1, <1>2, <2>1, <2>2
<1>6. CASE AnnounceReplicaSet
  <2>1. status'.progressing = Cond("True", "NewReplicaSetCreated")
    BY <1>1, <1>6, AnnouncedEffect
  <2> QED
    BY <1>3, <2>1 DEF Cond
<1>7. CASE CreationFails
  <2>1. CASE stale
    BY <1>3, <1>7, <2>1 DEF CreationFails
  <2>2. CASE ~stale
    BY <1>1, <1>3, <1>7, <2>2, FailedEffect
  <2> QED
    BY <2>1, <2>2
<1>8. CASE EditSpec \/ Resume
  <2>1. status'.progressing = status.progressing
    BY <1>1, <1>8, UserEffect
  <2> QED
    BY <1>3, <2>1
<1>9. CASE Tick
  <2>1. status'.progressing = status.progressing
    BY <1>1, <1>9, TickEffect
  <2> QED
    BY <1>3, <2>1
<1> QED
  BY <1>4, <1>5, <1>6, <1>7, <1>8, <1>9 DEF Next, Pass

\* A rollout is reported as lacking progress only when for longer than the
\* deadline no write of its status has recorded any (RolloutTimedOut, with the
\* time of Progressing that calculateRolloutConditions refreshes).
THEOREM DeadlineCountsFromProgress == Spec => DeadlineFromLastProgress
<1>1. ConditionsInv /\ [Next]_vars => (BecomesTimedOut => quiet > Deadline)
  <2> SUFFICES ASSUME ConditionsInv, [Next]_vars, BecomesTimedOut PROVE quiet > Deadline
    OBVIOUS
  <2>1. persistRolloutStatus
    BY TimesOutOnlyWhenPersisted
  <2>2. HasReason(status', "TimedOut") /\ ~HasReason(status, "TimedOut")
    BY DEF BecomesTimedOut, HasReason
  <2> QED
    BY <2>1, <2>2, PersistedRightly
<1>2. ConditionsInv /\ [Next]_vars => [BecomesTimedOut => quiet > Deadline]_vars
  BY <1>1
<1> QED
  BY <1>2, ConditionsInvHolds, PTL DEF Spec, DeadlineFromLastProgress

=============================================================================
