# Formal model of the canary rollout controller

TLA+ modules for `v1alpha1/` and `utils/` of this repository: a controller that
rolls a new pod template out step by step, by resizing ReplicaSets. TLC checks
the modules on small instances; TLAPS proves all of the safety properties that the
runs check for every value of the constants. Paths below are relative to `src/`;
line numbers are in `PROJECT.json`, for every definition (`map`).

To check one run: `tlc -config CanaryScaling.cfg MCCanaryRollout.tla`. To check
the proofs: `tlapm CanaryStepsProofs.tla`, and likewise for the other modules
whose name ends in `Proofs`.

## 1. Inventory

### Components

| Component | Source | State it keeps | Operations |
|---|---|---|---|
| Canary reconcile pass | `v1alpha1/controller.go` (`syncHandler`, `newRolloutContext`), `context.go`, `canary.go` | `rolloutContext`: the rollout and the ReplicaSets as read at the start, the pause decisions, the new status | get, list, write conditions, sync revisions, create, collect history, pause, scale, write the status |
| Replica arithmetic | `utils/replicaset/canary.go`, `replicaset.go` | none | limits (`MaxSurge`, `MaxUnavailable`), weights, rounding, `CalculateReplicaCountsForBasicCanary`, `NewRSNewReplicas` |
| ReplicaSet scaling | `v1alpha1/replicaset.go`, `canary.go` | sizes of the ReplicaSets, in the API server | `reconcileNewReplicaSet`, `reconcileOldReplicaSets`, `cleanupUnhealthyReplicas`, `scaleDownOldReplicaSetsForCanary` |
| Revisions and history | `v1alpha1/sync.go`, `utils/annotations` | revision annotations of the ReplicaSets and the rollout | `syncReplicaSetRevision`, `createDesiredReplicaSet`, `setRolloutRevision`, `reconcileRevisionHistoryLimit` |
| Pause steps | `v1alpha1/pause.go`, `canary.go` | `status.pauseConditions`, `status.controllerPause` | add, clear, complete by resume or by duration |
| Steps, rollback, promotion | `v1alpha1/canary.go`, `sync.go` | `status.currentStepIndex`, `currentStepHash`, `currentPodHash`, `stableRS` | reset, next step, jump of a rollback, `promoteStable` |
| Conditions and phase | `utils/conditions`, `utils/rollout`, `sync.go` | `status.conditions`, `status.phase` | `calculateRolloutConditions`, `CalculateRolloutPhase`, deadline |
| Work queue and workers | `v1alpha1/controller.go`, `controller/manager.go`, `utils/queue` | the rate limited queue | `Run`, `RunWorker`, `processNextWorkItem` |
| Ephemeral metadata | `v1alpha1/ephemeralmetadata.go`, `utils/replicaset` | labels and annotations of ReplicaSets and pods | `reconcileEphemeralMetadata`, `syncEphemeralMetadata` |
| Hash collisions | `v1alpha1/sync.go`, `utils/replicaset` | names of ReplicaSets, `status.collisionCount` | `FindNewReplicaSet`, the retry in `createDesiredReplicaSet` |
| Validation and defaults | `v1alpha1/validation`, `utils/defaults` | none | `ValidateRolloutSpec`, the defaults |
| Labels, logging, JSON, diff, time | `utils/*` | none | formatting |
| Rollout API and store, Kubernetes | not in this repository | rollouts, ReplicaSets, pods | get, update, update status; creation and deletion of pods |

### How they interact

A worker takes a key from the queue and runs one *pass*. The pass reads the
rollout, lists its ReplicaSets, and from then on works with that snapshot, which
it changes only where it writes. It makes up to ten or so calls to two servers,
one after another, with no transaction around them: the rollout store (whole
object or status) and the API server (ReplicaSets). At the same time the user
writes the spec and removes pause conditions, and the ReplicaSet controller and
the kubelets change the ReplicaSets' status. A pass that ends in an error or a
panic is requeued; what it wrote stays.

### What is hard

* *Stale snapshots.* Everything a pass decides is decided from what it read at
  its start; between two calls anything may change. Several writes replace a
  whole object.
* *Dropped results and errors.* `UpdateRolloutStatus` drops the object it gets
  back, so that the rest of the pass writes a stale one; the scaling of old
  ReplicaSets drops its errors.
* *Crashes between calls.* Create, revision and status are three writes.
* *Interrupted rollouts.* Template, steps and size may change at any time: up to
  three templates have pods, and a rollback makes the stable ReplicaSet new.
* *Rounding.* Weights of few pods, ties, surges in percent.
* *Pauses.* Three writers of two fields, and a clock.
* *Conditions.* Four writers of one condition in a pass, whose reason and time
  decide about the deadline, and a phase that is computed from old counters.
* *The queue.* A rollout changes while its pass runs; passes fail and panic.
* *Two controllers.* A former leader finishes its passes beside the leader's.
* *Pods behind the listing.* Metadata are written to pods that come and go.

The full list is `hazards` in `PROJECT.json`, each with the properties that
would catch it, or with the reason why none does yet.

### What makes each part correct

* Scaling: principles 2 to 6 of `README.md`, each as an action property: only
  the new ReplicaSet grows, it shrinks only to the rollout's size, the others go
  before the stable one, and the limits hold.
* Revisions and history: the new ReplicaSet has the greatest revision when it
  matters, and the stable one, needed for a rollback, is never deleted.
* Steps and pauses: in order, within the plan, and a pause holds until over.
* The pass as a whole: no user's edit is lost, only the wanted template is
  promoted, and the rollout gets to its end.
* Arithmetic: the closest possible share, never fewer pods for a greater weight.
* Conditions: a pause is not a failure, the deadline counts from progress, and a
  healthy rollout is reported as healthy at last.
* Queue: no two passes for one rollout, and no change without a pass.
* Names and metadata: the ReplicaSet that is taken for the wanted template has
  it, there is one of them, and pods look like what their ReplicaSet makes.
* Validation: what it accepts is what the arithmetic can work with.

## 2. Modules

```
CanaryMath ─┬─ CanaryRollout ── CanaryRolloutProperties ── CanaryRolloutClaims ── MCCanaryRollout
            │                     │  (INSTANCE CanarySteps)
            │                     └─ CanaryRolloutProofs ─┬─ CanaryStepsProofs
            │                                             └─ CanaryLimitsProofs
            ├─ CanaryMathProperties ─┬─ CanaryMathProofs ── (CanaryInputsProofs, CanaryRolloutProofs,
            │                        │                       RolloutConditionsProofs)
            │                        └─ CanaryInputs ── CanaryInputsProofs
            ├─ RolloutValidation ──── CanaryInputs
            └─ RolloutConditions ─┬─ MCRolloutConditions
                                  └─ RolloutConditionsProofs

RolloutQueue ─┬─ MCRolloutQueue            RolloutReplicaSets ─┬─ MCRolloutReplicaSets
(INSTANCE     └─ RolloutQueueProofs                            └─ RolloutReplicaSetsProofs
 RolloutPasses)
```

* **CanaryMath** – the pure operators of `utils/replicaset`. A `rolloutContext`
  is a record `c`. Two appends to `otherRSs` that may write the same cell of one
  array are modelled by the capacity of the slice (`AppendsShareArray`).
* **CanaryMathProperties** – what the rounding promises, for given numbers:
  `IsClosest`, `GivesBothPods`, `NeverShrinks`, and the inputs for which the code
  has no answer (`NoOption`). The run checks them for small numbers, the theorems
  for all.
* **CanarySteps** – the abstract machine: what a rollout promises to its user,
  with a wanted template and plan, a stable template, and a position in the plan
  it has adopted. No ReplicaSets, snapshots or passes.
* **CanaryRollout** – one rollout, its ReplicaSets and the controller. `pc` is
  the next call of the pass, `ctx` its `rolloutContext`; one action per call.
  `staleRO` and `staleRS` say which copies in `ctx` are out of date, which is
  what the servers' optimistic locking tells a writer; `Locking = FALSE` is a
  rollout store without it.
* **CanaryRolloutProperties** – types, safety, action properties, the inductive
  invariants, the refinement of `CanarySteps`, liveness.
* **CanaryRolloutClaims** – what documentation or comments say of it and the code
  does not do. Each has a run that ends in a counterexample.
* **RolloutValidation** – which specs the controller accepts, and how the pass
  then reads them, as the limits and steps of `CanaryMath`. `RawSpec` is all that
  a user may write.
* **CanaryInputs** – a weight that goes up from 0 to 100, for any replicas and
  surge, and the specs made of these numbers: what the rounding and the
  validation must promise.
* **RolloutConditions** – Progressing, Paused and Healthy, the deadline, the
  phase. Pods and weights are free here; what the status says of them is not.
* **RolloutPasses** – the abstract queue: which rollouts are due for a pass.
* **RolloutQueue** – `processNextWorkItem` for several workers on client-go's
  rate limited queue. A pass is a read and an end.
* **RolloutReplicaSets** – how ReplicaSets get their names and what they, and
  their pods, carry of the rollout's metadata. More than one controller.
* **MC...** – instances for TLC. **...Proofs** – theorems.

The four state machines look at the same pass from four sides. Each is complete
in its own variables and free in those of the others: pods come and go freely in
`RolloutConditions`, any pass may promote in `RolloutReplicaSets`, and a pass of
`RolloutQueue` may succeed or fail. What is proved of one of them thus does not
rely on the others. `CanaryRollout` composes the arithmetic, the scaling, the
steps, the pauses and the revisions, which do decide about each other.

Definitions that begin with the word *Mutant* in their comment are plausible
mistakes in the code. They are used by nothing; replacing a definition by its
mutant makes the property named in `PROJECT.json` fail, which shows that the
property depends on that code.

### CanaryRollout

| Model | Code |
|---|---|
| `spec`, `status`, `revision` | the Rollout object: spec, status, revision annotation |
| `rss[t]` | the ReplicaSet of template `t`: `rev` (annotation), `spec` (`.spec.replicas`), `actual` and `avail` (`.status`), `observed` (its controller has seen the last generation, which each resize raises; history collection passes over one it has not), `born` (order of creation, 0 when it does not exist) |
| `retired` | how many more old ReplicaSets exist, without pods; they matter to the history limit and to the capacity of the slices |
| `pc`, `ctx` | where the pass is, its `rolloutContext` |
| `timeUp` | the running pause has lasted its duration |
| `resumed` | the user has resumed since the controller last paused (only observed, by the properties) |
| `edits`, `faults` | the bounds' counters |

| Action (`pc`) | Code |
|---|---|
| `GetRollout` (idle) | `syncHandler`, `newRolloutContext` |
| `checkPausedConditions` | the same, with `UpdateRolloutStatus` |
| `syncReplicaSetRevision`, `setRolloutRevision` (syncRevision) | `syncReplicaSetRevision`: the ReplicaSet's annotation, or else the rollout's |
| `createDesiredReplicaSet` (create), `setRolloutRevision` (setRevision), `AnnounceReplicaSet` (announce) | the three writes of `createDesiredReplicaSet` |
| `reconcileRevisionHistoryLimit` (history) | one deletion per step |
| `reconcileCanaryPause`, `haltProgress`, `reconcileNewReplicaSet`, `reconcileOldReplicaSets` (scale) | the four ways `canary` may go on |
| `cleanupUnhealthyReplicas`, `StartScaleDown` (cleanup), `scaleDownOldReplicaSetsForCanary` (scaleDown) | one ReplicaSet per step |
| `tryToCompleteStepAndSyncRolloutStatusCanary` (persist) | the new status and its write, in one action, since the decision reads only the snapshot |
| `Conflict`, `PassFails`, `OldScalingFails`, `PanicOnNilStable` | error returns, crashes, dropped errors, the recovered panic |
| `EditSpec`, `Resume`, `SyncPods`, `PodReady`, `PodFails`, `PauseElapses` | the user, the ReplicaSet controller (which sees a generation and then counts its pods), the kubelets, the clock |

The refinement of `CanarySteps` maps `wanted` and `plan` to the spec's template
and steps, `stable`, `current`, `adopted`, `index` and `waiting` to
`status.stableRS`, `currentPodHash`, `currentStepHash`, `currentStepIndex` and
the pause condition. Every write of the status is one abstract step; everything
else is a stutter.

### RolloutConditions

| Model | Code |
|---|---|
| `template`, `paused`, `status` | the Rollout object; `status.observed` says that `observedGeneration` is the generation |
| `status.progressing`, `condPaused`, `healthy`, `age` | three conditions, and the time since Progressing was updated, cut off beyond the deadline |
| `pods`, `exists` | the ReplicaSets and how many of their pods run and are available |
| `pc`, `ctx`, `stale` | the pass, its snapshot, whether the rollout was written since |
| `quiet`, `running` | the time since a write has recorded progress, and since Paused was true (only observed) |

| Action (`pc`) | Code |
|---|---|
| `GetRollout`, `checkPausedConditions` | the start of `syncHandler`; the second write drops what it gets back |
| `createDesiredReplicaSet`, `AnnounceReplicaSet`, `CreationFails` | the creation, its condition NewReplicaSetCreated, or FailedRSCreate |
| `persistRolloutStatus` | `calculateBaseStatus`, the counters, `calculateRolloutConditions`, `CalculateRolloutPhase` |
| `EditSpec`, `Resume`, `PodChanges`, `Tick`, `Conflict` | the user, the cluster, the clock, a stale write |

### RolloutQueue

| Model | Code |
|---|---|
| `queue`, `dirty`, `processing`, `waiting`, `failures` | client-go's queue, its delaying queue and rate limiter (external) |
| `pc`, `key`, `fresh` | each worker in `processNextWorkItem`; whether its pass has read the last change |
| `kind`, `synced`, `events` | the rollouts: whether their pass can succeed, has succeeded, and changes yet to be added |

| Action | Code |
|---|---|
| `Get`, `Done` | `Get`, the deferred `Done` |
| `Read`, `DefaultReplicas`, `SyncSucceeds`, `SyncFails` | `syncHandler`: its Get, the write of a missing `.spec.replicas`, its end with nil, or with an error or a recovered panic; a deleted rollout's pass too, when its Get fails |
| `AddRateLimited`, `Forget` | what is done with the key |
| `Change`, `Enqueue`, `DelayEnds` | the user, the program that embeds the controller, the delaying queue |

Of `RolloutPasses`, a rollout is *due* when it has an event, is dirty or
waiting, or has a worker that has not read it yet or is about to requeue it; it
is *running* in a worker that has read it.

### RolloutReplicaSets

| Model | Code |
|---|---|
| `wanted`, `metadata` | the template, `canaryMetadata` and `stableMetadata` |
| `status` | `collisionCount`, `currentPodHash`, `stableRS` |
| `rss[n]` | the ReplicaSet of that name: owner, template, injected metadata |
| `pods[p]` | whose pod it is, and its metadata |
| `pc[c]`, `ctx[c]`, `staleRO[c]`, `staleRS[c]` | each controller's pass, and what was written since it read |
| `apart[c]` | the pods that a pass has left different from their ReplicaSet (only observed) |

| Action (`pc`) | Code |
|---|---|
| `GetRollout` (idle) | `newRolloutContext` with `FindNewReplicaSet` |
| `Create`, `AlreadyExists` (create) | `Create` in `createDesiredReplicaSet` |
| `AdoptExisting`, `FindCollision` (exists), `CountCollision` (collision) | the Get of what has the name, its comparison, the write of the count |
| `Announce` (announce) | revision and condition |
| `ListPods` (metadata), `UpdatePod`, `UpdateReplicaSet` (pods) | `syncEphemeralMetadata`, for the new ReplicaSet and then the others |
| `persistRolloutStatus` (persist) | the hash, and possibly the promotion |
| `Conflict`, `Fail` | a stale write; a failed call or a crash |
| `Edit`, `DeleteForeign`, `CreatePod`, `DeletePod` | the user, other owners, the cluster |

### What is abstracted

* Where names are not the subject, a ReplicaSet is named by its template, and
  there are no hash collisions. In `RolloutReplicaSets`, names may be taken by
  others; that two templates of one rollout collide is excluded by
  `HashesDiffer`.
* Specs are valid and have `.spec.replicas` in `CanaryRollout`; what happens
  otherwise is in `RolloutQueue`, and what is valid in `RolloutValidation`.
  `maxSurge` and `maxUnavailable` do not change during a run.
* In `CanaryRollout`, "Progressing says paused" and "Paused is true" are kept of
  the conditions. `calculateRolloutConditions` may replace the first, which the
  last write of the pass models as a free choice; `RolloutConditions` has all of
  it. Available and Completed are functions of the counters and hashes.
* Reading the rollout and listing its ReplicaSets is one action: what happens
  between the two cannot be told from what happens before or after.
* The listing is not cached (the code uses the client, not an informer), and the
  object `Update` returns for a ReplicaSet is kept or dropped as in the code.
* Resizing pods is one step of the ReplicaSet controller, readiness is one step
  per pod.
* Numbers do not wrap: `int32` products need 21 million replicas.
* `reconcileCanaryStableReplicaSet` and `syncReplicasOnly` are not called by
  anything and not modelled.

## 3. Runs

The bounds are small because each hazard needs few actors. Two templates give a
rollout and its rollback; the third gives an *other* ReplicaSet beside the new
and the stable one, and no further kind of ReplicaSet exists. Two replicas with
a surge of one make "some but not all pods". Two edits interrupt a rollout and
its interruption; more add a resume. One fault (a failed call, a crash, or a pod
that fails) suffices to leave any prefix of a pass behind. All counts of pods, revisions and orders of creation are bounded by
these.

| Run | Instance | What it shows |
|---|---|---|
| `scaling` | 3 templates, 1 or 2 replicas, surge 50 %, unavailable 1, two edits, one fault; no history to collect | `OldNeverScaledUp`, `NewShrinksOnlyToRolloutSize`, `StableScaledDownLast`, `ScaleUpWithinSurge`, `PassKeepsMinAvailable` when a rollout is interrupted by another, by a rollback or by a new size at any call |
| `steps` | 2 templates, three plans (no steps, pause first, pause in the middle), deployed or not, two edits | `StatusFitsPlan`, `StepsInOrder`, `UserEndedPause`, `PauseHoldsUntilOver` while edits swap the plans; `EditsAreKept` (whole-object writes lose no edit) and `PromotesWantedTemplate` while they race with a pass; `ImplementsSteps`, all of `CanarySteps`; its invariant `StepsInv`. Has the panic on a nil stableRS |
| `completes` | fairness; 2 templates, 2 replicas, a timed pause, then an indefinite one; one retired ReplicaSet and a history limit of 0; two edits, one fault | `Completes`: once edits stop, the rollout is done for good, or waits for the user for good; and, with history to collect, `TypeOK`, `StableExists`, `NewHasGreatestRevision`, and the invariants the theorems rest on: `IInv`, `LimitsInv` |
| `math` | up to 20 replicas, every weight, surges 0 to 2 | the rounding yields the closest share, never too many pods (`MathTypeOK`, `ClosestToWeight`), pods of both templates (`BothGetPods`), and never fewer for a greater weight (`GreaterWeightNeverShrinks`). In each of these states, specs that are made of the three numbers in all forms go through the validation: `AcceptedSpecsAreModelled`, which says which accepted steps are never completed, and `LimitsMakeRoom` |
| `conditions` | fairness; 2 templates, one replica, a weight and a pause, a deadline of one tick, two edits, two pod events, one failed creation | `PauseIsNotDegraded`, `DeadlineFromLastProgress`, the inductive invariant `ConditionsInv`, and `HealthIsReported` under fairness |
| `queue` | fairness; two rollouts, two workers, all kinds of rollouts, three changes, one fault | `ImplementsPasses`, `NoChangeForgotten`, `DelaysEndWithSuccess`, `EveryChangeIsSeen`, and `QueueInv` |
| `replicasets` | fairness; 2 templates, one name taken by another owner, collision counts up to 4, two pods, a leader and a former one, two disturbances | `NewIsWanted`, `OneReplicaSetPerTemplate`, `PodsFollowReplicaSets`, `CollisionsHaveCauses`, the inductive invariant `ReplicaSetsInv`, and `RolloutSettles` under fairness |

Why these suffice: `scaling` leaves the history alone, since the theorems below
hold with any, and `completes` has it. In `conditions` the clock only needs "within" and "beyond"
the deadline, and one replica makes the pods of two templates differ in every
counter the code compares. Two edits reach the pause, the resume and a change
of template. In `queue` a third worker or rollout would wait like the second,
and the theorems hold for any number; three changes are one before, one during
and one after a pass. In `replicasets` one foreign name forces one collision.
A disturbance is an edit, a failed call or a pass of the former leader, so two
of them make every pair. No pass meets the bound of four on the collision count
(`MayGoOn`, which is proved): a collision needs a name that another owner had, or
an overlapping pass, and `NamesSuffice` assumes that the bound is beyond both.
Every step of the code that counts a collision is thus a step of the model.

`scaling` uses that v2 and v3 are alike (`SYMMETRY`): which ReplicaSet is chosen
depends on revisions and orders of creation, which are distinct, and never on
the template. `steps` has no faults, so as to stay small; the theorems below
hold with any number. `EditsAreKept`, `PromotesWantedTemplate` and
`ImplementsSteps` need the store's locking (the mutant of the first two takes it
away). Two systems switch the deadlock check off: `CanaryInputs`, whose weight
stops at 100, and `RolloutQueue`, whose workers wait for ever
when nothing changes any more.

The limits hold in the form the code can promise. `ScaleUpWithinSurge` asks for
`maxSurge` only when the snapshot has enough available pods;
`PassKeepsMinAvailable` speaks of a pass that sees no pods about to be deleted.
The unconditional principles of `README.md` fail, as the next section shows.
`ClosestToWeight` and `BothGetPods` exclude by name the tie for which there is no
option left (`NoOption`), and `LimitsMakeRoom` limits that do not parse or are
negative (`LimitsAreWellFormed`); the next section says what happens with these.
`OneReplicaSetPerTemplate` is about a single controller.

### Disagreements between documents and code

| Run | Claim | What happens |
|---|---|---|
| `claim_min_available` | README.md:20 at least replicas − maxUnavailable available when scaling down | pods that the last pass gave up are counted until they are gone |
| `claim_grows` | `utils/replicaset/canary.go:71` new, old and others are all ReplicaSets; README.md:30 the new one is scaled up by what the surge leaves | with five (or six) old ReplicaSets the appends share an array, the total is wrong, and the rollout is stuck |
| `claim_resume` | `v1alpha1/pause.go:90` a resume completes the pause step | a pass between its two writes resets controllerPause |
| `claim_deadline` | `v1alpha1/sync.go:370` no lack of progress for resumed rollouts that were paused for longer than the deadline | progress during the pause replaces the reason RolloutPaused; after the resume nothing renews the time, and the rollout is TimedOut at once |
| `claim_healthy` | `utils/rollout/rolloututil.go:20` the phase takes into account whether the generation was observed | `checkPausedConditions` observes the new generation with the phase of the old counters: Healthy, for a template that has no ReplicaSet yet |

What follows was met on the way and has no run, because it is a single step, or
because the models exclude it by name:

* README.md:19: scaling up exceeds replicas + maxSurge when too few pods are
  available, since what is missing is added after the cap
  (`utils/replicaset/canary.go:109`).
* `v1alpha1/canary.go:178` dereferences `stableRS` where `context.go:20` says it
  may be nil: a template change before the first promotion panics. The panic is
  recovered, and what the pass has written stays (`PanicOnNilStable`, in
  `steps`).
* `utils/replicaset/canary.go:315` promises pods of both templates for every
  weight but 100, and `:365` that there always is an option. With two replicas,
  weight 75 and no surge there is none: rounding down is excluded as a tie,
  rounding up as all replicas, and the result is 0 new pods. `NoOption` names the
  tie; TLAPS proves that five pairs of replicas and weight meet it
  (`NoOptionIsHalfAPodLess`), and that all others give both templates pods
  (`BothPodsUnlessHalfAPodLess`).
* `utils/replicaset/replicaset.go:395` says that the validation catches limits
  that do not parse, and `v1alpha1/validation/validation.go:43` that limits are
  not both zero. Text for one limit counts as 0 and is accepted beside the other;
  `resolveFencePosts` then fails, and both are 0 in the pass, which may neither
  scale up nor down.
* The validation does not look at signs: a negative limit is accepted and takes
  room away.
* A step with a weight and a `setCanaryScale` is accepted and never completed
  (`v1alpha1/canary.go:239`). `AcceptedSpecsAreModelled` says that no other
  accepted step is like this one.
* `progressDeadlineSeconds` of the spec is ignored: it is always 600.
* An invalid rollout makes its pass panic (`context.go:42`), since
  `enqueueRolloutAfter` is never set; its InvalidSpec condition is never
  written. A rollout that does not exist any more is an error, and its key is
  retried for ever.
* Two overlapping passes, of a leader and a former one, may create two
  ReplicaSets for one template, under two collision counts.
* Pods that are created between the listing of pods and the update of their
  ReplicaSet keep the old metadata for ever, since later passes remove only
  what the ReplicaSet had (`apart`).
* A ReplicaSet of the rollout with the hash of another template is taken for it
  without a look at the template (excluded by `HashesDiffer`).

Three more statements are looser than the code, and the properties say what
holds instead: README.md:17 (the new ReplicaSet shrinks only when it is larger
than the rollout) but for a rollback, in which the stable ReplicaSet is the new
one; README.md:38 (next step or first step) but for promotion and rollback,
which jump to the end; and the branch at `v1alpha1/replicaset.go:49` ("cannot
get here"), which the cap on the surge does reach.

### Fairness

`FairSpec` of `CanaryRollout` assumes weak fairness of

* the pass. `processNextWorkItem` requeues a failed key, and the program that
  embeds the controller feeds the queue; a single worker makes its calls in
  order, so that some step of `Pass` is enabled in every state, and the
  condition can be written as `[]<><<Pass>>_vars`. Faults are bounded, and no
  fairness is assumed of them, of the user or of failing pods. That a rollout
  whose timed pause is over is taken up at all is such an assumption, for the
  controller asks for no delayed requeue (`resyncPeriod` is never set);
* the ReplicaSet controller and the readiness of pods, *separately*. One joint
  condition would be too weak. The code may flap: while old pods are not gone,
  the size of the new ReplicaSet may go up and down between two values, and an
  unlucky schedule deletes each new pod before it is ready. A scheduler that
  always synchronises and never lets a pod become ready would then keep the
  rollout from completing for ever. Kubernetes makes progress on both;
* the clock.

`RolloutConditions` assumes weak fairness of the pass only.
`RolloutReplicaSets` assumes it of the leader's passes; since the leader has a
step to take in every state, this is written as `[]<><<Pass(Leader)>>_vars`.
`RolloutQueue` assumes weak fairness of each worker, of each delay, and of the
report of each change. A delay of client-go ends, a worker's loop goes on, and a
change that is never reported to the queue cannot be seen by anybody.

## 4. Proofs

All theorems hold for every value of the constants: every finite set of
templates, every set of step plans and sizes, all limits, and any number of
edits and faults; any set of rollouts and any set of workers; any plan and
deadline; any set of names, pods, metadata and former leaders. The assumptions
are the types of these constants (`ConstantsAssumption`, `QueueAssumption`,
`ConditionsAssumption`, `ReplicaSetsAssumption`, `InputsAssumption`), that two
templates never get one hash (`HashesDiffer`, in `RolloutReplicaSets`), that the
bound on collision counts is beyond what can happen (`NamesSuffice`, there), all
of which TLC evaluates in the runs of the modules, and `Locking`, which is named
in the theorems that need it.

| Module | Theorem | Statement |
|---|---|---|
| `CanaryMathProofs` | `ApproximationInRange` | the rounding yields between 0 and all replicas |
| | `NewIsClosest` | unless `NoOption`, `IsClosest`: no other number of new pods is strictly closer to the weight |
| | `GreaterWeightNeverAsksForLess` | unless `NoOption` for the greater weight, `NeverShrinks` |
| | `LimitsLeaveRoom` | well-formed limits leave `MaxSurge > 0` or `MaxUnavailable > 0` |
| | `NoOptionIsHalfAPodLess` | `NoOption` holds of five inputs and no others |
| | `BothPodsUnlessHalfAPodLess` | `GivesBothPods` holds exactly when the input is none of the five |
| `CanaryInputsProofs` | `InputsTypeCorrect` | `Spec => []MathTypeOK` |
| | `InputsGiveClosest` | `Spec => []ClosestToWeight` |
| | `InputsGiveBothPods` | `Spec => []BothGetPods` |
| | `InputsNeverShrink` | `Spec => GreaterWeightNeverShrinks` |
| | `EveryAcceptedSpecIsModelled` | every `raw \in RawSpec` that is accepted: `IsModelled(raw)` |
| | `EveryWellFormedSpecHasRoom` | if its limits are well formed, `HasRoom(raw)` |
| | `InputsAreModelled` | `Spec => []AcceptedSpecsAreModelled` |
| | `InputsHaveRoom` | `Spec => []LimitsMakeRoom` |
| `CanaryRolloutProofs` | `TypeCorrect` | `Spec => []TypeOK` |
| | `Inductive` | `Spec => []IInv` |
| | `StableIsKept` | `Spec => []StableExists` |
| | `NewRevisionIsGreatest` | `Spec => []NewHasGreatestRevision` |
| | `OldIsNeverScaledUp` | `Spec => OldNeverScaledUp` |
| | `NewOnlyShrinksToRolloutSize` | `Spec => NewShrinksOnlyToRolloutSize` |
| | `StableIsScaledDownLast` | `Spec => StableScaledDownLast` |
| `CanaryLimitsProofs` | `LimitsInvariant` | `Spec => []LimitsInv` |
| | `ScalingUpStaysWithinSurge` | `Spec => ScaleUpWithinSurge` |
| | `PassLeavesMinAvailable` | `Spec => PassKeepsMinAvailable` |
| `CanaryStepsProofs` | `StepsInvariant` | `Spec => []StepsInv` |
| | `StatusAlwaysFitsPlan` | `Spec => []StatusFitsPlan` |
| | `RolloutImplementsSteps` | `Locking` implies `Spec => Steps!Spec` |
| | `NoEditIsLost` | `Locking` implies `Spec => EditsAreKept` |
| | `OnlyWantedIsPromoted` | `Locking` implies `Spec => PromotesWantedTemplate` |
| | `StepsAreInOrder` | `Locking` implies `Spec => StepsInOrder` |
| | `OnlyUserEndsPause` | `Locking` implies `Spec => []UserEndedPause` |
| | `PauseIsHeld` | `Locking` implies `Spec => PauseHoldsUntilOver` |
| `RolloutConditionsProofs` | `ConditionsInvHolds` | `Spec => []ConditionsInv` |
| | `PauseIsReported` | `Spec => []PauseIsNotDegraded` |
| | `DeadlineCountsFromProgress` | `Spec => DeadlineFromLastProgress` |
| `RolloutQueueProofs` | `OnePassAtATime` | `Spec => []QueueInv` |
| | `QueueImplementsPasses` | `Spec => Passes!Spec` |
| | `NothingIsForgotten` | `Spec => []NoChangeForgotten` |
| | `FailuresEndWithSuccess` | `Spec => []DelaysEndWithSuccess` |
| `RolloutReplicaSetsProofs` | `ReplicaSetsInvHolds` | `Spec => []ReplicaSetsInv` |
| | `NewReplicaSetIsWanted` | `Spec => []NewIsWanted` |
| | `TemplateHasOneReplicaSet` | `Spec => []OneReplicaSetPerTemplate` |
| | `PodsHaveTheirMetadata` | `Spec => []PodsFollowReplicaSets` |
| | `CollisionsAreCaused` | `Spec => []CollisionsHaveCauses` |
| | `PassesMayGoOn` | `Spec => []MayGoOn` |

*Scaling.* None of the safety properties is inductive: whether a size that
a pass writes is an increase depends on the real size, while the pass computes
from its snapshot. `IInv` says why the snapshot can be relied on. Nobody but the
pass creates, deletes or resizes a ReplicaSet or sets `stableRS`, so that

* `SnapshotIsCurrent`: new, stable and others are all the ReplicaSets there are,
  and `stableRS` is what the pass has read;
* `SizesAreCurrent`: the sizes in the snapshot are the real ones until the pass
  scales something, and in the scale-down loop those of the ReplicaSets still to
  come are, while those behind are at zero;
* `AbsentHasNoPods`: a ReplicaSet that does not exist has no pods to count;
* `RevisionsAreCurrent`: the revisions in the snapshot are the real ones until
  the new ReplicaSet gets its own; from then on the new one is beyond all in the
  snapshot, and the history that the pass deletes only lowers what is real.

`SizeChanges` then says that a step leaves all sizes alone, resizes the new
ReplicaSet, or shrinks an old one when its turn has come, and by how much; the
action properties follow by cases. Availability may be out of date; none of the
properties but the limits depends on it, because `cleanupUnhealthyReplicas`
refuses a size above the current one.

`TypeOK` carries the arithmetic: sizes are naturals because every size is a
maximum with 0 or with a size, which needs the lemmas on limits, counts and
weights at the beginning of `CanaryRolloutProofs`.

*Rounding.* The weight asks for `k` pods and `r` hundredths of a pod (`IsShare`).
Which of the four options wins then depends on few comparisons, and they come
down to one: the code gives `k` exactly when `RoundsDown`, else `k + 1`, and
`k` when `r = 0` (`NewFromShare`). In the chain of options, the last one, the
floor of the surged total, never wins (`PartialShare`): nothing would change
without it. Both theorems compare products of three numbers; the proofs name
the products (`PICK x \in Nat : x = w * n`), so that the rest is linear. Two
weights that share `k` are compared by `r` alone, others by `k`. For
`NewIsClosest`, every number of pods is no closer than one of the four options
or than one pod more than the surged ceiling (`ErrorsAtLeast`, `AsClose`). The
theorems exclude `NoOption`, where the code gives 0 (`NoOptionGivesNone`). There
the weight asks for half a pod less than all, so that replicas times what the
weight lacks of 100 is 50 (`FiftyIsProduct`), and 50 is a product in few ways: the
inputs are the five pairs of `HalfAPodLess`, and no other input takes all the
pods from either template. All this is about unbounded numbers, like the model.

*Validation.* `IsModelled` and `HasRoom` are proved of every spec that the
validation accepts, field by field; the specs of the run are among these. Room
comes from `LimitsLeaveRoom`, and from the defaults, of which maxSurge is one per
cent, rounded up.

*Limits.* Both are about totals over all ReplicaSets, while the code adds up
those that the snapshot lists, in three different ways. `CanaryMathProofs` has
the lemmas on such totals (one ReplicaSet more, one changed, fewer, empty ones).
`LimitsInv` adds two things to `IInv`:

* `UnseenHasNoPods`: a ReplicaSet that the pass does not list has neither size nor
  available pods in its snapshot, so that the total over what it lists is the
  total over everything;
* `BudgetIsLeft`: in the scale-down loop, the available pods of the snapshot that
  are still wanted exceed the minimum by at least the budget that is left. Each
  turn of the loop takes from both sides the same, or less from the first.

For the surge (`NewSizeWithinSurge`), the size of the new ReplicaSet is cut to
what the surge leaves beside the older ones, and what is added afterwards for the
lack of availability is nothing when enough pods are available. For availability,
the new ReplicaSet shrinks to the full size of the rollout (`FullSizeIsEnough`),
the cleanup takes pods that were not available, and the loop takes its budget.

*Steps.* What a write puts into the status is computed from the snapshot, and
the user may have edited since. `SnapshotIsFresh`, in `StepsInv`, says that a
write that the store accepts comes from a snapshot that is the rollout itself;
the other conjuncts say that status and snapshot each fit the plan they have
adopted, and that a pass pauses only at a pause. Each step of `CanaryRollout`
then leaves the rollout alone, or is one of the six of `CanarySteps`. That only
the wanted template is promoted follows from `CanarySteps` alone; the order of
the steps also from what the mapped step says of the old and the new plan.

A pause step is completed when `controllerPause` is set and the pause condition
is not. `UserEndedPause`, which is inductive with `StepsInv`, says that this is
the user's doing: a status that the controller writes at the end of a pass has
`controllerPause` only together with the condition. `PauseIsHeld` then goes through the ways a step is completed.

*Conditions.* `PauseIsNotDegraded` and `DeadlineFromLastProgress` rest on
`ConditionsInv`: a pass that is not stale has the status (`Fresh`); the pause
condition is set at pause steps only, and Progressing is never TimedOut there
(`PausesAtPauseSteps`); Progressing is as young as the last recorded progress
unless the rollout is healthy (`YoungSinceProgress`); and a paused rollout that a
pass goes on with is not yet marked as available (`PausedIsMarked`).

*Queue.* `QueueInv` says that each key is queued once and never while a worker
has it, so that taking it from the queue gives it to one worker only. With it
each step of the queue maps to a step of `RolloutPasses` or leaves its state
alone, and `NoChangeForgotten` is inductive there. For `DelaysEndWithSuccess` the
invariant adds that a worker that is done with a key has either forgotten its
failures, or the key is dirty or waiting.

*Names and metadata.* `ReplicaSetsInv` says what a pass may rely on while other
controllers work: the ReplicaSets of the rollout are named by the hash of their
template, only they have pods, what a pass has seen of them is there unless the
store will reject its write (`SeenIsThere`), and what it has listed of their pods
is still so, or some pass is known to have left the pod apart (`ListedAreThere`).
While the leader is alone, nobody makes the ReplicaSet that it did not find
(`LeaderCreates`).

*Collisions.* Each collision is paid for. A count whose name another owner had
pays once, since counts only go up: a pass that is not stale has the count of
the status, and a stale one cannot write (`StatusIsRead`). An overlapping pass
pays once: for its own collision, or, if it creates its ReplicaSet instead, for
that of the leader, who may then find what it did not see when it began.
`CollisionsInv`, a part of `ReplicaSetsInv`, counts what is paid
(`status.count`) and what may be due (`Overlapping`, `Overtaken`) against both.
That the leader collides with nothing else follows from `NamedByHash` and
`HashesDiffer`: what has the name of the wanted template is that template's.
`MayGoOn` follows with `NamesSuffice`.

*Only model-checked:* liveness (`Completes`, `HealthIsReported`,
`EveryChangeIsSeen`, `RolloutSettles`), since TLAPS here does not reason about
`ENABLED`; and the claims, which are counterexamples.

## 5. Not modelled

* *Labels, logging, JSON, diff, time*: plumbing.
* Of the pause steps, the delayed requeue (`checkEnqueueRolloutDuringWait`),
  which `resyncPeriod = 0` never takes, and `PauseReasonInconclusiveAnalysis`,
  which nothing sets.
* Of the revisions, the copies of the rollout's other annotations, the
  annotation with earlier revisions, and the affinity of new templates: nothing
  is decided from them.
* Of the validation, the selector and the pod template, which are Kubernetes' own
  checks.
* The Rollout type, its store and Kubernetes are not in this repository: they are
  the environment of the pass.

## 6. What could come next

The model has all that was planned for it. Two assumptions could be lifted by
modelling more: `HashesDiffer`, with two templates of one hash, which the code does
not tell apart when it looks for the new ReplicaSet; and the fairness of a timed
pause, with the program that embeds the controller and takes the rollout up again.
