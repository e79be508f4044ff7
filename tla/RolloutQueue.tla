---------------------------- MODULE RolloutQueue ----------------------------
(***************************************************************************)
(* The work queue of the controller and the workers that serve it.  The    *)
(* program that embeds the controller adds the key of a rollout to the     *)
(* queue some time after the rollout has changed.  A worker takes a key,   *)
(* runs a pass for it (syncHandler), requeues it with a delay when the     *)
(* pass fails or panics, and forgets its failures otherwise.               *)
(*                                                                         *)
(* The queue is client-go's: a key that is added while a worker has it is  *)
(* queued when the worker is done.  What a pass does is in CanaryRollout:  *)
(* here it is one step that reads the rollout and one that ends the pass.  *)
(* The 5 minutes after which Run starts a worker anew never begin, since   *)
(* RunWorker returns only when the queue is shut down, and nothing does    *)
(* that.                                                                   *)
(***************************************************************************)
EXTENDS Integers, Sequences

CONSTANTS
    Rollouts,       \* the keys of the rollouts
    Workers,        \* the workers, threadiness of Run
    Kinds,          \* the kinds of rollouts that occur
    MaxRequeues,    \* the failures from which the delay is the greatest
    MaxChanges,     \* bound on changes of rollouts
    MaxFaults       \* bound on the errors of passes that might succeed

\* Rollouts that the pass works on, lack .spec.replicas, fail the validation,
\* are marked for deletion, or do not exist any more.
AllKinds == {"valid", "noReplicas", "invalid", "deleting", "gone"}

ASSUME QueueAssumption ==
    /\ Rollouts # {}
    /\ Kinds \subseteq AllKinds /\ "valid" \in Kinds
    /\ MaxRequeues \in Nat \ {0} /\ MaxChanges \in Nat /\ MaxFaults \in Nat

VARIABLES
    kind,           \* of each rollout
    synced,         \* the rollouts whose last change a successful pass has seen
    events,         \* the rollouts that changed, and are yet to be added
    queue,          \* the keys that wait for a worker, in order
    dirty,          \* the keys that were added and not yet taken
    processing,     \* the keys that workers have
    waiting,        \* the keys that are added when their delay is over
    failures,       \* the rate limiter's count for each key
    pc, key, fresh, \* each worker's next step, its key, whether it has read the last change
    changes, faults

store   == <<kind, synced, events>>
wq      == <<queue, dirty, processing>>
limiter == <<waiting, failures>>
workers == <<pc, key, fresh>>
bounds  == <<changes, faults>>
vars    == <<store, wq, limiter, workers, bounds>>

Init ==
    /\ kind = [r \in Rollouts |-> "valid"] /\ synced = Rollouts /\ events = {}
    /\ queue = <<>> /\ dirty = {} /\ processing = {}
    /\ waiting = {} /\ failures = [r \in Rollouts |-> 0]
    /\ pc = [w \in Workers |-> "get"]
    /\ key = [w \in Workers |-> CHOOSE r \in Rollouts : TRUE]
    /\ fresh = [w \in Workers |-> FALSE]
    /\ changes = 0 /\ faults = 0

Goto(w, step) == pc' = [pc EXCEPT ![w] = step]

-----------------------------------------------------------------------------
(***************************************************************************)
(* The queue of client-go                                                  *)
(***************************************************************************)
Add(r) ==
    /\ dirty' = dirty \cup {r}
    /\ queue' = IF r \in dirty \cup processing THEN queue ELSE Append(queue, r)
    /\ UNCHANGED processing

\* The delay of a key is over.
DelayEnds(r) ==
    /\ r \in waiting
    /\ waiting' = waiting \ {r}
    /\ Add(r)
    /\ UNCHANGED <<store, failures, workers, bounds>>

-----------------------------------------------------------------------------
(***************************************************************************)
(* The rollouts, and the program that embeds the controller                *)
(***************************************************************************)
\* A change that passes under way have not read.
Outdate(r) ==
    /\ synced' = synced \ {r}
    /\ events' = events \cup {r}
    /\ fresh' = [w \in Workers |-> fresh[w] /\ key[w] # r]

Change(r) ==
    /\ changes < MaxChanges
    /\ changes' = changes + 1
    /\ \E k \in Kinds : kind' = [kind EXCEPT ![r] = k]
    /\ Outdate(r)
    /\ UNCHANGED <<wq, limiter, pc, key, faults>>

Enqueue(r) ==
    /\ r \in events
    /\ events' = events \ {r}
    /\ Add(r)
    /\ UNCHANGED <<kind, synced, limiter, workers, bounds>>

-----------------------------------------------------------------------------
(***************************************************************************)
(* processNextWorkItem                                                     *)
(***************************************************************************)
\* Mutant: Done is called at once, and not when the pass is over.
GetAndDone(w) ==
    /\ pc[w] = "get" /\ queue # <<>>
    /\ key' = [key EXCEPT ![w] = Head(queue)]
    /\ queue' = Tail(queue)
    /\ dirty' = dirty \ {Head(queue)}
    /\ Goto(w, "read")
    /\ UNCHANGED <<processing, store, limiter, fresh, bounds>>
Get(w) ==
    /\ pc[w] = "get" /\ queue # <<>>
    /\ key' = [key EXCEPT ![w] = Head(queue)]
    /\ queue' = Tail(queue)
    /\ dirty' = dirty \ {Head(queue)}
    /\ processing' = processing \cup {Head(queue)}
    /\ Goto(w, "read")
    /\ UNCHANGED <<store, limiter, fresh, bounds>>

\* syncHandler gets the rollout.
Read(w) ==
    /\ pc[w] = "read"
    /\ fresh' = [fresh EXCEPT ![w] = TRUE]
    /\ Goto(w, "sync")
    /\ UNCHANGED <<store, wq, limiter, key, bounds>>

\* A missing .spec.replicas is set, and the pass has nothing else to do.
DefaultReplicas(w) ==
    /\ pc[w] = "sync" /\ kind[key[w]] = "noReplicas" /\ fresh[w]
    /\ kind' = [kind EXCEPT ![key[w]] = "valid"]
    /\ Outdate(key[w])
    /\ Goto(w, "defaulted")
    /\ UNCHANGED <<wq, limiter, key, bounds>>

\* The pass returns nil: its work is done, the rollout is marked for deletion,
\* or has got its replicas.  A pass that has not read the last change may end
\* in any way.
SyncSucceeds(w) ==
    /\ \/ pc[w] = "defaulted"
       \/ pc[w] = "sync" /\ (fresh[w] => kind[key[w]] \in {"valid", "deleting"})
    /\ synced' = IF fresh[w] THEN synced \cup {key[w]} ELSE synced
    /\ fresh' = [fresh EXCEPT ![w] = FALSE]
    /\ Goto(w, "forget")
    /\ UNCHANGED <<kind, events, wq, limiter, key, bounds>>

\* The pass returns an error: the rollout does not exist, an invalid one made
\* it panic, its copy was stale, or a call has failed, that of Read included.
\* Mutant: the panic is recovered, and not turned into an error.
FailsOrPanics(w) ==
    /\ pc[w] = "sync" /\ kind[key[w]] \in {"gone", "invalid"}
    /\ fresh' = [fresh EXCEPT ![w] = FALSE]
    /\ Goto(w, IF kind[key[w]] = "invalid" THEN "forget" ELSE "requeue")
    /\ UNCHANGED <<store, wq, limiter, key, bounds>>
SyncFails(w) ==
    /\ pc[w] = "sync"
    /\ IF ~fresh[w] \/ kind[key[w]] \in {"gone", "invalid"} THEN UNCHANGED faults
       ELSE faults < MaxFaults /\ faults' = faults + 1
    /\ fresh' = [fresh EXCEPT ![w] = FALSE]
    /\ Goto(w, "requeue")
    /\ UNCHANGED <<store, wq, limiter, key, changes>>

\* The count of a key whose pass has failed.
Requeues(r) == IF failures[r] < MaxRequeues THEN failures[r] + 1 ELSE MaxRequeues

\* Mutant: the failed key is not added again.
CountFailure(w) ==
    /\ pc[w] = "requeue"
    /\ failures' = [failures EXCEPT ![key[w]] = Requeues(key[w])]
    /\ Goto(w, "done")
    /\ UNCHANGED <<store, wq, waiting, key, fresh, bounds>>
AddRateLimited(w) ==
    /\ pc[w] = "requeue"
    /\ waiting' = waiting \cup {key[w]}
    /\ failures' = [failures EXCEPT ![key[w]] = Requeues(key[w])]
    /\ Goto(w, "done")
    /\ UNCHANGED <<store, wq, key, fresh, bounds>>

\* Mutant: the failures are not forgotten.
SkipForget(w) ==
    /\ pc[w] = "forget"
    /\ Goto(w, "done")
    /\ UNCHANGED <<store, wq, limiter, key, fresh, bounds>>
Forget(w) ==
    /\ pc[w] = "forget"
    /\ failures' = [failures EXCEPT ![key[w]] = 0]
    /\ Goto(w, "done")
    /\ UNCHANGED <<store, wq, waiting, key, fresh, bounds>>

\* The deferred Done: a key that was added in the meantime is queued.
\* Mutant: it is not.
DoneAnyway(w) ==
    /\ pc[w] = "done"
    /\ processing' = processing \ {key[w]}
    /\ Goto(w, "get")
    /\ UNCHANGED <<store, queue, dirty, limiter, key, fresh, bounds>>
Done(w) ==
    /\ pc[w] = "done"
    /\ processing' = processing \ {key[w]}
    /\ queue' = IF key[w] \in dirty THEN Append(queue, key[w]) ELSE queue
    /\ Goto(w, "get")
    /\ UNCHANGED <<store, dirty, limiter, key, fresh, bounds>>

-----------------------------------------------------------------------------
Work(w) ==
    \/ Get(w) \/ Read(w) \/ DefaultReplicas(w)
    \/ SyncSucceeds(w) \/ SyncFails(w)
    \/ AddRateLimited(w) \/ Forget(w) \/ Done(w)

Next ==
    \/ \E w \in Workers : Work(w)
    \/ \E r \in Rollouts : Change(r) \/ Enqueue(r) \/ DelayEnds(r)

\* Workers keep working, delays end, and changes are reported at last.
Fairness ==
    /\ \A w \in Workers : WF_vars(Work(w))
    /\ \A r \in Rollouts : WF_vars(Enqueue(r)) /\ WF_vars(DelayEnds(r))

Spec     == Init /\ [][Next]_vars
FairSpec == Spec /\ Fairness

-----------------------------------------------------------------------------
(***************************************************************************)
(* Properties                                                              *)
(***************************************************************************)
Steps == {"get", "read", "sync", "defaulted", "requeue", "forget", "done"}

QueueTypeOK ==
    /\ kind \in [Rollouts -> AllKinds]
    /\ synced \subseteq Rollouts /\ events \subseteq Rollouts
    /\ queue \in Seq(Rollouts) /\ dirty \subseteq Rollouts /\ processing \subseteq Rollouts
    /\ waiting \subseteq Rollouts /\ failures \in [Rollouts -> 0..MaxRequeues]
    /\ pc \in [Workers -> Steps] /\ key \in [Workers -> Rollouts]
    /\ fresh \in [Workers -> BOOLEAN]
    /\ changes \in Nat /\ faults \in Nat

Busy == {w \in Workers : pc[w] # "get"}

\* Two workers never have the same rollout, however often it is added, so that
\* two passes never work on one rollout.
OnePassPerRollout == \A v, w \in Busy : key[v] = key[w] => v = w

\* A rollout with failures on its count is on its way to another pass: a pass
\* that succeeds ends the delays, and the next failure begins with the shortest.
DelaysEndWithSuccess ==
    \A r \in Rollouts : failures[r] > 0 => r \in dirty \cup processing \cup waiting

\* Each key is queued once, and no worker has it then.  Busy workers have keys
\* that are being processed, and have read a rollout only during a pass.
QueuedOnce     == \A i, j \in 1..Len(queue) : queue[i] = queue[j] => i = j
QueuedIsDirty  == \A i \in 1..Len(queue) : queue[i] \in dirty \ processing
BusyProcesses  == \A w \in Busy : key[w] \in processing
FreshIsRunning == \A w \in Workers : fresh[w] => pc[w] = "sync"

QueueInv == QueueTypeOK /\ QueuedOnce /\ QueuedIsDirty /\ OnePassPerRollout
            /\ BusyProcesses /\ FreshIsRunning

\* What is due, from the change of a rollout to the read of a pass.
Due     == events \cup dirty \cup waiting
           \cup {key[w] : w \in {v \in Workers : pc[v] \in {"read", "requeue"}}}
Running == {key[w] : w \in {v \in Workers : pc[v] \in {"sync", "defaulted"}}}
Fresh   == {key[w] : w \in {v \in Workers : fresh[v]}}

Passes == INSTANCE RolloutPasses WITH due <- Due, running <- Running, fresh <- Fresh

\* The queue and its workers are the passes of RolloutPasses.
ImplementsPasses == Passes!Spec

\* No change is lost between the store, the queue, the delays and the passes.
NoChangeForgotten == Passes!NoChangeForgotten

\* However changes, failures and other rollouts interfere, the last change of a
\* rollout is seen by a pass that succeeds, unless every pass must fail.
EveryChangeIsSeen ==
    \A r \in Rollouts :
        <>[](r \in synced) \/ <>[](kind[r] \in {"gone", "invalid"})
=============================================================================
