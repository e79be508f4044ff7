------------------------- MODULE RolloutQueueProofs -------------------------
(***************************************************************************)
(* Proofs about the work queue, for any rollouts and any number of         *)
(* workers: one pass at a time for each rollout, and the queue and its     *)
(* workers implement RolloutPasses.                                        *)
(***************************************************************************)
EXTENDS RolloutQueue, TLAPS

-----------------------------------------------------------------------------
(***************************************************************************)
(* Sequences without duplicates                                            *)
(***************************************************************************)
Distinct(s) == \A i, j \in 1..Len(s) : s[i] = s[j] => i = j

\* The client's Append puts a key that is not queued behind the others.
LEMMA AppendDistinct ==
    ASSUME NEW S, NEW s \in Seq(S), NEW r \in S, Distinct(s),
           \A i \in 1..Len(s) : s[i] # r
    PROVE  /\ Append(s, r) \in Seq(S)
           /\ Distinct(Append(s, r))
           /\ \A i \in 1..Len(Append(s, r)) :
                 Append(s, r)[i] = r \/ \E j \in 1..Len(s) : Append(s, r)[i] = s[j]
BY DEF Distinct

\* Taking the head leaves the others, and not the head.
LEMMA TailDistinct ==
    ASSUME NEW S, NEW s \in Seq(S), s # <<>>, Distinct(s)
    PROVE  /\ Head(s) \in S /\ Tail(s) \in Seq(S)
           /\ Distinct(Tail(s))
           /\ 1 \in 1..Len(s) /\ Head(s) = s[1]
           /\ \A i \in 1..Len(Tail(s)) :
                 Tail(s)[i] # Head(s) /\ \E j \in 1..Len(s) : Tail(s)[i] = s[j]
<1>1. Len(s) \in Nat /\ Len(s) > 0
  OBVIOUS
<1>2. Head(s) = s[1] /\ Head(s) \in S /\ Tail(s) \in Seq(S) /\ Len(Tail(s)) = Len(s) - 1
  OBVIOUS
<1>3. \A i \in 1..Len(Tail(s)) : Tail(s)[i] = s[i + 1] /\ i + 1 \in 1..Len(s)
  BY <1>1, <1>2
<1> QED
  BY <1>1, <1>2, <1>3 DEF Distinct

-----------------------------------------------------------------------------
(***************************************************************************)
(* The invariant                                                           *)
(***************************************************************************)
LEMMA InitQueueInv == Init => QueueInv
<1> SUFFICES ASSUME Init PROVE QueueInv
  OBVIOUS
<1>1. (CHOOSE r \in Rollouts : TRUE) \in Rollouts
  BY QueueAssumption
<1>2. QueueTypeOK
  <2> DEFINE r == CHOOSE r \in Rollouts : TRUE
  <2>1. key = [w \in Workers |-> r] /\ r \in Rollouts
    BY <1>1 DEF Init
  <2> HIDE DEF r
  <2>2. key \in [Workers -> Rollouts]
    BY <2>1
  <2>3. pc \in [Workers -> Steps] /\ kind \in [Rollouts -> AllKinds]
    BY DEF Init, Steps, AllKinds
  <2>4. failures \in [Rollouts -> 0..MaxRequeues] /\ fresh \in [Workers -> BOOLEAN]
    BY QueueAssumption DEF Init
  <2>5. queue = <<>> /\ queue \in Seq(Rollouts)
    BY DEF Init
  <2>6. /\ synced \subseteq Rollouts /\ events \subseteq Rollouts /\ dirty \subseteq Rollouts
        /\ processing \subseteq Rollouts /\ waiting \subseteq Rollouts
        /\ changes \in Nat /\ faults \in Nat
    BY DEF Init
  <2> QED
    BY <2>2, <2>3, <2>4, <2>5, <2>6, Zenon DEF QueueTypeOK
<1>3. queue = <<>> /\ Busy = {} /\ \A w \in Workers : ~fresh[w]
  BY DEF Init, Busy
<1> QED
  BY <1>2, <1>3 DEF QueueInv, QueuedOnce, QueuedIsDirty, OnePassPerRollout, BusyProcesses,
                    FreshIsRunning

\* A key is added by whoever reports a change or ends a delay.
LEMMA AddKeepsQueue ==
    ASSUME QueueInv, NEW r \in Rollouts, Add(r)
    PROVE  /\ queue' \in Seq(Rollouts) /\ dirty' \subseteq Rollouts /\ processing' = processing
           /\ QueuedOnce' /\ QueuedIsDirty'
<1> USE DEF QueueInv, QueueTypeOK, Add
<1>1. CASE r \in dirty \cup processing
  BY <1>1 DEF QueuedOnce, QueuedIsDirty
<1>2. CASE r \notin dirty \cup processing
  <2>1. queue' = Append(queue, r) /\ \A i \in 1..Len(queue) : queue[i] # r
    BY <1>2 DEF QueuedIsDirty
  <2>2. /\ queue' \in Seq(Rollouts) /\ Distinct(queue')
        /\ \A i \in 1..Len(queue') :
              queue'[i] = r \/ \E j \in 1..Len(queue) : queue'[i] = queue[j]
    BY <2>1, AppendDistinct DEF QueuedOnce, Distinct
  <2> QED
    BY <1>2, <2>2 DEF QueuedOnce, QueuedIsDirty, Distinct
<1> QED
  BY <1>1, <1>2

LEMMA NextQueueInv == QueueInv /\ [Next]_vars => QueueInv'
<1> SUFFICES ASSUME QueueInv, [Next]_vars PROVE QueueInv'
  OBVIOUS
<1> USE DEF QueueInv
<1>1. ASSUME NEW r \in Rollouts, Change(r)
      PROVE  QueueInv'
  <2>1. QueueTypeOK' /\ FreshIsRunning'
    BY <1>1, QueueAssumption
    DEF Change, Outdate, QueueTypeOK, FreshIsRunning, wq, limiter
  <2> QED
    BY <1>1, <2>1
    DEF Change, wq, QueuedOnce, QueuedIsDirty, OnePassPerRollout, BusyProcesses, Busy
<1>2. ASSUME NEW r \in Rollouts, Enqueue(r)
      PROVE  QueueInv'
  <2>1. /\ queue' \in Seq(Rollouts) /\ dirty' \subseteq Rollouts /\ processing' = processing
        /\ QueuedOnce' /\ QueuedIsDirty'
    BY <1>2, AddKeepsQueue DEF Enqueue
  <2>2. UNCHANGED <<kind, synced, limiter, workers, bounds>> /\ events' = events \ {r}
    BY <1>2 DEF Enqueue
  <2> QED
    BY <2>1, <2>2
    DEF limiter, workers, bounds, QueueTypeOK, OnePassPerRollout, BusyProcesses, Busy, FreshIsRunning
<1>3. ASSUME NEW r \in Rollouts, DelayEnds(r)
      PROVE  QueueInv'
  <2>1. /\ queue' \in Seq(Rollouts) /\ dirty' \subseteq Rollouts /\ processing' = processing
        /\ QueuedOnce' /\ QueuedIsDirty'
    BY <1>3, AddKeepsQueue DEF DelayEnds
  <2>2. UNCHANGED <<store, failures, workers, bounds>> /\ waiting' = waiting \ {r}
    BY <1>3 DEF DelayEnds
  <2> QED
    BY <2>1, <2>2
    DEF store, workers, bounds, QueueTypeOK, OnePassPerRollout, BusyProcesses, Busy, FreshIsRunning
<1>4. ASSUME NEW w \in Workers, Get(w)
      PROVE  QueueInv'
  <2> DEFINE r == Head(queue)
  <2>1. /\ r \in Rollouts /\ queue' = Tail(queue) /\ queue' \in Seq(Rollouts) /\ QueuedOnce'
        /\ r \in dirty \ processing
        /\ \A i \in 1..Len(queue') :
              queue'[i] # r /\ \E j \in 1..Len(queue) : queue'[i] = queue[j]
    BY <1>4, TailDistinct DEF Get, QueueTypeOK, QueuedOnce, QueuedIsDirty, Distinct
  <2>2. /\ pc[w] = "get" /\ pc' = [pc EXCEPT ![w] = "read"] /\ key' = [key EXCEPT ![w] = r]
        /\ dirty' = dirty \ {r} /\ processing' = processing \cup {r}
        /\ UNCHANGED <<store, limiter, fresh, bounds>>
    BY <1>4 DEF Get, Goto
  <2> HIDE DEF r
  <2>3. QueueTypeOK'
    BY <2>1, <2>2 DEF store, limiter, bounds, QueueTypeOK, Steps
  <2>4. QueuedIsDirty'
    BY <2>1, <2>2 DEF QueuedIsDirty
  <2>5. Busy' = Busy \cup {w} /\ w \notin Busy /\ key'[w] = r
        /\ \A v \in Busy : key'[v] = key[v] /\ key[v] # r
    BY <2>1, <2>2 DEF Busy, QueueTypeOK, BusyProcesses
  <2>6. OnePassPerRollout' /\ BusyProcesses'
    BY <2>2, <2>5 DEF OnePassPerRollout, BusyProcesses
  <2>7. FreshIsRunning'
    BY <2>2 DEF FreshIsRunning, QueueTypeOK
  <2> QED
    BY <2>1, <2>3, <2>4, <2>6, <2>7
<1>5. ASSUME NEW w \in Workers, Read(w) \/ DefaultReplicas(w) \/ SyncSucceeds(w) \/ SyncFails(w)
                                \/ AddRateLimited(w) \/ Forget(w)
      PROVE  QueueInv'
  <2>1. UNCHANGED <<wq, key>> /\ \E s \in Steps \ {"get"} : pc' = [pc EXCEPT ![w] = s]
    BY <1>5 DEF Read, DefaultReplicas, SyncSucceeds, SyncFails, AddRateLimited, Forget, Goto, Steps
  <2>2. pc[w] # "get"
    BY <1>5 DEF Read, DefaultReplicas, SyncSucceeds, SyncFails, AddRateLimited, Forget
  <2>3. Busy' = Busy
    BY <2>1, <2>2 DEF Busy, QueueTypeOK
  <2>4. QueuedOnce' /\ QueuedIsDirty' /\ OnePassPerRollout' /\ BusyProcesses'
    BY <2>1, <2>3 DEF wq, QueuedOnce, QueuedIsDirty, OnePassPerRollout, BusyProcesses
  <2>5. FreshIsRunning'
    BY <1>5 DEF Read, DefaultReplicas, SyncSucceeds, SyncFails, AddRateLimited, Forget, Goto,
                Outdate, FreshIsRunning, QueueTypeOK
  <2>6. CASE Read(w)
    BY <2>1, <2>4, <2>5, <2>6 DEF Read, QueueTypeOK, store, limiter, bounds, wq
  <2>7. CASE DefaultReplicas(w)
    BY <2>1, <2>4, <2>5, <2>7 DEF DefaultReplicas, Outdate, QueueTypeOK, AllKinds, limiter, bounds, wq
  <2>8. CASE SyncSucceeds(w)
    BY <2>1, <2>4, <2>5, <2>8 DEF SyncSucceeds, QueueTypeOK, limiter, bounds, wq
  <2>9. CASE SyncFails(w)
    BY <2>1, <2>4, <2>5, <2>9 DEF SyncFails, QueueTypeOK, store, limiter, wq
  <2>10. CASE AddRateLimited(w)
    BY <2>1, <2>4, <2>5, <2>10, QueueAssumption
    DEF AddRateLimited, Requeues, QueueTypeOK, store, bounds, wq
  <2>11. CASE Forget(w)
    BY <2>1, <2>4, <2>5, <2>11, QueueAssumption DEF Forget, QueueTypeOK, store, bounds, wq
  <2> QED
    BY <1>5, <2>6, <2>7, <2>8, <2>9, <2>10, <2>11
<1>6. ASSUME NEW w \in Workers, Done(w)
      PROVE  QueueInv'
  <2> DEFINE r == key[w]
  <2>1. /\ pc[w] = "done" /\ pc' = [pc EXCEPT ![w] = "get"] /\ w \in Busy
        /\ r \in Rollouts /\ r \in processing /\ processing' = processing \ {r}
        /\ queue' = IF r \in dirty THEN Append(queue, r) ELSE queue
        /\ UNCHANGED <<store, dirty, limiter, key, fresh, bounds>>
    BY <1>6 DEF Done, Goto, Busy, BusyProcesses, QueueTypeOK
  <2>2. Busy' = Busy \ {w} /\ \A v \in Busy' : key[v] # r
    BY <2>1 DEF Busy, QueueTypeOK, OnePassPerRollout
  <2> HIDE DEF r
  <2>3. /\ queue' \in Seq(Rollouts) /\ QueuedOnce' /\ QueuedIsDirty'
    <3>1. \A i \in 1..Len(queue) : queue[i] # r
      BY <2>1 DEF QueuedIsDirty
    <3>2. CASE r \in dirty
      <4>1. /\ queue' \in Seq(Rollouts) /\ Distinct(queue')
            /\ \A i \in 1..Len(queue') :
                  queue'[i] = r \/ \E j \in 1..Len(queue) : queue'[i] = queue[j]
        BY <2>1, <3>1, <3>2, AppendDistinct DEF QueueTypeOK, QueuedOnce, Distinct
      <4> QED
        BY <2>1, <3>2, <4>1 DEF QueuedOnce, QueuedIsDirty, Distinct
    <3>3. CASE r \notin dirty
      BY <2>1, <3>1, <3>3 DEF QueueTypeOK, QueuedOnce, QueuedIsDirty
    <3> QED
      BY <3>2, <3>3
  <2>4. QueueTypeOK'
    BY <2>1, <2>3 DEF QueueTypeOK, Steps, store, limiter, bounds
  <2>5. OnePassPerRollout' /\ BusyProcesses'
    BY <2>1, <2>2 DEF OnePassPerRollout, BusyProcesses
  <2>6. FreshIsRunning'
    BY <2>1 DEF FreshIsRunning, QueueTypeOK
  <2> QED
    BY <2>3, <2>4, <2>5, <2>6
<1>7. CASE UNCHANGED vars
  BY <1>7 DEF vars, store, wq, limiter, workers, bounds, QueueTypeOK, QueuedOnce, QueuedIsDirty,
              OnePassPerRollout, BusyProcesses, Busy, FreshIsRunning
<1> QED
  BY <1>1, <1>2, <1>3, <1>4, <1>5, <1>6, <1>7 DEF Next, Work

\* Every key is queued once and only while nobody has it, two workers never have
\* the same, and only running passes have read a rollout.
THEOREM OnePassAtATime == Spec => []QueueInv
<1> QED
  BY InitQueueInv, NextQueueInv, PTL DEF Spec

-----------------------------------------------------------------------------
(***************************************************************************)
(* The queue implements the passes                                         *)
(***************************************************************************)
LEMMA InitPasses == Init => Passes!Init
BY DEF Init, Passes!Init, Due, Running, Fresh

\* What the steps of a worker w with key r do to the sets of the abstract machine,
\* from where the worker was to where it goes.
LEMMA WorkerMoves ==
    ASSUME QueueInv, NEW w \in Workers, NEW s \in Steps,
           pc' = [pc EXCEPT ![w] = s], key' = key, pc[w] # "get", s # "get"
    PROVE  /\ Running' = IF s \in {"sync", "defaulted"} THEN Running \cup {key[w]}
                                                        ELSE Running \ {key[w]}
           /\ key[w] \in Rollouts
           /\ key[w] \in Running <=> pc[w] \in {"sync", "defaulted"}
           /\ \A v \in Workers : v # w /\ pc[v] # "get" => key[v] # key[w]
<1>1. key[w] \in Rollouts /\ pc \in [Workers -> Steps]
  BY DEF QueueInv, QueueTypeOK
<1>2. \A v \in Workers : v # w /\ pc[v] # "get" => key[v] # key[w]
  BY DEF QueueInv, OnePassPerRollout, Busy
<1>3. \A v \in Workers : pc'[v] = IF v = w THEN s ELSE pc[v]
  BY <1>1
<1>4. \A x : x \in Running <=> \E v \in Workers : pc[v] \in {"sync", "defaulted"} /\ key[v] = x
  BY DEF Running
<1>5. \A x : x \in Running' <=> \E v \in Workers : pc'[v] \in {"sync", "defaulted"} /\ key[v] = x
  BY DEF Running
<1>6. key[w] \in Running <=> pc[w] \in {"sync", "defaulted"}
  BY <1>2, <1>4
<1>7. CASE s \in {"sync", "defaulted"}
  <2>1. \A x : x \in Running' <=> x \in Running \/ x = key[w]
    BY <1>2, <1>3, <1>4, <1>5, <1>7
  <2> QED
    BY <1>1, <1>2, <1>6, <1>7, <2>1
<1>8. CASE s \notin {"sync", "defaulted"}
  <2>1. \A x : x \in Running' <=> x \in Running /\ x # key[w]
    BY <1>2, <1>3, <1>4, <1>5, <1>8
  <2> QED
    BY <1>1, <1>2, <1>6, <1>8, <2>1
<1> QED
  BY <1>7, <1>8

\* A change outdates what the passes have read of the rollout.
LEMMA OutdateFresh ==
    ASSUME QueueInv, NEW r \in Rollouts, Outdate(r), key' = key
    PROVE  Fresh' = Fresh \ {r}
<1>1. \A v \in Workers : fresh'[v] <=> fresh[v] /\ key[v] # r
  BY Zenon DEF Outdate
<1>2. \A x : x \in Fresh' <=> x \in Fresh /\ x # r
  BY <1>1 DEF Fresh
<1> QED
  BY <1>2

\* A pass that ends has nothing read any more.
LEMMA EndFresh ==
    ASSUME QueueInv, NEW w \in Workers, pc[w] # "get",
           fresh' = [fresh EXCEPT ![w] = FALSE], key' = key
    PROVE  Fresh' = Fresh \ {key[w]} /\ (fresh[w] <=> key[w] \in Fresh)
<1>1. \A v \in Workers : v # w /\ fresh[v] => key[v] # key[w]
  BY DEF QueueInv, OnePassPerRollout, FreshIsRunning, Busy
<1>2. \A v \in Workers : fresh'[v] <=> fresh[v] /\ v # w
  <2>1. fresh \in [Workers -> BOOLEAN]
    BY DEF QueueInv, QueueTypeOK
  <2> QED
    BY <2>1, Zenon
<1>3. \A x : x \in Fresh <=> \E v \in Workers : fresh[v] /\ key[v] = x
  BY DEF Fresh
<1>4. \A x : x \in Fresh' <=> \E v \in Workers : fresh'[v] /\ key[v] = x
  BY DEF Fresh
<1>5. fresh[w] <=> key[w] \in Fresh
  BY <1>1, <1>3
<1>6. \A x : x \in Fresh' <=> x \in Fresh /\ x # key[w]
  BY <1>1, <1>2, <1>3, <1>4
<1> QED
  BY <1>5, <1>6

LEMMA NextPasses == QueueInv /\ QueueInv' /\ [Next]_vars => [Passes!Next]_Passes!vars
<1> SUFFICES ASSUME QueueInv, QueueInv', [Next]_vars
             PROVE  Passes!Next \/ UNCHANGED Passes!vars
  OBVIOUS
<1> USE DEF QueueInv, QueueTypeOK
<1>1. ASSUME NEW r \in Rollouts, Change(r)
      PROVE  Passes!Change(r)
  <2>1. Due' = Due \cup {r} /\ Running' = Running
    BY <1>1 DEF Change, Outdate, wq, limiter, Due, Running
  <2>2. Fresh' = Fresh \ {r}
    BY <1>1, OutdateFresh DEF Change
  <2> QED
    BY <1>1, <2>1, <2>2 DEF Change, Outdate, Passes!Change
<1>2. ASSUME NEW r \in Rollouts, Enqueue(r)
      PROVE  UNCHANGED Passes!vars
  BY <1>2 DEF Enqueue, Add, limiter, workers, Due, Running, Fresh, Passes!vars
<1>3. ASSUME NEW r \in Rollouts, DelayEnds(r)
      PROVE  UNCHANGED Passes!vars
  BY <1>3 DEF DelayEnds, Add, store, workers, Due, Running, Fresh, Passes!vars
<1>4. ASSUME NEW w \in Workers, Get(w)
      PROVE  UNCHANGED Passes!vars
  <2> DEFINE r == Head(queue)
  <2>1. /\ pc[w] = "get" /\ pc' = [pc EXCEPT ![w] = "read"] /\ key' = [key EXCEPT ![w] = r]
        /\ dirty' = dirty \ {r} /\ UNCHANGED <<store, limiter, fresh>>
    BY <1>4 DEF Get, Goto
  <2>2. r \in dirty
    BY <1>4, TailDistinct DEF Get, QueuedOnce, QueuedIsDirty, Distinct
  <2> HIDE DEF r
  <2>3. Due' = Due
    <3>1. {v \in Workers : pc[v] \in {"read", "requeue"}}'
            = {v \in Workers : pc[v] \in {"read", "requeue"}} \cup {w}
      BY <2>1
    <3> QED
      BY <2>1, <2>2, <3>1 DEF Due, store, limiter
  <2>4. Running' = Running
    BY <2>1 DEF Running
  <2>5. Fresh' = Fresh
    BY <2>1 DEF Fresh, FreshIsRunning
  <2> QED
    BY <2>1, <2>3, <2>4, <2>5 DEF Passes!vars, store
<1>5. ASSUME NEW w \in Workers, Read(w)
      PROVE  Passes!Start(key[w])
  <2>1. /\ pc[w] = "read" /\ pc' = [pc EXCEPT ![w] = "sync"]
        /\ fresh' = [fresh EXCEPT ![w] = TRUE] /\ UNCHANGED <<store, wq, limiter, key>>
    BY <1>5 DEF Read, Goto
  <2>2. /\ Running' = Running \cup {key[w]} /\ key[w] \in Rollouts /\ key[w] \notin Running
        /\ \A v \in Workers : v # w /\ pc[v] # "get" => key[v] # key[w]
    BY <2>1, WorkerMoves DEF Steps
  <2>3. key[w] \in Due /\ Due' \in {Due, Due \ {key[w]}}
    BY <2>1, <2>2 DEF Due, store, wq, limiter
  <2>4. Fresh' = Fresh \cup {key[w]}
    BY <2>1 DEF Fresh
  <2> QED
    BY <2>1, <2>2, <2>3, <2>4 DEF Passes!Start, store
<1>6. ASSUME NEW w \in Workers, DefaultReplicas(w)
      PROVE  Passes!Change(key[w])
  <2>1. /\ pc[w] = "sync" /\ pc' = [pc EXCEPT ![w] = "defaulted"] /\ Outdate(key[w])
        /\ UNCHANGED <<wq, limiter, key>>
    BY <1>6 DEF DefaultReplicas, Goto
  <2>2. Running' = Running \cup {key[w]} /\ key[w] \in Running
    BY <2>1, WorkerMoves DEF Steps
  <2>3. Due' = Due \cup {key[w]}
    BY <2>1 DEF Due, Outdate, wq, limiter
  <2>4. Fresh' = Fresh \ {key[w]}
    BY <2>1, OutdateFresh
  <2> QED
    BY <2>1, <2>2, <2>3, <2>4 DEF Passes!Change, Outdate
<1>7. ASSUME NEW w \in Workers, SyncSucceeds(w)
      PROVE  Passes!Succeed(key[w])
  <2>1. /\ pc[w] \in {"sync", "defaulted"} /\ pc' = [pc EXCEPT ![w] = "forget"]
        /\ synced' = IF fresh[w] THEN synced \cup {key[w]} ELSE synced
        /\ fresh' = [fresh EXCEPT ![w] = FALSE] /\ UNCHANGED <<events, wq, limiter, key>>
    BY <1>7 DEF SyncSucceeds, Goto
  <2>2. /\ Running' = Running \ {key[w]} /\ key[w] \in Rollouts /\ key[w] \in Running
        /\ \A v \in Workers : v # w /\ pc[v] # "get" => key[v] # key[w]
    BY <2>1, WorkerMoves DEF Steps
  <2>3. Due' = Due
    BY <2>1 DEF Due, wq, limiter
  <2>4. Fresh' = Fresh \ {key[w]} /\ (fresh[w] <=> key[w] \in Fresh)
    BY <2>1, EndFresh
  <2> QED
    BY <2>1, <2>2, <2>3, <2>4 DEF Passes!Succeed
<1>8. ASSUME NEW w \in Workers, SyncFails(w)
      PROVE  Passes!Fail(key[w])
  <2>1. /\ pc[w] = "sync" /\ pc' = [pc EXCEPT ![w] = "requeue"]
        /\ fresh' = [fresh EXCEPT ![w] = FALSE] /\ UNCHANGED <<store, wq, limiter, key>>
    BY <1>8 DEF SyncFails, Goto
  <2>2. /\ Running' = Running \ {key[w]} /\ key[w] \in Rollouts /\ key[w] \in Running
        /\ \A v \in Workers : v # w /\ pc[v] # "get" => key[v] # key[w]
    BY <2>1, WorkerMoves DEF Steps
  <2>3. Due' = Due \cup {key[w]}
    BY <2>1 DEF Due, store, wq, limiter
  <2>4. Fresh' = Fresh \ {key[w]}
    BY <2>1, EndFresh
  <2> QED
    BY <2>1, <2>2, <2>3, <2>4 DEF Passes!Fail, store
<1>9. ASSUME NEW w \in Workers, AddRateLimited(w)
      PROVE  UNCHANGED Passes!vars
  <2>1. /\ pc[w] = "requeue" /\ pc' = [pc EXCEPT ![w] = "done"]
        /\ waiting' = waiting \cup {key[w]} /\ UNCHANGED <<store, wq, key, fresh>>
    BY <1>9 DEF AddRateLimited, Goto
  <2>2. Due' = Due
    BY <2>1 DEF Due, store, wq
  <2>3. Running' = Running /\ Fresh' = Fresh
    BY <2>1 DEF Running, Fresh
  <2> QED
    BY <2>1, <2>2, <2>3 DEF Passes!vars, store
<1>10. ASSUME NEW w \in Workers, Forget(w)
       PROVE  UNCHANGED Passes!vars
  BY <1>10 DEF Forget, Goto, Due, Running, Fresh, Passes!vars, store, wq
<1>11. ASSUME NEW w \in Workers, Done(w)
       PROVE  UNCHANGED Passes!vars
  BY <1>11 DEF Done, Goto, Due, Running, Fresh, Passes!vars, store, limiter
<1>12. CASE UNCHANGED vars
  BY <1>12 DEF vars, store, wq, limiter, workers, Due, Running, Fresh, Passes!vars
<1>13. ASSUME NEW w \in Workers PROVE key[w] \in Rollouts
  OBVIOUS
<1> QED
  BY <1>1, <1>2, <1>3, <1>4, <1>5, <1>6, <1>7, <1>8, <1>9, <1>10, <1>11, <1>12, <1>13
  DEF Next, Work, Passes!Next

\* The queue with its workers is the abstract machine: a rollout has one pass at
\* a time, and is due for another when it changes or the pass fails.
THEOREM QueueImplementsPasses == Spec => ImplementsPasses
<1> QED
  BY InitPasses, NextPasses, InitQueueInv, NextQueueInv, PTL
  DEF Spec, ImplementsPasses, Passes!Spec

\* So that no change is ever forgotten, by the abstract machine's own invariant.
LEMMA InitNoChangeForgotten == Passes!Init => NoChangeForgotten
BY DEF Passes!Init, NoChangeForgotten, Passes!NoChangeForgotten

LEMMA NextNoChangeForgotten ==
    NoChangeForgotten /\ [Passes!Next]_Passes!vars => NoChangeForgotten'
<1> SUFFICES ASSUME NoChangeForgotten, [Passes!Next]_Passes!vars
             PROVE  NoChangeForgotten'
  OBVIOUS
<1> USE DEF NoChangeForgotten, Passes!NoChangeForgotten
<1>1. ASSUME NEW r \in Rollouts, Passes!Change(r) PROVE NoChangeForgotten'
  BY <1>1 DEF Passes!Change
<1>2. ASSUME NEW r \in Rollouts, Passes!Start(r) PROVE NoChangeForgotten'
  BY <1>2 DEF Passes!Start
<1>3. ASSUME NEW r \in Rollouts, Passes!Succeed(r) PROVE NoChangeForgotten'
  BY <1>3 DEF Passes!Succeed
<1>4. ASSUME NEW r \in Rollouts, Passes!Fail(r) PROVE NoChangeForgotten'
  BY <1>4 DEF Passes!Fail
<1>5. CASE UNCHANGED Passes!vars
  BY <1>5 DEF Passes!vars
<1> QED
  BY <1>1, <1>2, <1>3, <1>4, <1>5 DEF Passes!Next

\* No change of a rollout is lost between the store, the queue, the delays and
\* the passes, for any number of rollouts and workers.
THEOREM NothingIsForgotten == Spec => []NoChangeForgotten
<1> QED
  BY QueueImplementsPasses, InitNoChangeForgotten, NextNoChangeForgotten, PTL
  DEF ImplementsPasses, Passes!Spec

-----------------------------------------------------------------------------
(***************************************************************************)
(* Failures                                                                *)
(***************************************************************************)
\* A worker that is done with a key leaves it without failures, or due again:
\* a key that was added in the meantime stays dirty until this worker is done.
DoneIsSettled ==
    \A w \in Workers : pc[w] = "done" => failures[key[w]] = 0 \/ key[w] \in dirty \cup waiting

DelaysInv == DelaysEndWithSuccess /\ DoneIsSettled

LEMMA InitDelaysInv == Init => DelaysInv
BY DEF Init, DelaysInv, DelaysEndWithSuccess, DoneIsSettled

LEMMA NextDelaysInv == QueueInv /\ DelaysInv /\ [Next]_vars => DelaysInv'
<1> SUFFICES ASSUME QueueInv, DelaysInv, [Next]_vars PROVE DelaysInv'
  OBVIOUS
<1> USE DEF QueueInv, DelaysInv
<1>1. ASSUME NEW r \in Rollouts, Change(r)
      PROVE  DelaysInv'
  BY <1>1 DEF Change, wq, limiter, DelaysEndWithSuccess, DoneIsSettled
<1>2. ASSUME NEW r \in Rollouts, Enqueue(r) \/ DelayEnds(r)
      PROVE  DelaysInv'
  <2>1. /\ dirty' = dirty \cup {r} /\ waiting' \cup {r} = waiting \cup {r}
        /\ UNCHANGED <<processing, failures, pc, key>>
    BY <1>2 DEF Enqueue, DelayEnds, Add, limiter, workers
  <2> QED
    BY <2>1 DEF DelaysEndWithSuccess, DoneIsSettled
<1>3. ASSUME NEW w \in Workers, Get(w)
      PROVE  DelaysInv'
  <2> DEFINE r == Head(queue)
  <2>1. /\ queue # <<>> /\ pc[w] = "get" /\ pc' = [pc EXCEPT ![w] = "read"]
        /\ key' = [key EXCEPT ![w] = r]
        /\ dirty' = dirty \ {r} /\ processing' = processing \cup {r}
        /\ UNCHANGED limiter
    BY <1>3 DEF Get, Goto
  <2>2. r = queue[1] /\ 1 \in 1..Len(queue)
    BY <2>1 DEF QueueTypeOK
  <2>3. r \notin processing
    BY <2>2 DEF QueuedIsDirty
  <2> HIDE DEF r
  <2>4. DelaysEndWithSuccess'
    BY <2>1 DEF limiter, DelaysEndWithSuccess
  <2>5. ASSUME NEW v \in Workers, pc'[v] = "done"
        PROVE  failures'[key'[v]] = 0 \/ key'[v] \in dirty' \cup waiting'
    <3>1. v # w /\ pc[v] = "done" /\ key'[v] = key[v]
      BY <2>1, <2>5 DEF QueueTypeOK
    <3>2. key[v] # r
      BY <3>1, <2>3 DEF Busy, BusyProcesses
    <3> QED
      BY <2>1, <3>1, <3>2 DEF limiter, DoneIsSettled
  <2> QED
    BY <2>4, <2>5 DEF DoneIsSettled
<1>4. ASSUME NEW w \in Workers,
             Read(w) \/ DefaultReplicas(w) \/ SyncSucceeds(w) \/ SyncFails(w)
      PROVE  DelaysInv'
  <2>1. UNCHANGED <<dirty, processing, waiting, failures, key>>
    BY <1>4 DEF Read, DefaultReplicas, SyncSucceeds, SyncFails, wq, limiter
  <2>2. \E s \in Steps \ {"done"} : pc' = [pc EXCEPT ![w] = s]
    BY <1>4 DEF Read, DefaultReplicas, SyncSucceeds, SyncFails, Goto, Steps
  <2> QED
    BY <2>1, <2>2 DEF QueueTypeOK, DelaysEndWithSuccess, DoneIsSettled
<1>5. ASSUME NEW w \in Workers, AddRateLimited(w)
      PROVE  DelaysInv'
  <2>1. /\ pc[w] = "requeue" /\ pc' = [pc EXCEPT ![w] = "done"]
        /\ waiting' = waiting \cup {key[w]}
        /\ failures' = [failures EXCEPT ![key[w]] = Requeues(key[w])]
        /\ UNCHANGED <<dirty, processing, key>>
    BY <1>5 DEF AddRateLimited, Goto, wq
  <2>2. \A r \in Rollouts \ {key[w]} : failures'[r] = failures[r]
    BY <2>1 DEF QueueTypeOK
  <2> QED
    BY <2>1, <2>2 DEF QueueTypeOK, DelaysEndWithSuccess, DoneIsSettled
<1>6. ASSUME NEW w \in Workers, Forget(w)
      PROVE  DelaysInv'
  <2>1. /\ pc' = [pc EXCEPT ![w] = "done"]
        /\ failures' = [failures EXCEPT ![key[w]] = 0]
        /\ UNCHANGED <<dirty, processing, waiting, key>>
    BY <1>6 DEF Forget, Goto, wq
  <2>2. \A r \in Rollouts : failures'[r] \in {0, failures[r]}
    BY <2>1 DEF QueueTypeOK
  <2>3. failures'[key[w]] = 0
    BY <2>1 DEF QueueTypeOK
  <2> QED
    BY <2>1, <2>2, <2>3 DEF QueueTypeOK, DelaysEndWithSuccess, DoneIsSettled
<1>7. ASSUME NEW w \in Workers, Done(w)
      PROVE  DelaysInv'
  <2>1. /\ pc[w] = "done" /\ pc' = [pc EXCEPT ![w] = "get"]
        /\ processing' = processing \ {key[w]}
        /\ UNCHANGED <<dirty, waiting, failures, key>>
    BY <1>7 DEF Done, Goto, limiter
  <2>2. key[w] \in Rollouts /\ (failures[key[w]] = 0 \/ key[w] \in dirty \cup waiting)
    BY <2>1 DEF QueueTypeOK, DoneIsSettled
  <2> QED
    BY <2>1, <2>2 DEF QueueTypeOK, DelaysEndWithSuccess, DoneIsSettled
<1>8. CASE UNCHANGED vars
  BY <1>8 DEF vars, wq, limiter, workers, DelaysEndWithSuccess, DoneIsSettled
<1> QED
  BY <1>1, <1>2, <1>3, <1>4, <1>5, <1>6, <1>7, <1>8 DEF Next, Work

\* A rollout with failures on its count is on its way to another pass, however
\* often it changes and whichever workers have it: only a pass that succeeds
\* lets go of it, and forgets the failures first.
THEOREM FailuresEndWithSuccess == Spec => []DelaysEndWithSuccess
<1>1. DelaysInv => DelaysEndWithSuccess
  BY DEF DelaysInv
<1> QED
  BY <1>1, InitQueueInv, NextQueueInv, InitDelaysInv, NextDelaysInv, PTL DEF Spec
=============================================================================
