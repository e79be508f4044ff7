---------------------------- MODULE RolloutPasses ----------------------------
(***************************************************************************)
(* What the controller promises of the passes over many rollouts, with no  *)
(* word of queues and workers: one pass at a time for each rollout, and a  *)
(* rollout that was changed, or whose pass failed, is due for another.     *)
(***************************************************************************)
CONSTANT Rollouts

VARIABLES
    synced,     \* the rollouts whose last change a successful pass has seen
    due,        \* the rollouts that are due for a pass
    running,    \* the rollouts that a pass is running for
    fresh       \* those that have not changed since that pass read them

vars == <<synced, due, running, fresh>>

Init == synced = Rollouts /\ due = {} /\ running = {} /\ fresh = {}

\* Something about the rollout changes.
Change(r) ==
    /\ synced' = synced \ {r} /\ due' = due \cup {r} /\ fresh' = fresh \ {r}
    /\ UNCHANGED running

Start(r) ==
    /\ r \in due \ running
    /\ due' \in {due, due \ {r}}
    /\ running' = running \cup {r} /\ fresh' = fresh \cup {r}
    /\ UNCHANGED synced

Succeed(r) ==
    /\ r \in running
    /\ running' = running \ {r} /\ fresh' = fresh \ {r}
    /\ synced' = IF r \in fresh THEN synced \cup {r} ELSE synced
    /\ UNCHANGED due

Fail(r) ==
    /\ r \in running
    /\ running' = running \ {r} /\ fresh' = fresh \ {r}
    /\ due' = due \cup {r}
    /\ UNCHANGED synced

Next == \E r \in Rollouts : Change(r) \/ Start(r) \/ Succeed(r) \/ Fail(r)

Spec == Init /\ [][Next]_vars

\* A change is never forgotten.
NoChangeForgotten == Rollouts \ synced \subseteq due \cup fresh
=============================================================================
