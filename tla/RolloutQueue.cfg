CONSTANTS
    r1 = r1
    r2 = r2
    w1 = w1
    w2 = w2
    Rollouts = {r1, r2}
    Workers = {w1, w2}
    Kinds = {"valid", "noReplicas", "invalid", "deleting", "gone"}
    MaxRequeues = 2
    MaxChanges = 3
    MaxFaults = 1
SPECIFICATION FairSpec
INVARIANTS QueueInv DelaysEndWithSuccess NoChangeForgotten
PROPERTIES ImplementsPasses EveryChangeIsSeen
CHECK_DEADLOCK FALSE
