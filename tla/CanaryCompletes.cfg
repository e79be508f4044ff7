CONSTANTS
    Nil = Nil
    v1 = v1
    v2 = v2
    v3 = v3
    Templates = {v1, v2}
    StepPlans <- BothPauses
    ReplicaCounts = {2}
    Surge <- OnePod
    Unavailable <- ZeroPods
    HistoryLimit = 0
    Retired = 1
    Deployed = {v1}
    Locking = TRUE
    MaxEdits = 2
    MaxFaults = 1
SPECIFICATION FairSpec
INVARIANTS TypeOK StableExists NewHasGreatestRevision IInv LimitsInv
PROPERTIES Completes
