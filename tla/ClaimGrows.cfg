CONSTANTS
    Nil = Nil
    v1 = v1
    v2 = v2
    v3 = v3
    Templates = {v1, v2}
    StepPlans <- OnePlan
    ReplicaCounts = {2}
    Surge <- OnePod
    Unavailable <- ZeroPods
    HistoryLimit = 10
    Retired = 5
    Deployed = {v1}
    Locking = TRUE
    MaxEdits = 1
    MaxFaults = 0
SPECIFICATION FairSpec
PROPERTIES Completes
