CONSTANTS
    Nil = Nil
    v1 = v1
    v2 = v2
    v3 = v3
    Templates = {v1, v2, v3}
    StepPlans <- OnePlan
    ReplicaCounts = {2}
    Surge <- OnePod
    Unavailable <- ZeroPods
    HistoryLimit = 10
    Retired = 0
    Deployed = {v1}
    Locking = TRUE
    MaxEdits = 2
    MaxFaults = 0
SPECIFICATION Spec
PROPERTIES ScaleDownKeepsMinAvailable
