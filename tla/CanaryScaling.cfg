CONSTANTS
    Nil = Nil
    v1 = v1
    v2 = v2
    v3 = v3
    Templates = {v1, v2, v3}
    StepPlans <- NoPause
    ReplicaCounts = {1, 2}
    Surge <- Half
    Unavailable <- OnePod
    HistoryLimit = 2
    Retired = 0
    Deployed = {v1}
    Locking = TRUE
    MaxEdits = 2
    MaxFaults = 1
SYMMETRY NewTemplates
SPECIFICATION Spec
PROPERTIES OldNeverScaledUp NewShrinksOnlyToRolloutSize ScaleUpWithinSurge PassKeepsMinAvailable StableScaledDownLast
