CONSTANTS
    Nil = Nil
    v1 = v1
    v2 = v2
    v3 = v3
    Templates = {v1, v2}
    StepPlans <- SeveralPlans
    ReplicaCounts = {2}
    Surge <- OnePod
    Unavailable <- OnePod
    HistoryLimit = 10
    Retired = 0
    Deployed = {v1, Nil}
    Locking = TRUE
    MaxEdits = 2
    MaxFaults = 0
SPECIFICATION Spec
INVARIANTS StatusFitsPlan StepsInv UserEndedPause
PROPERTIES StepsInOrder PauseHoldsUntilOver EditsAreKept PromotesWantedTemplate ImplementsSteps
