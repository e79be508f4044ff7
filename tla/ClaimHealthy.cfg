CONSTANTS
    Nil = Nil
    v1 = v1
    v2 = v2
    Templates = {v1, v2}
    Plan <- WeightThenPause
    Replicas = 1
    Deadline = 1
    MaxEdits = 2
    MaxPodEvents = 2
    MaxFailures = 1
SPECIFICATION Spec
INVARIANTS HealthyIsOfThisTemplate
