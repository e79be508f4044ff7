CONSTANTS
    Nil = Nil
    MaxReplicas = 20
    Surges = {0, 1, 2}
SPECIFICATION Spec
INVARIANTS MathTypeOK ClosestToWeight BothGetPods  LimitsMakeRoom
PROPERTIES GreaterWeightNeverShrinks
CHECK_DEADLOCK FALSE
