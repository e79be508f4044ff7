SPECIFICATION FairSpec
CONSTANTS
    v1 = v1
    v2 = v2
    a0 = a0
    a1 = a1
    a2 = a2
    a3 = a3
    a4 = a4
    b0 = b0
    b1 = b1
    b2 = b2
    b3 = b3
    b4 = b4
    Nil = Nil
    Templates = {v1, v2}
    Deployed = {v1}
    Names = {a0, a1, a2, a3, a4, b0, b1, b2, b3, b4}
    Hash <- MCHash
    Foreign = {b0}
    Keys = {"track"}
    Values = {"beta"}
    Metadata <- MCMetadata
    Leader = leader
    Former = {former}
    Pods = {1, 2}
    MaxDisturbances = 2
    MaxCollisions = 4
INVARIANTS ReplicaSetsInv CollisionsHaveCauses NewIsWanted OneReplicaSetPerTemplate PodsFollowReplicaSets
PROPERTIES RolloutSettles
