SPECIFICATION CopySpec
CONSTANTS
    Lengths = {2, 12}
    RolloverLimits = {0, 20}
    MaxSize = 10
    FailPoints = {0, 1, 2, 3}
    CrashPoints = {0, 1, 2, 3, 4}
    MaxAppends = 4
    ReplicaFaults = {0, 1, 2, 4}
    LeaderEnd = 4
    MaxBatch = 2
INVARIANTS
    ReplicaAgrees
    UnbrokenServed
PROPERTIES
    StableReads
