SPECIFICATION Spec
CONSTANTS
    MaxBrokers = 3
    MaxPartitions = 3
INVARIANT HeldByReplicationFactor
CHECK_DEADLOCK FALSE
