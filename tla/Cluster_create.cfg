SPECIFICATION Spec
CONSTANTS
    Topics = {t1, t2, t3}
    NumBrokers = 2
    ReplicationFactor = 1
    NumPartitions = 1
    MaxHandlers = 2
    MaxRequests = 1
    MaxCrashes = 0
    IOFails = FALSE
INVARIANTS
    FirstTopicEverywhere
    MetadataIsServed
