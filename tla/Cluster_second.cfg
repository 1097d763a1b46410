SPECIFICATION Spec
CONSTANTS
    Topics = {t1, t2}
    NumBrokers = 2
    ReplicationFactor = 1
    NumPartitions = 2
    MaxHandlers = 1
    MaxRequests = 1
    MaxCrashes = 0
    IOFails = FALSE
INVARIANT EveryTopicEverywhere
