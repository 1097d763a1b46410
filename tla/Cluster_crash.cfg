SPECIFICATION Spec
CONSTANTS
    Topics = {t1}
    NumBrokers = 2
    ReplicationFactor = 1
    NumPartitions = 2
    MaxHandlers = 2
    MaxRequests = 2
    MaxCrashes = 1
    IOFails = TRUE
INVARIANTS
    TypeOK
    AckedTopicSurvives
PROPERTY CreateTerminates
