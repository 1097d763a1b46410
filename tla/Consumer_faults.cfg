SPECIFICATION Spec
CONSTANTS
    Brokers = {0, 1}
    Partitions = {0, 1}
    Leader <- EachItsOwn
    Bootstrap = 0
    ChanCap = 1
    Backlog <- TwoAndNone
    MaxMessages <- TwoAndOne
    MaxCrashes = 1
    MaxBrokerFaults = 1
INVARIANTS
    CommittedIsDelivered
    LossBounded
    DeliveredInOrder
PROPERTIES
    CommitsMoveForward
    ReceivedUnlessCut
