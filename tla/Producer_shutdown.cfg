SPECIFICATION Spec
CONSTANTS
    k1 = k1
    k2 = k2
    Producer = producer
    Admin = admin
    Brokers = {0, 1}
    Links <- ThreeLinks
    Keys = {k1, k2}
    Hash <- TwoHashes
    NumPartitions = 2
    Leader <- EachItsOwn
    Bootstrap = 0
    MaxSends = 2
    Fallible = {0}
    MaxFaults = 1
INVARIANTS
    TypeOK
    AckedAtLeader
    AtMostOnce
    PerKeyOrder
PROPERTIES
    ShutdownCompletes
    ClientsReturn
