SPECIFICATION Spec
CONSTANTS
    Lengths = {2, 12}
    RolloverLimits = {0, 20}
    MaxSize = 10
    FailPoints = {0}
    CrashPoints = {0, 1, 2, 4}
    MaxAppends = 4
INVARIANTS
    TypeOK
    AckedReadable
    DurableInv
PROPERTIES
    ImplementsMessageLog
