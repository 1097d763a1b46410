SPECIFICATION OffsetSpec
CONSTANTS
    c1 = c1
    c2 = c2
    k1 = k1
    k2 = k2
    Committers = {c1, c2}
    Keys = {k1, k2}
    KeyOf <- OwnKey
    MaxOffset = 1
    Lengths = {1}
    MaxSize = 100
    FailPoints = {0}
    RolloverLimits = {18}
    CrashPoints = {}
    MaxAppends = 4
INVARIANTS
    AckedCommitSurvives
