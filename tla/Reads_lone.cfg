SPECIFICATION Spec
CONSTANTS
    Readers = {r1, r2}
    Lengths = {9, 12}
    Limit = 20
    MaxAppends = 2
INVARIANT LoneReadExact
PROPERTIES
    AppendCompletes
    ReadReturns
