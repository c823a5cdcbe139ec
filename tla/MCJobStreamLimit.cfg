CONSTANTS
    k1 = k1
    s1 = s1
    s2 = s2
    s3 = s3
    s4 = s4
    Keys <- MCKeys
    Streams <- MCQuartet
    KeyOf <- MCKeyOf
    PerKey = 2
    Total = 2
    Percents = {0}
    NoRow = NoRow
SPECIFICATION Spec
SYMMETRY MCSymmetry
INVARIANTS
    StreamLimitKept
CHECK_DEADLOCK FALSE
