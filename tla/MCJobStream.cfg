CONSTANTS
    k1 = k1
    s1 = s1
    s2 = s2
    s3 = s3
    s4 = s4
    Keys <- MCKeys
    Streams <- MCPair
    KeyOf <- MCKeyOf
    PerKey = 2
    Total = 2
    Percents = {0}
    NoRow = NoRow
SPECIFICATION FairSpec
INVARIANTS
    TypeOK
    NoMissedWakeup
    SlotGivenBack
PROPERTIES
    StreamEnds
CHECK_DEADLOCK FALSE
