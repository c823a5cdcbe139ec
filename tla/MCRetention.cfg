CONSTANTS
    u1 = u1
    u2 = u2
    j1 = j1
    j2 = j2
    Uploads = {u1}
    Jobs = {j1, j2}
    NoUpload = NoUpload
    NoJob = NoJob
    MaxFaults = 1
SPECIFICATION FairSpec
INVARIANTS
    TypeOK
    NothingTakenEarly
    NothingOutOfReach
PROPERTIES
    DueGoes
CHECK_DEADLOCK FALSE
