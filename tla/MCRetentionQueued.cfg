CONSTANTS
    u1 = u1
    u2 = u2
    j1 = j1
    j2 = j2
    Uploads = {u1}
    Jobs = {j1}
    NoUpload = NoUpload
    NoJob = NoJob
    MaxFaults = 0
SPECIFICATION Spec
INVARIANTS
    KeptWhileQueued
CHECK_DEADLOCK FALSE
