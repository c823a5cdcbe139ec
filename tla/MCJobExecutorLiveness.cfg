CONSTANTS
    o1 = o1
    o2 = o2
    j1 = j1
    j2 = j2
    j3 = j3
    Orgs <- MCOrgs
    Jobs <- MCJobs
    OrgOf <- MCOrgOf
    NoJob = NoJob
    MaxRuns = 1
    Marks = {}
    MaxRestarts = 1
SPECIFICATION FairSpec
INVARIANTS
    RunsBounded
PROPERTIES
    QueuedJobEnds
CHECK_DEADLOCK FALSE
