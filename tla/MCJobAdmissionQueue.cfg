CONSTANTS
    o1 = o1
    j1 = j1
    j2 = j2
    j3 = j3
    j4 = j4
    Orgs <- MCOrgs
    Jobs <- MCJobs
    OrgOf <- MCOrgOf
    MaxPending = 1
    PlanLimit = 4
    MaxInFlight = 2
SPECIFICATION Spec
SYMMETRY MCSymmetry
INVARIANTS
    QueueLimitKept
CHECK_DEADLOCK FALSE
