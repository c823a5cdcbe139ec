CONSTANTS
    o1 = o1
    j1 = j1
    j2 = j2
    j3 = j3
    j4 = j4
    Orgs <- MCOrgs
    Jobs <- MCJobs
    OrgOf <- MCOrgOf
    MaxPending = 2
    PlanLimit = 1
    MaxInFlight = 1
SPECIFICATION Spec
SYMMETRY MCSymmetry
INVARIANTS
    PlanLimitKept
CHECK_DEADLOCK FALSE
