\* Four jobs of one organization and two requests at once; three uploads, two
\* at once, and a quota of two units; two calls and three places in the queue;
\* three callers and two buckets; up to five calls of an agent.
SPECIFICATION DoorSpec
CONSTANTS
    o1 = o1
    j1 = j1
    j2 = j2
    j3 = j3
    j4 = j4
    Orgs <- MCOrgs
    Jobs <- MCJobs
    OrgOf <- MCOrgOf
    MaxPending = 2
    PlanLimit = 3
    MaxInFlight = 2
    Posts = {u1, u2, u3}
    PostedFiles <- MCPostedFiles
    Quota = 2
    MaxBytes = 2
    MaxSide = 2
    MaxCrashes = 1
    Lanes = {c1, c2}
    QueueLimit = 3
    Grantable <- MCGrantable
    Withdrawable = {"key", "cookie"}
    Callers = {u1, u2, u3}
    Threads = {c1, c2}
    Window = 6
    Cost = 3
    MaxBuckets = 2
    LastMoment = 7
    MaxLag = 1
    Tools = {"read_file", "send_email", "delete_file"}
    Arguments <- MCArguments
    MaxSteps = 3
SYMMETRY MCSymmetry
INVARIANTS
    DoorTypeOK
    QueueExcessBounded
    NothingHalfStored
    QuotaExcessBounded
    OneJobPerLook
    ServedWithinRights
    PruningGivesNothing
    OnlyWhatPolicyAllows
CHECK_DEADLOCK FALSE
