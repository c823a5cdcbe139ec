\* Three organizations, one of them deleted while its job is claimed.
SPECIFICATION TenantSpec
CONSTANTS
    Orgs = {o1, o2, o3}
    Doomed = {o1}
    MaxActive = 1
    MaxRuns = 1
INVARIANT DeletedLeavesNothing
CHECK_DEADLOCK FALSE
