CONSTANTS
    o1 = o1
    o2 = o2
    j1 = j1
    j2 = j2
    j3 = j3
    Orgs <- MCOrgs
    Jobs <- MCJobs
    OrgOf <- MCOrgOf
    NoJob = NoJob
    MaxRuns = 2
    Marks = {10, 90}
    MaxRestarts = 1
SPECIFICATION Spec
SYMMETRY MCSymmetry
INVARIANTS
    TypeOK
    OneRunPerOrg
    NoJobForgotten
    AnnouncedTruly
PROPERTIES
    RowsSpec
    ProgressForward
CHECK_DEADLOCK FALSE
