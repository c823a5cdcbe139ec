--------------------------- MODULE MCJobAdmission ---------------------------
(* One organization that asks for up to four jobs: the limits are counted   *)
(* per organization, so a second one adds nothing.                          *)
EXTENDS JobAdmission, TLC

CONSTANTS o1, j1, j2, j3, j4

MCOrgs == {o1}
MCJobs == {j1, j2, j3, j4}
MCOrgOf == [j \in MCJobs |-> o1]
MCSymmetry == Permutations(MCJobs)
=============================================================================
