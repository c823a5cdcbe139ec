--------------------------- MODULE MCJobExecutor ---------------------------
(* Two organizations, one of them with two jobs, for TLC.                   *)
EXTENDS JobExecutor, TLC

CONSTANTS o1, o2, j1, j2, j3

MCOrgs == {o1, o2}
MCJobs == {j1, j2, j3}
MCOrgOf == (j1 :> o1) @@ (j2 :> o1) @@ (j3 :> o2)

\* The two jobs of o1 play the same part.
MCSymmetry == Permutations({j1, j2})
=============================================================================
