---------------------------- MODULE JobLifecycle ----------------------------
(***************************************************************************)
(* What the `jobs`, `run_records` and `usage_counters` tables promise to   *)
(* the rest of the program, whoever writes them: one action per committed  *)
(* transaction that changes a job's status.  JobExecutor implements this   *)
(* module; JobAdmission takes it as its environment.                       *)
(***************************************************************************)
EXTENDS Naturals, FiniteSets

CONSTANTS
    Orgs,    \* organizations
    Jobs,    \* job ids: the rows that may ever be inserted
    OrgOf    \* Job.org_id

ASSUME OrgOfAssumption == OrgOf \in [Jobs -> Orgs]
ASSUME JobsFinite == IsFiniteSet(Jobs)

VARIABLES
    status,    \* Job.status; "absent" before the INSERT
    recorded,  \* the jobs that have a RunRecord row
    usage      \* UsageCounter.runs of the current month

rows == <<status, recorded, usage>>

Terminal == {"succeeded", "failed", "cancelled"}
Status == {"absent", "queued", "running"} \cup Terminal

\* How a run that returned a result ended: `failed` and `no_records` of
\* executor.py are both outcomes that the plan does not count.
Outcomes == {"done", "run_failed", "no_records"}

RowsTypeOK ==
    /\ status \in [Jobs -> Status]
    /\ recorded \in SUBSET Jobs
    /\ usage \in [Orgs -> Nat]

JobsWith(o, st) == {j \in Jobs : OrgOf[j] = o /\ status[j] \in st}

RowsInit ==
    /\ status = [j \in Jobs |-> "absent"]
    /\ recorded = {}
    /\ usage = [o \in Orgs |-> 0]

-----------------------------------------------------------------------------
(* A definition introduced as a "Variant" is the one that follows it as a    *)
(* careless change of the code would leave it: no specification uses it, it  *)
(* stands for the slip that one of the properties has to notice.             *)

\* An UPDATE of one row's status that leaves the other tables alone.
SetStatus(j, st) ==
    /\ status' = [status EXCEPT ![j] = st]
    /\ UNCHANGED <<recorded, usage>>

\* queue_job: the INSERT and its commit.
InsertRow(j) ==
    /\ status[j] = "absent"
    /\ SetStatus(j, "queued")

\* cancel_job: the conditional UPDATE of a queued row.
CancelRow(j) ==
    /\ status[j] = "queued"
    /\ SetStatus(j, "cancelled")

\* _execute: the conditional UPDATE that claims a queued row.
ClaimRow(j) ==
    /\ status[j] = "queued"
    /\ SetStatus(j, "running")

\* _finish: a job that ends without a result keeps a final status.
FinishRow(j) ==
    /\ status[j] \in {"queued", "running"}
    /\ SetStatus(j, "failed")

\* Variant: a failed run gives a run of the plan back.
CompleteRowRefunding(j, outcome) ==
    LET ok == outcome = "done" IN
    /\ status' = [status EXCEPT ![j] = IF ok THEN "succeeded" ELSE "failed"]
    /\ recorded' = recorded \cup {j}
    /\ usage' = [usage EXCEPT ![OrgOf[j]] = IF ok THEN @ + 1 ELSE @ - 1]

\* _execute: RunRecord, usage and the job's final status in one commit.
\* The UPDATE of the job has no condition on its status.
CompleteRow(j, outcome) ==
    LET ok == outcome = "done" IN
    /\ status' = [status EXCEPT ![j] = IF ok THEN "succeeded" ELSE "failed"]
    /\ recorded' = recorded \cup {j}
    /\ usage' = IF ok THEN [usage EXCEPT ![OrgOf[j]] = @ + 1] ELSE usage

\* start(): one UPDATE turns every running row into failed/abandoned.
AbandonRows ==
    /\ status' = [j \in Jobs |-> IF status[j] = "running" THEN "failed"
                                 ELSE status[j]]
    /\ UNCHANGED <<recorded, usage>>

-----------------------------------------------------------------------------
\* A row is completed only while it is running: the promise that the
\* executor keeps although its UPDATE does not ask for it.
CompleteRunning(j, outcome) ==
    /\ status[j] = "running"
    /\ CompleteRow(j, outcome)

RowsNext ==
    \/ AbandonRows
    \/ \E j \in Jobs :
          \/ InsertRow(j)
          \/ CancelRow(j)
          \/ ClaimRow(j)
          \/ FinishRow(j)
          \/ \E outcome \in Outcomes : CompleteRunning(j, outcome)

RowsSpec == RowsInit /\ [][RowsNext]_rows

-----------------------------------------------------------------------------
(* What a reader of the tables may rely on.                                *)

\* The plan counter of an organization is the number of its jobs that
\* succeeded: failed, empty, cancelled and abandoned jobs cost nothing, and
\* a success is never counted twice (executor.py:252-261, service.py:165).
UsageCountsSuccesses ==
    \A o \in Orgs : usage[o] = Cardinality(JobsWith(o, {"succeeded"}))

\* A run that left a RunRecord belongs to a job that finished, a succeeded
\* job has its record, and a cancelled one has none (executor.py:254-261).
RecordsMatchStatus ==
    \A j \in Jobs :
        /\ j \in recorded => status[j] \in {"succeeded", "failed"}
        /\ status[j] = "succeeded" => j \in recorded

\* A finished job stays as it is: no late task, cancellation or restart
\* moves it (executor.py:315-330, jobs.py:168, executor.py:157).
TerminalIsFinal ==
    [][\A j \in Jobs : status[j] \in Terminal => status'[j] = status[j]]_rows
=============================================================================
