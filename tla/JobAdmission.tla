---------------------------- MODULE JobAdmission ----------------------------
(***************************************************************************)
(* The checks in front of a new job: the plan guard, then queue_job's      *)
(* queue limit, then the INSERT, with the awaits between them.  POST /jobs,*)
(* the MCP tool and the auto-run after an upload all take this way.  What  *)
(* the executor and cancel_job do to the rows meanwhile is JobLifecycle.   *)
(***************************************************************************)
EXTENDS JobLifecycle

CONSTANTS
    MaxPending,  \* MAX_PENDING_JOBS of jobs.py
    PlanLimit,   \* runs_per_month of the plan (an unlimited plan: no check)
    MaxInFlight  \* bound: requests being handled at once, per organization

ASSUME AdmissionAssumption ==
    /\ MaxPending \in Nat \ {0}
    /\ PlanLimit \in Nat
    /\ MaxInFlight \in Nat \ {0}

VARIABLES
    step,  \* where the request that would insert the job stands
    seen   \* UsageCounter.runs as the plan guard read it

vars == <<rows, step, seen>>

\* idle: not asked for, or refused and free to ask again.
Steps == {"idle", "usage_read", "plan_ok", "queue_ok", "inserted"}
InFlight(o) ==
    {j \in Jobs : OrgOf[j] = o
                  /\ step[j] \in {"usage_read", "plan_ok", "queue_ok"}}

TypeOK ==
    /\ RowsTypeOK
    /\ step \in [Jobs -> Steps]
    /\ seen \in [Jobs -> Nat]

\* The jobs that both limits count.
Pending(o) == Cardinality(JobsWith(o, {"queued", "running"}))

\* The requests that passed the queue check and have not inserted yet.
Counted(o) == {j \in Jobs : OrgOf[j] = o /\ step[j] = "queue_ok"}

Init ==
    /\ RowsInit
    /\ step = [j \in Jobs |-> "idle"]
    /\ seen = [j \in Jobs |-> 0]

-----------------------------------------------------------------------------
Goto(j, from, to) ==
    /\ step[j] = from
    /\ step' = [step EXCEPT ![j] = to]

\* runs_limit_reached, first await: the usage counter of the month.
ReadUsage(j) ==
    /\ Cardinality(InFlight(OrgOf[j])) < MaxInFlight
    /\ Goto(j, "idle", "usage_read")
    /\ seen' = [seen EXCEPT ![j] = usage[OrgOf[j]]]
    /\ UNCHANGED rows

\* runs_limit_reached, second await: pending jobs, in a statement of its own;
\* 429 plan_limit when the sum has reached the limit.
CheckPlan(j) ==
    /\ Goto(j, "usage_read",
            IF seen[j] + Pending(OrgOf[j]) >= PlanLimit THEN "idle"
            ELSE "plan_ok")
    /\ UNCHANGED <<rows, seen>>

\* Variant: the limit compared with `>`.
CheckQueueOffByOne(j) ==
    /\ Goto(j, "plan_ok",
            IF Pending(OrgOf[j]) > MaxPending THEN "idle" ELSE "queue_ok")
    /\ UNCHANGED <<rows, seen>>

\* queue_job: the count of pending jobs; 409 queue_full at the limit.
CheckQueue(j) ==
    /\ Goto(j, "plan_ok",
            IF Pending(OrgOf[j]) >= MaxPending THEN "idle" ELSE "queue_ok")
    /\ UNCHANGED <<rows, seen>>

\* queue_job: INSERT and commit; neither limit is looked at again.
InsertJob(j) ==
    /\ Goto(j, "queue_ok", "inserted")
    /\ InsertRow(j)
    /\ UNCHANGED seen

\* The executor and cancel_job, as JobLifecycle allows.
RowStep(j) ==
    /\ \/ CancelRow(j)
       \/ ClaimRow(j)
       \/ FinishRow(j)
       \/ \E outcome \in Outcomes : CompleteRunning(j, outcome)
    /\ UNCHANGED <<step, seen>>

\* A restart abandons the running rows and takes the open requests with it.
Restart ==
    /\ AbandonRows
    /\ step' = [j \in Jobs |-> IF step[j] = "inserted" THEN "inserted"
                               ELSE "idle"]
    /\ UNCHANGED seen

Next ==
    \/ Restart
    \/ \E j \in Jobs :
          \/ ReadUsage(j)
          \/ CheckPlan(j)
          \/ CheckQueue(j)
          \/ InsertJob(j)
          \/ RowStep(j)

Spec == Init /\ [][Next]_vars

-----------------------------------------------------------------------------
\* The queue limit can be passed only by requests that were counted side by
\* side: with n of them in flight at most n - 1 jobs too many get in, and
\* none when requests come one after another (jobs.py:92-111).
QueueExcessBounded ==
    \A o \in Orgs : Pending(o) <= MaxPending + MaxInFlight - 1

\* "A job is accepted for at most 20 queued or running jobs per
\* organization" (docs/API.md:219, jobs.py:29).
QueueLimitKept ==
    \A o \in Orgs : Pending(o) <= MaxPending

\* Jobs in progress take a place in the plan's monthly limit, so that the
\* runs of a month never exceed it (plan_guard.py:49).
PlanLimitKept ==
    \A o \in Orgs : usage[o] + Pending(o) <= PlanLimit

\* What makes the excess bound inductive: a request that was let through
\* counts as the row it is about to insert.
AdmissionInv ==
    /\ TypeOK
    /\ \A o \in Orgs :
          /\ Cardinality(InFlight(o)) <= MaxInFlight
          /\ Pending(o) + Cardinality(Counted(o))
                <= MaxPending + MaxInFlight - 1
=============================================================================
