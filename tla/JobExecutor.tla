---------------------------- MODULE JobExecutor ----------------------------
(***************************************************************************)
(* The in-process job executor (app/control/executor.py) with the calls    *)
(* that feed it: queue_job's commit and submit, cancel_job, the start and  *)
(* the stop of the process.  Every action runs from one await of the code  *)
(* to the next, so that the tasks, the worker threads, the progress        *)
(* coroutines the threads schedule, the API handlers and a crash           *)
(* interleave as the event loop allows.                                    *)
(*                                                                         *)
(* asyncio.Lock and asyncio.Semaphore wake their waiters in FIFO order; the*)
(* model lets any waiter go first (safety) and asks for strong fairness of *)
(* the two acquisitions (liveness), which FIFO order gives.                *)
(***************************************************************************)
EXTENDS JobLifecycle

CONSTANTS
    MaxRuns,     \* settings.daas_max_concurrent_runs
    Marks,       \* percents the pipeline runner reports while it works
    NoJob,       \* no task holds the organization's lock
    MaxRestarts  \* bound: how often the process stops or crashes

ASSUME ExecutorAssumption ==
    /\ MaxRuns \in Nat \ {0}
    /\ Marks \subseteq 6..99
    /\ NoJob \notin Jobs
    /\ MaxRestarts \in Nat

VARIABLES
    progress,     \* Job.progress
    phase,        \* the process: down, up, maintenance or stopping
    unsubmitted,  \* rows committed by queue_job, executor.submit still to come
    pc,           \* where the task of a job stands in _run/_execute
    holder,       \* TenantRegistry.lock(org): the job whose task holds it
    permits,      \* value of the semaphore _global
    threads,      \* jobs whose runner.run is executing in a worker thread
    mark,         \* last percent a thread reported
    inflight,     \* <<job, percent>>: _progress coroutines not yet applied
    orphaned,     \* jobs whose task died in the last-resort _finish
    notified,     \* run.finished events handed to the listeners, per job
    restarts      \* stops and crashes so far

procVars == <<phase, restarts>>
taskVars == <<pc, holder, permits>>
runVars == <<threads, mark, inflight>>
vars == <<rows, progress, procVars, unsubmitted, taskVars, runVars,
          orphaned, notified>>

Phases == {"down", "up", "maintenance", "stopping"}

\* none -> lock -> permit -> claim -> claimed -> running -> ended -> notify,
\* each named for what the task is about to do or is doing; "crashed" is the
\* except branch of _run, after both locks were released.
HoldsPermit == {"claim", "claimed", "running", "ended", "notify"}
HoldsLock == {"permit"} \cup HoldsPermit
PCs == {"none", "lock", "crashed"} \cup HoldsLock

TypeOK ==
    /\ RowsTypeOK
    /\ progress \in [Jobs -> 0..100]
    /\ phase \in Phases
    /\ restarts \in Nat
    /\ unsubmitted \in SUBSET Jobs
    /\ pc \in [Jobs -> PCs]
    /\ holder \in [Orgs -> Jobs \cup {NoJob}]
    /\ permits \in Nat
    /\ threads \in SUBSET Jobs
    /\ mark \in [Jobs -> 0..100]
    /\ inflight \in SUBSET (Jobs \X Marks)
    /\ orphaned \in SUBSET Jobs
    /\ notified \in [Jobs -> Nat]

-----------------------------------------------------------------------------
(* Nothing of the executor survives the process: tasks, locks and semaphore *)
(* are objects of its event loop.                                           *)
FreshTasks ==
    /\ pc' = [j \in Jobs |-> "none"]
    /\ holder' = [o \in Orgs |-> NoJob]
    /\ permits' = MaxRuns

Init ==
    /\ RowsInit
    /\ progress = [j \in Jobs |-> 0]
    /\ phase = "down"
    /\ restarts = 0
    /\ unsubmitted = {}
    /\ pc = [j \in Jobs |-> "none"]
    /\ holder = [o \in Orgs |-> NoJob]
    /\ permits = MaxRuns
    /\ threads = {}
    /\ mark = [j \in Jobs |-> 0]
    /\ inflight = {}
    /\ orphaned = {}
    /\ notified = [j \in Jobs |-> 0]

-----------------------------------------------------------------------------
(* The process.                                                             *)

\* Variant: interrupted runs are queued again instead of abandoned.
StartRequeueing ==
    /\ phase = "down"
    /\ phase' = "up"
    /\ status' = [j \in Jobs |-> IF status[j] = "running" THEN "queued"
                                 ELSE status[j]]
    /\ pc' = [j \in Jobs |-> IF status[j] \in {"queued", "running"}
                             THEN "lock" ELSE "none"]
    /\ orphaned' = {}
    /\ UNCHANGED <<recorded, usage, progress, restarts, unsubmitted, holder,
                   permits, runVars, notified>>

\* Variant: queued rows get no task after a restart.
StartForgetting ==
    /\ phase = "down"
    /\ phase' = "up"
    /\ AbandonRows
    /\ orphaned' = {}
    /\ UNCHANGED <<progress, restarts, unsubmitted, taskVars, runVars,
                   notified>>

\* start(): rows left running by the last process are abandoned (their
\* progress stays), every queued row gets a task; lifespan calls it before
\* the first request is served.
Start ==
    /\ phase = "down"
    /\ phase' = "up"
    /\ AbandonRows
    /\ pc' = [j \in Jobs |-> IF status[j] = "queued" THEN "lock" ELSE "none"]
    /\ orphaned' = {}
    /\ UNCHANGED <<progress, restarts, unsubmitted, holder, permits, runVars,
                   notified>>

\* In maintenance mode the lifespan does not call start(): rows keep their
\* status and no task exists.
StartInMaintenance ==
    /\ phase = "down"
    /\ phase' = "maintenance"
    /\ orphaned' = {}
    /\ UNCHANGED <<rows, progress, restarts, unsubmitted, taskVars, runVars,
                   notified>>

\* stop(): every task is cancelled and releases what it holds; a run in a
\* worker thread goes on, but its result has no reader any more.
Stop ==
    /\ phase \in {"up", "maintenance"}
    /\ restarts < MaxRestarts
    /\ phase' = "stopping"
    /\ restarts' = restarts + 1
    /\ FreshTasks
    /\ unsubmitted' = {}
    /\ UNCHANGED <<rows, progress, runVars, orphaned, notified>>

\* The process is gone with its threads and scheduled coroutines: the end of
\* a stop, or a crash at any point.
Die ==
    /\ phase' = "down"
    /\ FreshTasks
    /\ unsubmitted' = {}
    /\ threads' = {}
    /\ inflight' = {}
    /\ mark' = [j \in Jobs |-> 0]
    /\ UNCHANGED <<rows, progress, orphaned, notified>>

Exit ==
    /\ phase = "stopping"
    /\ Die
    /\ UNCHANGED restarts

Crash ==
    /\ phase \in {"up", "maintenance"}
    /\ restarts < MaxRestarts
    /\ restarts' = restarts + 1
    /\ Die

-----------------------------------------------------------------------------
(* API handlers.                                                            *)

\* queue_job after its checks: INSERT and commit (JobAdmission has the checks).
Insert(j) ==
    /\ phase = "up"
    /\ InsertRow(j)
    /\ unsubmitted' = unsubmitted \cup {j}
    /\ UNCHANGED <<progress, procVars, taskVars, runVars, orphaned, notified>>

\* queue_job after its commit: executor.submit creates the task, which queues
\* for the organization's lock.
Submit(j) ==
    /\ j \in unsubmitted
    /\ unsubmitted' = unsubmitted \ {j}
    /\ pc' = [pc EXCEPT ![j] = "lock"]
    /\ UNCHANGED <<rows, progress, procVars, holder, permits, runVars,
                   orphaned, notified>>

\* cancel_job: queued -> cancelled with progress 0, at any time a server
\* answers requests; otherwise 409 and no change.
Cancel(j) ==
    /\ phase \in {"up", "maintenance"}
    /\ CancelRow(j)
    /\ progress' = [progress EXCEPT ![j] = 0]
    /\ UNCHANGED <<procVars, unsubmitted, taskVars, runVars, orphaned,
                   notified>>

-----------------------------------------------------------------------------
(* The task of a job.                                                       *)

Goto(j, from, to) ==
    /\ pc[j] = from
    /\ pc' = [pc EXCEPT ![j] = to]

\* Leaving `async with registry.lock(org_id), self._global`.
Leave(j) ==
    /\ holder' = [holder EXCEPT ![OrgOf[j]] = NoJob]
    /\ permits' = permits + 1

\* Variant: the lock is one of the job, not of its organization.
TakeLockPerJob(j) ==
    /\ Goto(j, "lock", "permit")
    /\ holder' = [holder EXCEPT ![OrgOf[j]] = j]
    /\ UNCHANGED <<rows, progress, procVars, unsubmitted, permits, runVars,
                   orphaned, notified>>

TakeLock(j) ==
    /\ Goto(j, "lock", "permit")
    /\ holder[OrgOf[j]] = NoJob
    /\ holder' = [holder EXCEPT ![OrgOf[j]] = j]
    /\ UNCHANGED <<rows, progress, procVars, unsubmitted, permits, runVars,
                   orphaned, notified>>

\* Variant: the semaphore admits one run too many.
TakePermitTooMany(j) ==
    /\ Goto(j, "permit", "claim")
    /\ permits' = IF permits > 0 THEN permits - 1 ELSE 0
    /\ UNCHANGED <<rows, progress, procVars, unsubmitted, holder, runVars,
                   orphaned, notified>>

\* Variant: _run and _execute both take a permit, one is given back.
TakePermitTwice(j) ==
    /\ Goto(j, "permit", "claim")
    /\ permits > 0
    /\ permits' = permits - 2
    /\ UNCHANGED <<rows, progress, procVars, unsubmitted, holder, runVars,
                   orphaned, notified>>

TakePermit(j) ==
    /\ Goto(j, "permit", "claim")
    /\ permits > 0
    /\ permits' = permits - 1
    /\ UNCHANGED <<rows, progress, procVars, unsubmitted, holder, runVars,
                   orphaned, notified>>

\* Variant: the claim does not ask for the status it read before it waited.
ClaimAlways(j) ==
    /\ Goto(j, "claim", "claimed")
    /\ SetStatus(j, "running")
    /\ progress' = [progress EXCEPT ![j] = 5]
    /\ UNCHANGED <<procVars, unsubmitted, holder, permits, runVars, orphaned,
                   notified>>

\* The claim found the row queued.
Claim(j) ==
    /\ Goto(j, "claim", "claimed")
    /\ ClaimRow(j)
    /\ progress' = [progress EXCEPT ![j] = 5]
    /\ UNCHANGED <<procVars, unsubmitted, holder, permits, runVars, orphaned,
                   notified>>

\* Variant: the early return leaves the organization's lock taken.
ClaimMissesKeepingLock(j) ==
    /\ Goto(j, "claim", "none")
    /\ status[j] # "queued"
    /\ permits' = permits + 1
    /\ UNCHANGED <<rows, progress, procVars, unsubmitted, holder, runVars,
                   orphaned, notified>>

\* rowcount # 1: the row was cancelled while the task waited.
ClaimMisses(j) ==
    /\ Goto(j, "claim", "none")
    /\ status[j] # "queued"
    /\ Leave(j)
    /\ UNCHANGED <<rows, progress, procVars, unsubmitted, runVars, orphaned,
                   notified>>

\* _finish's UPDATE: only a queued or running row is failed.
FinishJob(j) ==
    /\ IF status[j] \in {"queued", "running"}
       THEN /\ FinishRow(j)
            /\ progress' = [progress EXCEPT ![j] = 100]
       ELSE UNCHANGED <<rows, progress>>

\* The uploaded file is gone, or in cloud no source is left: the job fails
\* before it runs and no listener hears of it.
FailSource(j) ==
    /\ Goto(j, "claimed", "none")
    /\ FinishJob(j)
    /\ Leave(j)
    /\ UNCHANGED <<procVars, unsubmitted, runVars, orphaned, notified>>

StartRun(j) ==
    /\ Goto(j, "claimed", "running")
    /\ threads' = threads \cup {j}
    /\ mark' = [mark EXCEPT ![j] = 0]
    /\ UNCHANGED <<rows, progress, procVars, unsubmitted, holder, permits,
                   inflight, orphaned, notified>>

\* Variant: the listeners hear of the run before its transaction.
EndRunAnnouncing(j) ==
    /\ Goto(j, "running", "ended")
    /\ threads' = threads \ {j}
    /\ notified' = [notified EXCEPT ![j] = @ + 1]
    /\ UNCHANGED <<rows, progress, procVars, unsubmitted, holder, permits,
                   mark, inflight, orphaned>>

\* runner.run, _hash_reports and _run_period have returned to the task.
EndRun(j) ==
    /\ Goto(j, "running", "ended")
    /\ threads' = threads \ {j}
    /\ UNCHANGED <<rows, progress, procVars, unsubmitted, holder, permits,
                   mark, inflight, orphaned, notified>>

\* One transaction: RunRecord, usage of a success, final status, audit.
Complete(j, outcome) ==
    /\ Goto(j, "ended", "notify")
    /\ CompleteRow(j, outcome)
    /\ progress' = [progress EXCEPT ![j] = 100]
    /\ UNCHANGED <<procVars, unsubmitted, holder, permits, runVars, orphaned,
                   notified>>

\* The listeners are called inside both locks; their exceptions are logged.
Notify(j) ==
    /\ Goto(j, "notify", "none")
    /\ notified' = [notified EXCEPT ![j] = @ + 1]
    /\ Leave(j)
    /\ UNCHANGED <<rows, progress, procVars, unsubmitted, runVars, orphaned>>

\* An exception of the claim, the registry, the runner or the final
\* transaction leaves the two locks before _run catches it.
Raise(j) ==
    /\ pc[j] \in {"claim", "claimed", "running", "ended"}
    /\ pc' = [pc EXCEPT ![j] = "crashed"]
    /\ threads' = threads \ {j}
    /\ Leave(j)
    /\ UNCHANGED <<rows, progress, procVars, unsubmitted, mark, inflight,
                   orphaned, notified>>

\* except branch of _run: _finish(failed, internal_error).
FinishCrashed(j) ==
    /\ Goto(j, "crashed", "none")
    /\ FinishJob(j)
    /\ UNCHANGED <<procVars, unsubmitted, holder, permits, runVars, orphaned,
                   notified>>

\* _finish raises as well (the database stays locked): the task dies and its
\* row keeps its status until the next start().
FinishCrashedFails(j) ==
    /\ Goto(j, "crashed", "none")
    /\ orphaned' = orphaned \cup {j}
    /\ UNCHANGED <<rows, progress, procVars, unsubmitted, holder, permits,
                   runVars, notified>>

-----------------------------------------------------------------------------
(* The worker thread and the coroutines it schedules on the loop.           *)

\* on_progress: run_coroutine_threadsafe schedules _progress and returns.
Report(j, percent) ==
    /\ j \in threads
    /\ percent > mark[j]
    /\ mark' = [mark EXCEPT ![j] = percent]
    /\ inflight' = inflight \cup {<<j, percent>>}
    /\ UNCHANGED <<rows, progress, procVars, unsubmitted, taskVars, threads,
                   orphaned, notified>>

\* Variant: the UPDATE has lost `Job.progress < percent`.
ApplyProgressAlways(j, percent) ==
    /\ <<j, percent>> \in inflight
    /\ inflight' = inflight \ {<<j, percent>>}
    /\ progress' = IF status[j] = "running"
                   THEN [progress EXCEPT ![j] = percent] ELSE progress
    /\ UNCHANGED <<rows, procVars, unsubmitted, taskVars, threads, mark,
                   orphaned, notified>>

\* _progress: nothing waits for it, so it may run after a later percent or
\* after the job's end.
ApplyProgress(j, percent) ==
    /\ <<j, percent>> \in inflight
    /\ inflight' = inflight \ {<<j, percent>>}
    /\ progress' = IF status[j] = "running" /\ progress[j] < percent
                   THEN [progress EXCEPT ![j] = percent] ELSE progress
    /\ UNCHANGED <<rows, procVars, unsubmitted, taskVars, threads, mark,
                   orphaned, notified>>

\* After stop() a thread may still return; nobody takes its result.
ThreadReturnsUnheard(j) ==
    /\ phase = "stopping"
    /\ j \in threads
    /\ threads' = threads \ {j}
    /\ UNCHANGED <<rows, progress, procVars, unsubmitted, taskVars, mark,
                   inflight, orphaned, notified>>

-----------------------------------------------------------------------------
\* What a task does next, whatever that is.
TaskStep(j) ==
    \/ Claim(j)
    \/ ClaimMisses(j)
    \/ FailSource(j)
    \/ StartRun(j)
    \/ EndRun(j)
    \/ \E outcome \in Outcomes : Complete(j, outcome)
    \/ Notify(j)
    \/ Raise(j)
    \/ FinishCrashed(j)
    \/ FinishCrashedFails(j)

Next ==
    \/ Start
    \/ StartInMaintenance
    \/ Stop
    \/ Exit
    \/ Crash
    \/ \E j \in Jobs :
          \/ Insert(j)
          \/ Submit(j)
          \/ Cancel(j)
          \/ TakeLock(j)
          \/ TakePermit(j)
          \/ TaskStep(j)
          \/ \E percent \in Marks : Report(j, percent)
          \/ \E percent \in Marks : ApplyProgress(j, percent)
          \/ ThreadReturnsUnheard(j)

Spec == Init /\ [][Next]_vars

\* The event loop runs every task that can go on, the two primitives serve
\* their waiters in FIFO order, a thread ends, and the container is restarted
\* (compose: restart: unless-stopped).  Nobody has to end a maintenance.
Fairness ==
    /\ WF_vars(Start)
    /\ WF_vars(Exit)
    /\ \A j \in Jobs :
          /\ WF_vars(Submit(j))
          /\ SF_vars(TakeLock(j))
          /\ SF_vars(TakePermit(j))
          /\ WF_vars(TaskStep(j))

FairSpec == Spec /\ Fairness

-----------------------------------------------------------------------------
(* Properties.                                                              *)

\* Jobs whose run has begun and whose tenant data it may still write.
Engaged == {j \in Jobs : pc[j] \in {"claimed", "running", "ended", "notify"}}
           \cup threads

PermitHolders == {j \in Jobs : pc[j] \in HoldsPermit}

\* "In an organization one run works at a time" (executor.py:4), also while
\* a stopping process still has a thread that nobody waits for.
OneRunPerOrg ==
    \A j, k \in Engaged : OrgOf[j] = OrgOf[k] => j = k

\* "At most DAAS_MAX_CONCURRENT_RUNS runs at a time" (executor.py:5): the
\* semaphore is returned exactly once on every way out of _execute.
RunsBounded ==
    /\ permits + Cardinality(PermitHolders) = MaxRuns
    /\ Cardinality(threads) <= MaxRuns

\* A queued job of a serving process always has somebody who will run it:
\* its task, the handler about to submit it, or the except branch; only a
\* task that died in its last _finish leaves it to the next restart
\* (executor.py:151-167, jobs.py:111-112).
NoQueuedJobForgotten ==
    \A j \in Jobs :
        phase = "up" /\ status[j] = "queued" =>
            \/ j \in unsubmitted
            \/ pc[j] \in {"lock", "permit", "claim", "crashed"}
            \/ j \in orphaned

\* A row that says running is being run by a task of this process: what the
\* last process left is abandoned before the first request
\* (executor.py:157-159).
RunningIsAttended ==
    \A j \in Jobs :
        phase = "up" /\ status[j] = "running" =>
            \/ pc[j] \in {"claimed", "running", "ended", "crashed"}
            \/ j \in orphaned

\* Whatever stops, crashes or fails, a queued or running job of a serving
\* process is never left alone (executor.py:151-167, 191-199).
NoJobForgotten == NoQueuedJobForgotten /\ RunningIsAttended

\* A cancelled job was never run and never will be, whatever the task that
\* waited for it did in the meantime (executor.py:8, jobs.py:166-167).
CancelledNeverRuns ==
    \A j \in Jobs : status[j] = "cancelled" =>
        /\ j \notin Engaged
        /\ j \notin recorded
        /\ notified[j] = 0

\* run.finished is handed over at most once per job, over all restarts, and
\* only for a run whose record is committed (executor.py:254-274).
NotifiedAtMostOnce ==
    \A j \in Jobs :
        /\ notified[j] <= 1
        /\ notified[j] = 1 => j \in recorded

\* What the owners are told is true: nothing of a cancelled job, and of every
\* other at most one run.finished, with its record (executor.py:8, 254-274).
AnnouncedTruly == CancelledNeverRuns /\ NotifiedAtMostOnce

\* Progress never goes back while the job runs, and a coroutine that comes
\* late changes nothing of a job that has left running (executor.py:315-322).
ProgressForward ==
    [][\A j \in Jobs :
          /\ status[j] = "running" => progress'[j] >= progress[j]
          /\ status[j] \in Terminal => progress'[j] = progress[j]]_vars

\* A job that is queued is finished or cancelled in the end, over stops and
\* crashes; not if the server stays in maintenance or the task died in its
\* last _finish (executor.py:7).
QueuedJobEnds ==
    \A j \in Jobs :
        status[j] = "queued" ~>
            \/ status[j] \in Terminal
            \/ j \in orphaned
            \/ phase = "maintenance"

-----------------------------------------------------------------------------
(* The inductive invariant: what a task may assume of its row, of its locks *)
(* and of the process between two awaits.                                   *)

\* The lock of an organization is held by the task that is inside it.
LockHeldByTask ==
    \A j \in Jobs : pc[j] \in HoldsLock <=> holder[OrgOf[j]] = j

\* Tasks and unfinished handlers exist only in a serving process.
TasksOnlyWhenUp ==
    phase # "up" => /\ \A j \in Jobs : pc[j] = "none"
                    /\ unsubmitted = {}

\* A worker thread belongs to a task that waits for it, or was left behind
\* by a stop; then there is still at most one per organization.
ThreadsOwned ==
    /\ \A j \in threads : status[j] = "running"
    /\ phase = "up" => threads = {j \in Jobs : pc[j] = "running"}
    /\ phase \in {"down", "maintenance"} => threads = {}
    /\ \A j, k \in threads : OrgOf[j] = OrgOf[k] => j = k

\* What the task's place says of its row, although every UPDATE between two
\* awaits could have been somebody else's.
RowOfTask ==
    \A j \in Jobs :
        /\ pc[j] \in {"lock", "permit", "claim"} =>
              status[j] \in {"queued", "cancelled"}
        /\ pc[j] \in {"claimed", "running", "ended"} => status[j] = "running"
        /\ pc[j] = "notify" =>
              j \in recorded /\ notified[j] = 0
        /\ pc[j] = "crashed" =>
              status[j] \in {"queued", "running", "cancelled"}
        /\ j \in unsubmitted =>
              pc[j] = "none" /\ status[j] \in {"queued", "cancelled"}

TaskInv ==
    /\ TypeOK
    /\ LockHeldByTask
    /\ TasksOnlyWhenUp
    /\ ThreadsOwned
    /\ RowOfTask
    /\ RecordsMatchStatus
    /\ NotifiedAtMostOnce
    /\ NoQueuedJobForgotten
    /\ RunningIsAttended

IInv == TaskInv /\ RunsBounded
=============================================================================
