------------------------- MODULE JobExecutorProofs -------------------------
(***************************************************************************)
(* JobExecutor keeps its invariant and implements JobLifecycle for every   *)
(* set of organizations and jobs, every number of permits and restarts.    *)
(*                                                                         *)
(* IInv is inductive because it says, for a task at each await, what its   *)
(* row, its lock, its permit and its thread are: an UPDATE such as the     *)
(* final one of _execute, which does not ask for the row's status, is safe *)
(* only through RowOfTask.                                                 *)
(***************************************************************************)
EXTENDS JobExecutor, FiniteSetTheorems, TLAPS

-----------------------------------------------------------------------------
(* The job tables.  What RowsSpec promises holds for every number of         *)
(* organizations and jobs; whoever implements it inherits it.                *)

RowsInv ==
    /\ RowsTypeOK
    /\ RecordsMatchStatus
    /\ UsageCountsSuccesses

-----------------------------------------------------------------------------
\* A step that neither makes nor unmakes a success keeps the plan counters.
LEMMA UsageKept ==
  ASSUME UsageCountsSuccesses,
         usage' = usage,
         \A j \in Jobs : status'[j] = "succeeded" <=> status[j] = "succeeded"
  PROVE  UsageCountsSuccesses'
  <1>1. \A o \in Orgs :
           JobsWith(o, {"succeeded"})' = JobsWith(o, {"succeeded"})
    BY DEF JobsWith
  <1>2. QED
    BY <1>1 DEF UsageCountsSuccesses

\* Completing a running job keeps the plan counters: a success adds its row
\* and its usage in the same commit (executor.py:252-261).
LEMMA CompleteKeepsUsage ==
  ASSUME NEW j \in Jobs, NEW outcome \in Outcomes,
         RowsTypeOK, UsageCountsSuccesses, CompleteRunning(j, outcome)
  PROVE  UsageCountsSuccesses'
  <1>1. CASE outcome = "done"
    <2>1. SUFFICES ASSUME NEW o \in Orgs
                   PROVE  usage'[o] = Cardinality(JobsWith(o, {"succeeded"})')
      BY DEF UsageCountsSuccesses
    <2> DEFINE before == JobsWith(o, {"succeeded"})
    <2>2. IsFiniteSet(before) /\ j \notin before
      BY JobsFinite, FS_Subset DEF JobsWith, CompleteRunning
    <2>3. usage[o] = Cardinality(before) /\ usage[o] \in Nat
      BY DEF UsageCountsSuccesses, RowsTypeOK
    <2>4. CASE o = OrgOf[j]
      <3>1. before' = before \cup {j}
        BY <1>1, <2>4 DEF JobsWith, CompleteRunning, CompleteRow, RowsTypeOK
      <3>2. Cardinality(before') = Cardinality(before) + 1
        BY <3>1, <2>2, FS_AddElement
      <3>3. usage'[o] = usage[o] + 1
        BY <1>1, <2>4 DEF CompleteRunning, CompleteRow, RowsTypeOK
      <3>4. QED
        BY <3>2, <3>3, <2>3
    <2>5. CASE o # OrgOf[j]
      <3>1. before' = before
        BY <1>1, <2>5 DEF JobsWith, CompleteRunning, CompleteRow, RowsTypeOK
      <3>2. usage'[o] = usage[o]
        BY <1>1, <2>5 DEF CompleteRunning, CompleteRow, RowsTypeOK
      <3>3. QED
        BY <3>1, <3>2, <2>3
    <2>6. QED
      BY <2>4, <2>5
  <1>2. CASE outcome # "done"
    BY <1>2, UsageKept DEF CompleteRunning, CompleteRow, RowsTypeOK
  <1>3. QED
    BY <1>1, <1>2

-----------------------------------------------------------------------------
LEMMA RowsInitInv == RowsInit => RowsInv
  <1>1. SUFFICES ASSUME RowsInit PROVE RowsInv
    OBVIOUS
  <1>2. RowsTypeOK /\ RecordsMatchStatus
    BY <1>1 DEF RowsInit, RowsTypeOK, RecordsMatchStatus, Status, Terminal
  <1>3. \A o \in Orgs : JobsWith(o, {"succeeded"}) = {}
    BY <1>1 DEF RowsInit, JobsWith
  <1>4. UsageCountsSuccesses
    BY <1>1, <1>3, FS_EmptySet DEF RowsInit, UsageCountsSuccesses
  <1>5. QED
    BY <1>2, <1>4 DEF RowsInv

LEMMA RowsStepInv == RowsInv /\ [RowsNext]_rows => RowsInv'
  <1> SUFFICES ASSUME RowsInv, [RowsNext]_rows PROVE RowsInv'
    OBVIOUS
  <1> USE DEF RowsInv, RowsTypeOK, RecordsMatchStatus, Status, Terminal
  <1>1. CASE AbandonRows
    BY <1>1, UsageKept DEF AbandonRows
  <1>2. ASSUME NEW j \in Jobs, NEW st \in {"queued", "cancelled", "running",
                                           "failed"},
               SetStatus(j, st), status[j] \in {"absent", "queued", "running"}
        PROVE  RowsInv'
    BY <1>2, UsageKept DEF SetStatus
  <1>3. ASSUME NEW j \in Jobs,
               InsertRow(j) \/ CancelRow(j) \/ ClaimRow(j) \/ FinishRow(j)
        PROVE  RowsInv'
    BY <1>2, <1>3 DEF InsertRow, CancelRow, ClaimRow, FinishRow
  <1>4. ASSUME NEW j \in Jobs, NEW outcome \in Outcomes,
               CompleteRunning(j, outcome)
        PROVE  RowsInv'
    <2>1. OrgOf[j] \in Orgs
      BY OrgOfAssumption
    <2>2. /\ status' \in [Jobs -> Status]
          /\ recorded' \in SUBSET Jobs
      BY <1>4 DEF CompleteRunning, CompleteRow
    <2>3. usage' \in [Orgs -> Nat]
      BY <1>4, <2>1 DEF CompleteRunning, CompleteRow
    <2>4. RecordsMatchStatus'
      BY <1>4 DEF CompleteRunning, CompleteRow
    <2>5. QED
      BY <1>4, <2>2, <2>3, <2>4, CompleteKeepsUsage
  <1>5. CASE UNCHANGED rows
    BY <1>5, UsageKept DEF rows
  <1>6. QED
    BY <1>1, <1>3, <1>4, <1>5 DEF RowsNext

\* Rows have their types, records match statuses and the plan counters count
\* the successes (executor.py:252-261).
THEOREM RowsCorrect == RowsSpec => []RowsInv
  BY RowsInitInv, RowsStepInv, PTL DEF RowsSpec

\* The plan counter of every organization is its number of succeeded jobs.
THEOREM UsageCorrect == RowsSpec => []UsageCountsSuccesses
  <1>1. RowsInv => UsageCountsSuccesses
    BY DEF RowsInv
  <1>2. QED
    BY <1>1, RowsCorrect, PTL

\* RunRecords belong to finished jobs, and succeeded jobs have one.
THEOREM RecordsCorrect == RowsSpec => []RecordsMatchStatus
  <1>1. RowsInv => RecordsMatchStatus
    BY DEF RowsInv
  <1>2. QED
    BY <1>1, RowsCorrect, PTL

\* No step changes the status of a finished job.
THEOREM FinishedStaysFinished == RowsSpec => TerminalIsFinal
  <1>1. RowsInv /\ [RowsNext]_rows =>
          [\A j \in Jobs : status[j] \in Terminal => status'[j] = status[j]]_rows
    BY DEF RowsInv, RowsTypeOK, RowsNext, rows, Terminal, AbandonRows, SetStatus,
           InsertRow, CancelRow, ClaimRow, FinishRow, CompleteRunning,
           CompleteRow
  <1>2. QED
    BY <1>1, RowsCorrect, PTL DEF RowsSpec, TerminalIsFinal

-----------------------------------------------------------------------------
(* The executor.                                                            *)

\* The small sets of names, visible in every proof below.
USE DEF HoldsPermit, HoldsLock, PCs, Phases, Status, Terminal, Outcomes

-----------------------------------------------------------------------------
(* The lock of an organization.                                             *)

\* No two tasks of one organization are inside its lock (tenancy.py:159).
LEMMA LockExclusive ==
  ASSUME LockHeldByTask, NEW j \in Jobs, NEW k \in Jobs,
         pc[j] \in HoldsLock, pc[k] \in HoldsLock, OrgOf[j] = OrgOf[k]
  PROVE  j = k
  BY DEF LockHeldByTask

\* A task that is inside and stays inside, or outside and stays outside,
\* disturbs nobody's lock.
LEMMA LockKept ==
  ASSUME LockHeldByTask, pc \in [Jobs -> PCs], holder' = holder,
         NEW j \in Jobs, NEW to \in PCs,
         pc' = [pc EXCEPT ![j] = to],
         pc[j] \in HoldsLock <=> to \in HoldsLock
  PROVE  LockHeldByTask'
  BY DEF LockHeldByTask

\* Leaving gives the lock back and takes it from nobody.
LEMMA LockLeft ==
  ASSUME TypeOK, LockHeldByTask, NEW j \in Jobs, NEW to \in PCs \ HoldsLock,
         pc[j] \in HoldsLock, pc' = [pc EXCEPT ![j] = to], Leave(j)
  PROVE  /\ LockHeldByTask'
         /\ holder' \in [Orgs -> Jobs \cup {NoJob}]
         /\ permits' \in Nat
  <1>1. OrgOf \in [Jobs -> Orgs] /\ NoJob \notin Jobs
    BY OrgOfAssumption, ExecutorAssumption
  <1>2. holder' \in [Orgs -> Jobs \cup {NoJob}]
    BY DEF Leave, TypeOK
  <1>3. permits' \in Nat
    BY DEF Leave, TypeOK
  <1>4. ASSUME NEW k \in Jobs
        PROVE  pc'[k] \in HoldsLock <=> holder'[OrgOf[k]] = k
    <2>1. CASE k = j
      BY <2>1, <1>1 DEF Leave, TypeOK
    <2>2. CASE k # j /\ OrgOf[k] = OrgOf[j]
      <3>1. pc'[k] = pc[k] /\ pc[k] \notin HoldsLock
        BY <2>2, LockExclusive DEF TypeOK
      <3>2. holder'[OrgOf[k]] = NoJob
        BY <2>2, <1>1 DEF Leave, TypeOK
      <3>3. QED
        BY <3>1, <3>2, <1>1
    <2>3. CASE OrgOf[k] # OrgOf[j]
      BY <2>3, <1>1 DEF Leave, TypeOK, LockHeldByTask
    <2>4. QED
      BY <2>1, <2>2, <2>3
  <1>5. QED
    BY <1>2, <1>3, <1>4 DEF LockHeldByTask

-----------------------------------------------------------------------------
(* TaskInv, the part of the invariant without cardinalities.                *)

LEMMA InitTaskInv == Init => TaskInv
  BY OrgOfAssumption, ExecutorAssumption
  DEF Init, RowsInit, TaskInv, TypeOK, RowsTypeOK, LockHeldByTask,
      TasksOnlyWhenUp, ThreadsOwned, RowOfTask, RecordsMatchStatus,
      NotifiedAtMostOnce, NoQueuedJobForgotten, RunningIsAttended

\* Starting, stopping and losing the process.
LEMMA ProcessTaskInv ==
  ASSUME TaskInv, Start \/ StartInMaintenance \/ Stop \/ Exit \/ Crash
  PROVE  TaskInv'
  <1> USE OrgOfAssumption, ExecutorAssumption
      DEF TaskInv, TypeOK, RowsTypeOK, LockHeldByTask, TasksOnlyWhenUp,
          ThreadsOwned, RowOfTask, RecordsMatchStatus, NotifiedAtMostOnce,
          NoQueuedJobForgotten, RunningIsAttended, rows, taskVars, runVars
  <1>1. CASE Start
    BY <1>1 DEF Start, AbandonRows
  <1>2. CASE StartInMaintenance
    BY <1>2 DEF StartInMaintenance
  <1>3. CASE Stop
    BY <1>3 DEF Stop, FreshTasks
  <1>4. CASE Exit
    BY <1>4 DEF Exit, Die, FreshTasks
  <1>5. CASE Crash
    BY <1>5 DEF Crash, Die, FreshTasks
  <1>6. QED
    BY <1>1, <1>2, <1>3, <1>4, <1>5

\* The API handlers.
LEMMA HandlerTaskInv ==
  ASSUME TaskInv, NEW j \in Jobs, Insert(j) \/ Submit(j) \/ Cancel(j)
  PROVE  TaskInv'
  <1> USE DEF TaskInv, TypeOK, RowsTypeOK, LockHeldByTask, TasksOnlyWhenUp,
          ThreadsOwned, RowOfTask, RecordsMatchStatus, NotifiedAtMostOnce,
          NoQueuedJobForgotten, RunningIsAttended, rows, procVars, taskVars,
          runVars, SetStatus
  <1>1. CASE Insert(j)
    BY <1>1 DEF Insert, InsertRow
  <1>2. CASE Submit(j)
    BY <1>2 DEF Submit
  <1>3. CASE Cancel(j)
    BY <1>3 DEF Cancel, CancelRow
  <1>4. QED
    BY <1>1, <1>2, <1>3

\* Steps of a task that stays inside its lock, or has left it before.
LEMMA InsideTaskInv ==
  ASSUME TaskInv, NEW j \in Jobs,
         \/ TakePermit(j) \/ Claim(j) \/ StartRun(j) \/ EndRun(j)
         \/ FinishCrashed(j) \/ FinishCrashedFails(j)
  PROVE  TaskInv'
  <1> USE DEF TaskInv, TypeOK, RowsTypeOK, LockHeldByTask, TasksOnlyWhenUp,
          ThreadsOwned, RowOfTask, RecordsMatchStatus, NotifiedAtMostOnce,
          NoQueuedJobForgotten, RunningIsAttended, rows, procVars, taskVars,
          runVars, Goto, SetStatus
  <1>1. CASE TakePermit(j)
    BY <1>1 DEF TakePermit
  <1>2. CASE Claim(j)
    BY <1>2 DEF Claim, ClaimRow
  <1>3. CASE StartRun(j)
    BY <1>3 DEF StartRun
  <1>4. CASE EndRun(j)
    BY <1>4 DEF EndRun
  <1>5. CASE FinishCrashed(j)
    BY SMTT(40), <1>5 DEF FinishCrashed, FinishJob, FinishRow
  <1>6. CASE FinishCrashedFails(j)
    BY <1>6 DEF FinishCrashedFails
  <1>7. QED
    BY <1>1, <1>2, <1>3, <1>4, <1>5, <1>6

LEMMA TakeLockTaskInv ==
  ASSUME TaskInv, NEW j \in Jobs, TakeLock(j)
  PROVE  TaskInv'
  <1> USE DEF TaskInv, TypeOK, RowsTypeOK, rows, procVars, taskVars, runVars,
              Goto, TakeLock
  <1>1. OrgOf \in [Jobs -> Orgs] /\ NoJob \notin Jobs
    BY OrgOfAssumption, ExecutorAssumption
  <1>2. ASSUME NEW k \in Jobs
        PROVE  pc'[k] \in HoldsLock <=> holder'[OrgOf[k]] = k
    <2>1. CASE k = j
      BY <2>1, <1>1
    <2>2. CASE k # j /\ OrgOf[k] = OrgOf[j]
      BY <2>2, <1>1 DEF LockHeldByTask
    <2>3. CASE OrgOf[k] # OrgOf[j]
      BY <2>3, <1>1 DEF LockHeldByTask
    <2>4. QED
      BY <2>1, <2>2, <2>3
  <1>3. LockHeldByTask'
    BY <1>2 DEF LockHeldByTask
  <1>4. TypeOK'
    BY <1>1
  <1>5. (TasksOnlyWhenUp /\ ThreadsOwned /\ RowOfTask)'
    BY DEF TasksOnlyWhenUp, ThreadsOwned, RowOfTask
  <1>6. (/\ RecordsMatchStatus /\ NotifiedAtMostOnce
         /\ NoQueuedJobForgotten /\ RunningIsAttended)'
    BY DEF RecordsMatchStatus, NotifiedAtMostOnce, NoQueuedJobForgotten,
           RunningIsAttended
  <1>7. QED
    BY <1>3, <1>4, <1>5, <1>6

\* The ways out of the lock.
LEMMA LeaveTaskInv ==
  ASSUME TaskInv, NEW j \in Jobs,
         ClaimMisses(j) \/ FailSource(j) \/ Notify(j) \/ Raise(j)
  PROVE  TaskInv'
  <1> USE DEF TaskInv, TypeOK, RowsTypeOK, rows, procVars, taskVars, runVars,
              Goto, SetStatus, FinishJob, FinishRow
  <1> USE DEF ClaimMisses, FailSource, Notify, Raise
  <1>1. PICK to \in PCs \ HoldsLock : pc' = [pc EXCEPT ![j] = to]
    OBVIOUS
  <1>2. pc[j] \in HoldsLock /\ Leave(j)
    OBVIOUS
  <1>3. /\ LockHeldByTask'
        /\ holder' \in [Orgs -> Jobs \cup {NoJob}]
        /\ permits' \in Nat
    BY <1>1, <1>2, LockLeft
  <1>4. TypeOK'
    <2>1. CASE ClaimMisses(j)
      BY <2>1, <1>3
    <2>2. CASE FailSource(j)
      BY <2>2, <1>3
    <2>3. CASE Notify(j)
      BY <2>3, <1>3
    <2>4. CASE Raise(j)
      BY <2>4, <1>3
    <2>5. QED
      BY <2>1, <2>2, <2>3, <2>4
  <1>5. (TasksOnlyWhenUp /\ ThreadsOwned)'
    BY DEF TasksOnlyWhenUp, ThreadsOwned, RowOfTask
  <1>6. (RowOfTask /\ RecordsMatchStatus)'
    BY DEF RowOfTask, RecordsMatchStatus
  <1>7. NotifiedAtMostOnce'
    BY DEF RowOfTask, NotifiedAtMostOnce
  <1>8. (NoQueuedJobForgotten /\ RunningIsAttended)'
    BY DEF RowOfTask, NoQueuedJobForgotten, RunningIsAttended
  <1>9. QED
    BY <1>3, <1>4, <1>5, <1>6, <1>7, <1>8

\* The final transaction: it finds its row running and unrecorded.
LEMMA CompleteTaskInv ==
  ASSUME TaskInv, NEW j \in Jobs, NEW outcome \in Outcomes,
         Complete(j, outcome)
  PROVE  TaskInv'
  <1> USE DEF TaskInv, TypeOK, RowsTypeOK, rows, procVars, taskVars, runVars,
              Goto, Complete, CompleteRow
  <1>1. status[j] = "running" /\ j \notin recorded
    BY DEF RowOfTask, RecordsMatchStatus
  <1>2. notified[j] = 0
    BY SMTT(40), <1>1 DEF NotifiedAtMostOnce
  <1>3. OrgOf[j] \in Orgs
    BY OrgOfAssumption
  <1>4. usage' \in [Orgs -> Nat]
    BY <1>3
  <1>5. TypeOK'
    BY <1>4
  <1>6. LockHeldByTask'
    BY DEF LockHeldByTask
  <1>7. (TasksOnlyWhenUp /\ ThreadsOwned)'
    BY <1>1 DEF TasksOnlyWhenUp, ThreadsOwned
  <1>8. RowOfTask'
    BY <1>1, <1>2 DEF RowOfTask
  <1>9. (RecordsMatchStatus /\ NotifiedAtMostOnce)'
    BY DEF RecordsMatchStatus, NotifiedAtMostOnce
  <1>10. (NoQueuedJobForgotten /\ RunningIsAttended)'
    BY DEF NoQueuedJobForgotten, RunningIsAttended
  <1>11. QED
    BY <1>5, <1>6, <1>7, <1>8, <1>9, <1>10
-----------------------------------------------------------------------------
LEMMA ThreadTaskInv ==
  ASSUME TaskInv, NEW j \in Jobs,
         \/ \E percent \in Marks : Report(j, percent)
         \/ \E percent \in Marks : ApplyProgress(j, percent)
         \/ ThreadReturnsUnheard(j)
  PROVE  TaskInv'
  <1> USE DEF TaskInv, TypeOK, RowsTypeOK, LockHeldByTask, TasksOnlyWhenUp,
          ThreadsOwned, RowOfTask, RecordsMatchStatus, NotifiedAtMostOnce,
          NoQueuedJobForgotten, RunningIsAttended, rows, procVars, taskVars,
          runVars
  <1>1. ASSUME NEW percent \in Marks, Report(j, percent)
        PROVE  TaskInv'
    BY <1>1, ExecutorAssumption DEF Report
  <1>2. ASSUME NEW percent \in Marks, ApplyProgress(j, percent)
        PROVE  TaskInv'
    BY <1>2, ExecutorAssumption DEF ApplyProgress
  <1>3. CASE ThreadReturnsUnheard(j)
    BY <1>3 DEF ThreadReturnsUnheard
  <1>4. QED
    BY <1>1, <1>2, <1>3

LEMMA NextTaskInv == TaskInv /\ [Next]_vars => TaskInv'
  <1> SUFFICES ASSUME TaskInv, [Next]_vars PROVE TaskInv'
    OBVIOUS
  <1>1. CASE UNCHANGED vars
    BY <1>1 DEF vars, rows, procVars, taskVars, runVars, TaskInv, TypeOK,
                RowsTypeOK, LockHeldByTask, TasksOnlyWhenUp, ThreadsOwned,
                RowOfTask, RecordsMatchStatus, NotifiedAtMostOnce,
                NoQueuedJobForgotten, RunningIsAttended
  <1>2. CASE Next
    BY <1>2, ProcessTaskInv, HandlerTaskInv, InsideTaskInv, TakeLockTaskInv,
       LeaveTaskInv, CompleteTaskInv, ThreadTaskInv
    DEF Next, TaskStep
  <1>3. QED
    BY <1>1, <1>2

-----------------------------------------------------------------------------
(* The semaphore.                                                           *)

LEMMA HoldersFinite ==
  /\ IsFiniteSet(PermitHolders)
  /\ Cardinality(PermitHolders) \in Nat
  BY JobsFinite, FS_Subset, FS_CardinalityType DEF PermitHolders

\* Threads that only end keep within the bound.
LEMMA FewerThreads ==
  ASSUME threads \in SUBSET Jobs, Cardinality(threads) <= MaxRuns,
         threads' \subseteq threads
  PROVE  Cardinality(threads') <= MaxRuns
  <1>1. IsFiniteSet(threads)
    BY JobsFinite, FS_Subset
  <1>2. /\ Cardinality(threads') <= Cardinality(threads)
        /\ Cardinality(threads') \in Nat /\ Cardinality(threads) \in Nat
    BY <1>1, FS_Subset, FS_CardinalityType
  <1>3. QED
    BY <1>2, ExecutorAssumption

\* Nothing about the permits changes.
LEMMA PermitsKept ==
  ASSUME TypeOK, RunsBounded, permits' = permits,
         PermitHolders' = PermitHolders, threads' \subseteq threads
  PROVE  RunsBounded'
  BY FewerThreads DEF RunsBounded, TypeOK

\* One permit is taken, by a task that had none.
LEMMA PermitTaken ==
  ASSUME TypeOK, RunsBounded, NEW j \in Jobs, TakePermit(j)
  PROVE  RunsBounded'
  <1>1. /\ j \notin PermitHolders
        /\ PermitHolders' = PermitHolders \cup {j}
    BY DEF TakePermit, Goto, PermitHolders, TypeOK
  <1>2. Cardinality(PermitHolders') = Cardinality(PermitHolders) + 1
    BY <1>1, HoldersFinite, FS_AddElement
  <1>3. permits' + Cardinality(PermitHolders') = MaxRuns
    BY <1>2, HoldersFinite DEF RunsBounded, TakePermit, TypeOK
  <1>4. threads' = threads
    BY DEF TakePermit, runVars
  <1>5. QED
    BY <1>3, <1>4 DEF RunsBounded

\* Every way out returns one permit, that of the task that leaves.
LEMMA PermitReturned ==
  ASSUME TypeOK, RunsBounded, NEW j \in Jobs,
         ClaimMisses(j) \/ FailSource(j) \/ Notify(j) \/ Raise(j)
  PROVE  RunsBounded'
  <1> USE DEF ClaimMisses, FailSource, Notify, Raise, Goto
  <1>1. PICK to \in PCs \ HoldsLock : pc' = [pc EXCEPT ![j] = to]
    OBVIOUS
  <1>2. /\ j \in PermitHolders
        /\ PermitHolders' = PermitHolders \ {j}
    BY <1>1 DEF PermitHolders, TypeOK
  <1>3. Cardinality(PermitHolders') = Cardinality(PermitHolders) - 1
    BY <1>2, HoldersFinite, FS_RemoveElement
  <1>4. permits' = permits + 1
    BY DEF Leave
  <1>5. permits' + Cardinality(PermitHolders') = MaxRuns
    BY <1>3, <1>4, HoldersFinite DEF RunsBounded, TypeOK
  <1>6. threads' \subseteq threads
    BY DEF runVars
  <1>7. Cardinality(threads') <= MaxRuns
    BY <1>6, FewerThreads DEF RunsBounded, TypeOK
  <1>8. QED
    BY <1>5, <1>7 DEF RunsBounded

\* A process without tasks has all its permits.
LEMMA NoHolders ==
  ASSUME TypeOK, RunsBounded, FreshTasks, threads' \subseteq threads
  PROVE  RunsBounded'
  <1>1. PermitHolders' = {}
    BY DEF PermitHolders, FreshTasks
  <1>2. Cardinality(PermitHolders') = 0
    BY <1>1, FS_EmptySet
  <1>3. permits' + Cardinality(PermitHolders') = MaxRuns
    BY <1>2, ExecutorAssumption DEF FreshTasks
  <1>4. Cardinality(threads') <= MaxRuns
    BY FewerThreads DEF RunsBounded, TypeOK
  <1>5. QED
    BY <1>3, <1>4 DEF RunsBounded

\* The run that starts is one of the permit holders'.
LEMMA RunStarted ==
  ASSUME TaskInv, RunsBounded, NEW j \in Jobs, StartRun(j)
  PROVE  RunsBounded'
  <1> USE DEF TaskInv, StartRun, Goto
  <1>1. PermitHolders' = PermitHolders /\ permits' = permits
    BY DEF PermitHolders, TypeOK
  <1>2. phase = "up"
    BY DEF TasksOnlyWhenUp
  <1>3. threads' \subseteq PermitHolders
    BY <1>2 DEF ThreadsOwned, PermitHolders
  <1>4. /\ Cardinality(threads') <= Cardinality(PermitHolders)
        /\ Cardinality(threads') \in Nat
    BY <1>3, HoldersFinite, FS_Subset, FS_CardinalityType
  <1>5. permits + Cardinality(PermitHolders) = MaxRuns /\ permits \in Nat
    BY DEF RunsBounded, TypeOK
  <1>6. Cardinality(threads') <= MaxRuns
    BY <1>4, <1>5, HoldersFinite, ExecutorAssumption
  <1>7. QED
    BY <1>1, <1>5, <1>6 DEF RunsBounded

LEMMA InitRunsBounded == Init => RunsBounded
  <1> SUFFICES ASSUME Init PROVE RunsBounded
    OBVIOUS
  <1>1. PermitHolders = {} /\ threads = {} /\ permits = MaxRuns
    BY DEF Init, PermitHolders
  <1>2. QED
    BY <1>1, FS_EmptySet, ExecutorAssumption DEF RunsBounded

LEMMA NextRunsBounded == TaskInv /\ RunsBounded /\ [Next]_vars => RunsBounded'
  <1> SUFFICES ASSUME TaskInv, RunsBounded, [Next]_vars PROVE RunsBounded'
    OBVIOUS
  <1> USE DEF vars, rows, procVars, taskVars, runVars
  <1>1. TypeOK
    BY DEF TaskInv
  <1>2. CASE Stop \/ Exit \/ Crash
    BY <1>1, <1>2, NoHolders DEF Stop, Exit, Crash, Die
  <1>3. CASE Start
    <2>1. PermitHolders = {} /\ PermitHolders' = {}
      BY <1>3 DEF Start, PermitHolders, TaskInv, TasksOnlyWhenUp
    <2>2. QED
      BY <1>1, <1>3, <2>1, PermitsKept DEF Start
  <1>4. ASSUME NEW j \in Jobs,
               \/ Submit(j) \/ TakeLock(j) \/ Claim(j) \/ EndRun(j)
               \/ FinishCrashed(j) \/ FinishCrashedFails(j)
               \/ \E outcome \in Outcomes : Complete(j, outcome)
        PROVE  RunsBounded'
    <2>1. PICK to \in PCs :
            /\ pc' = [pc EXCEPT ![j] = to]
            /\ pc[j] \in HoldsPermit <=> to \in HoldsPermit
      BY <1>4 DEF Submit, TakeLock, Claim, EndRun, FinishCrashed,
                  FinishCrashedFails, Complete, Goto, TaskInv, RowOfTask
    <2>2. PermitHolders' = PermitHolders
      BY <1>1, <2>1 DEF PermitHolders, TypeOK
    <2>3. permits' = permits /\ threads' \subseteq threads
      BY <1>4 DEF Submit, TakeLock, Claim, EndRun, FinishCrashed,
                  FinishCrashedFails, Complete
    <2>4. QED
      BY <1>1, <2>2, <2>3, PermitsKept
  <1>5. ASSUME pc' = pc, permits' = permits, threads' \subseteq threads
        PROVE  RunsBounded'
    BY <1>1, <1>5, PermitsKept DEF PermitHolders
  <1>6. CASE StartInMaintenance
    BY <1>5, <1>6 DEF StartInMaintenance
  <1>7. ASSUME NEW j \in Jobs,
               \/ Insert(j) \/ Cancel(j) \/ ThreadReturnsUnheard(j)
               \/ \E percent \in Marks : Report(j, percent)
               \/ \E percent \in Marks : ApplyProgress(j, percent)
        PROVE  RunsBounded'
    BY <1>5, <1>7 DEF Insert, Cancel, ThreadReturnsUnheard, Report,
                      ApplyProgress
  <1>8. CASE UNCHANGED vars
    BY <1>5, <1>8
  <1>9. QED
    BY <1>1, <1>2, <1>3, <1>4, <1>6, <1>7, <1>8, PermitTaken, PermitReturned,
       RunStarted
    DEF Next, TaskStep
-----------------------------------------------------------------------------
(* The theorems.                                                            *)

\* The inductive invariant holds in every reachable state.
THEOREM ExecutorInvariant == Spec => []IInv
  <1>1. Init => IInv
    BY InitTaskInv, InitRunsBounded DEF IInv
  <1>2. IInv /\ [Next]_vars => IInv'
    BY NextTaskInv, NextRunsBounded DEF IInv
  <1>3. QED
    BY <1>1, <1>2, PTL DEF Spec

\* Every variable keeps its type.
THEOREM ExecutorTypes == Spec => []TypeOK
  <1>1. IInv => TypeOK
    BY DEF IInv, TaskInv
  <1>2. QED
    BY <1>1, ExecutorInvariant, PTL

\* One run per organization at a time (executor.py:4), whatever the number
\* of permits, restarts and jobs.
THEOREM OneRunPerOrgHolds == Spec => []OneRunPerOrg
  <1>1. IInv => OneRunPerOrg
    <2> SUFFICES ASSUME IInv, NEW j \in Engaged, NEW k \in Engaged,
                        OrgOf[j] = OrgOf[k]
                 PROVE  j = k
      BY DEF OneRunPerOrg
    <2> USE DEF IInv, TaskInv
    <2>1. j \in Jobs /\ k \in Jobs
      BY DEF Engaged, TypeOK
    <2>2. CASE phase = "up"
      <3>1. pc[j] \in HoldsLock /\ pc[k] \in HoldsLock
        BY <2>2 DEF Engaged, ThreadsOwned
      <3>2. QED
        BY <2>1, <3>1, LockExclusive
    <2>3. CASE phase # "up"
      <3>1. j \in threads /\ k \in threads
        BY <2>1, <2>3 DEF Engaged, TasksOnlyWhenUp
      <3>2. QED
        BY <3>1 DEF ThreadsOwned
    <2>4. QED
      BY <2>2, <2>3
  <1>2. QED
    BY <1>1, ExecutorInvariant, PTL

\* At most MaxRuns runs at a time, and no permit leaks (executor.py:5).
THEOREM RunsBoundedHolds == Spec => []RunsBounded
  <1>1. IInv => RunsBounded
    BY DEF IInv
  <1>2. QED
    BY <1>1, ExecutorInvariant, PTL

\* No queued job is forgotten and no running row is unattended
\* (executor.py:151-167).
THEOREM NoJobLeftBehind == Spec => []NoJobForgotten
  <1>1. IInv => NoJobForgotten
    BY DEF IInv, TaskInv, NoJobForgotten
  <1>2. QED
    BY <1>1, ExecutorInvariant, PTL

\* A cancelled job never runs (executor.py:8).
THEOREM CancelledNeverRunsHolds == Spec => []CancelledNeverRuns
  <1>1. IInv => CancelledNeverRuns
    BY DEF IInv, TaskInv, CancelledNeverRuns, Engaged, RowOfTask, ThreadsOwned,
           RecordsMatchStatus, NotifiedAtMostOnce, TypeOK
  <1>2. QED
    BY <1>1, ExecutorInvariant, PTL

\* run.finished is sent at most once and only for a committed record.
THEOREM NotifiedAtMostOnceHolds == Spec => []NotifiedAtMostOnce
  <1>1. IInv => NotifiedAtMostOnce
    BY DEF IInv, TaskInv
  <1>2. QED
    BY <1>1, ExecutorInvariant, PTL

\* Nothing is announced of a cancelled job, and nothing twice
\* (executor.py:8, 254-274).
THEOREM AnnouncedTrulyHolds == Spec => []AnnouncedTruly
  BY CancelledNeverRunsHolds, NotifiedAtMostOnceHolds, PTL DEF AnnouncedTruly

-----------------------------------------------------------------------------
\* Every step of the executor is one of JobLifecycle's or leaves the rows
\* alone; its unconditional final UPDATE meets only running rows.
LEMMA StepImplements == IInv /\ [Next]_vars => [RowsNext]_rows
  <1> SUFFICES ASSUME IInv, [Next]_vars PROVE [RowsNext]_rows
    OBVIOUS
  <1>1. CASE UNCHANGED vars
    BY <1>1 DEF vars
  <1>2. CASE Start
    BY <1>2 DEF Start, RowsNext
  <1>3. CASE StartInMaintenance \/ Stop \/ Exit \/ Crash
    BY <1>3 DEF StartInMaintenance, Stop, Exit, Crash, Die
  <1>4. ASSUME NEW j \in Jobs, Insert(j) \/ Cancel(j) \/ Claim(j)
        PROVE  [RowsNext]_rows
    BY <1>4 DEF Insert, Cancel, Claim, RowsNext
  <1>5. ASSUME NEW j \in Jobs, FailSource(j) \/ FinishCrashed(j)
        PROVE  [RowsNext]_rows
    BY <1>5 DEF FailSource, FinishCrashed, FinishJob, RowsNext
  <1>6. ASSUME NEW j \in Jobs, NEW outcome \in Outcomes, Complete(j, outcome)
        PROVE  [RowsNext]_rows
    <2>1. status[j] = "running"
      BY <1>6 DEF Complete, Goto, IInv, TaskInv, RowOfTask
    <2>2. CompleteRunning(j, outcome)
      BY <1>6, <2>1 DEF Complete, CompleteRunning
    <2>3. QED
      BY <2>2 DEF RowsNext
  <1>7. ASSUME NEW j \in Jobs,
               \/ Submit(j) \/ TakeLock(j) \/ TakePermit(j) \/ ClaimMisses(j)
               \/ StartRun(j) \/ EndRun(j) \/ Notify(j) \/ Raise(j)
               \/ FinishCrashedFails(j) \/ ThreadReturnsUnheard(j)
               \/ \E percent \in Marks : Report(j, percent)
               \/ \E percent \in Marks : ApplyProgress(j, percent)
        PROVE  UNCHANGED rows
    BY <1>7 DEF Submit, TakeLock, TakePermit, ClaimMisses, StartRun, EndRun,
                Notify, Raise, FinishCrashedFails, ThreadReturnsUnheard,
                Report, ApplyProgress
  <1>8. QED
    BY <1>1, <1>2, <1>3, <1>4, <1>5, <1>6, <1>7 DEF Next, TaskStep

\* The executor implements the lifecycle of the rows.
THEOREM ExecutorImplementsLifecycle == Spec => RowsSpec
  <1>1. Init => RowsInit
    BY DEF Init
  <1>2. QED
    BY <1>1, StepImplements, ExecutorInvariant, PTL DEF Spec, RowsSpec

\* So it inherits what was proved of the rows alone: the plan counter ...
THEOREM UsageCountsSuccessesHolds == Spec => []UsageCountsSuccesses
  BY ExecutorImplementsLifecycle, UsageCorrect, PTL

\* ... the records ...
THEOREM RecordsMatchStatusHolds == Spec => []RecordsMatchStatus
  BY ExecutorImplementsLifecycle, RecordsCorrect, PTL

\* ... and that a finished job is never moved again.
THEOREM TerminalIsFinalHolds == Spec => TerminalIsFinal
  BY ExecutorImplementsLifecycle, FinishedStaysFinished, PTL
-----------------------------------------------------------------------------
\* Progress never goes back, and late coroutines leave finished jobs alone.
THEOREM ProgressForwardHolds == Spec => ProgressForward
  <1> DEFINE Forward ==
        \A j \in Jobs :
          /\ status[j] = "running" => progress'[j] >= progress[j]
          /\ status[j] \in Terminal => progress'[j] = progress[j]
  <1>1. IInv /\ [Next]_vars => [Forward]_vars
    <2> SUFFICES ASSUME IInv, Next PROVE Forward
      OBVIOUS
    <2>1. progress \in [Jobs -> 0..100]
      BY DEF IInv, TaskInv, TypeOK
    <2>2. CASE progress' = progress
      BY <2>1, <2>2
    <2>3. ASSUME NEW j \in Jobs, status[j] = "queued",
                 NEW p \in 0..100, progress' = [progress EXCEPT ![j] = p]
          PROVE  Forward
      BY <2>1, <2>3
    <2>4. ASSUME NEW j \in Jobs, Cancel(j) \/ Claim(j)
          PROVE  Forward
      BY <2>3, <2>4 DEF Cancel, CancelRow, Claim, ClaimRow
    <2>5. ASSUME NEW j \in Jobs, FailSource(j) \/ FinishCrashed(j)
          PROVE  Forward
      BY <2>1, <2>5 DEF FailSource, FinishCrashed, FinishJob
    <2>6. ASSUME NEW j \in Jobs, NEW outcome \in Outcomes,
                 Complete(j, outcome)
          PROVE  Forward
      BY <2>1, <2>6 DEF Complete, Goto, IInv, TaskInv, RowOfTask
    <2>7. ASSUME NEW j \in Jobs, NEW percent \in Marks,
                 ApplyProgress(j, percent)
          PROVE  Forward
      <3>1. percent \in 0..100
        BY ExecutorAssumption
      <3>2. QED
        BY <2>1, <2>7, <3>1 DEF ApplyProgress
    <2>8. ASSUME NEW j \in Jobs,
                 \/ Insert(j) \/ Submit(j) \/ TakeLock(j) \/ TakePermit(j)
                 \/ ClaimMisses(j) \/ StartRun(j) \/ EndRun(j) \/ Notify(j)
                 \/ Raise(j) \/ FinishCrashedFails(j)
                 \/ ThreadReturnsUnheard(j)
                 \/ \E percent \in Marks : Report(j, percent)
          PROVE  Forward
      BY <2>2, <2>8 DEF Insert, Submit, TakeLock, TakePermit, ClaimMisses,
                        StartRun, EndRun, Notify, Raise, FinishCrashedFails,
                        ThreadReturnsUnheard, Report
    <2>9. CASE Start \/ StartInMaintenance \/ Stop \/ Exit \/ Crash
      BY <2>2, <2>9 DEF Start, StartInMaintenance, Stop, Exit, Crash, Die
    <2>10. QED
      BY <2>4, <2>5, <2>6, <2>7, <2>8, <2>9 DEF Next, TaskStep
  <1>2. QED
    BY <1>1, ExecutorInvariant, PTL DEF Spec, ProgressForward
=============================================================================
