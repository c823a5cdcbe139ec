------------------------------ MODULE Retention ------------------------------
(***************************************************************************)
(* What one organization keeps, where, and for how long: uploads (a file   *)
(* and a row of the control database), runs (data rows and a runs row in   *)
(* the tenant's DuckDB, report files on disk, a RunRecord in the control   *)
(* database) and the purge pass of retention.py that removes them when     *)
(* they are due.  No transaction spans two of those places.  Uploads are   *)
(* stored by ingest_upload, jobs on them accepted by queue_job and run     *)
(* under the organization's lock, which the purge takes as well.           *)
(***************************************************************************)
EXTENDS Naturals

CONSTANTS
    Uploads,    \* requests that upload a file
    Jobs,       \* jobs that read an upload, each with its run
    NoUpload,   \* upload_id NULL
    NoJob,      \* no <pipeline>_latest report yet
    MaxFaults   \* bound: errors of the disk or a database, and restarts

ASSUME RetentionAssumption ==
    /\ NoUpload \notin Uploads
    /\ NoJob \notin Jobs
    /\ {"nobody", "purge"} \cap Jobs = {}
    /\ MaxFaults \in Nat

VARIABLES
    file,      \* the file in uploads/ exists
    row,       \* the row of uploads exists
    ingest,    \* where ingest_upload stands
    expired,   \* retention_until is past
    asked,     \* the upload that a queue_job has found and not yet used
    job,       \* Job.status; ended is any terminal status
    link,      \* Job.upload_id
    stage,     \* where the run of a job stands
    data,      \* rows with its run_id in the data tables
    runs,      \* its row in runs
    report,    \* its report files: none, on disk, on disk and named by runs
    latest,    \* the run whose report <pipeline>_latest is a copy of
    record,    \* its RunRecord: none, bare (no hashes), hashed, purged
    age,       \* which of started_at and created_at are before the cutoff
    holder,    \* who has the organization's lock
    pass,      \* where purge_org stands
    due,       \* what its `now` and `cutoff` say is due
    old,       \* old_runs
    targets,   \* the uploads, then the runs, that the pass removes
    todo,      \* those whose files are not yet unlinked
    stuck,     \* those with a file that could not be unlinked
    faults

uploadVars == <<file, row, ingest, expired>>
jobVars == <<asked, job, link>>
runVars == <<stage, data, runs, report, latest, record, age>>
passVars == <<pass, due, old, targets, todo, stuck>>
vars == <<uploadVars, jobVars, runVars, holder, passVars, faults>>

\* cut: ended by an error or a restart before upsert_run returned;
\* unrecorded: after it, and before the transaction that adds the RunRecord.
Running == {"reading", "wrote", "reported", "upserted"}
Stages == {"none", "done", "cut", "unrecorded"} \cup Running
Unpurged == {"bare", "hashed"}
Passes == {"idle", "waiting", "uploads", "unlink_uploads", "runs",
           "unlink_reports", "delete_runs", "mark"}
RunPasses == {"unlink_reports", "delete_runs", "mark"}
NothingDue == [uploads |-> {}, started |-> {}, created |-> {}]

TypeOK ==
    /\ file \in [Uploads -> BOOLEAN]
    /\ row \in [Uploads -> BOOLEAN]
    /\ ingest \in [Uploads -> {"new", "stored", "listed", "kept", "rejected",
                               "lost"}]
    /\ expired \in [Uploads -> BOOLEAN]
    /\ asked \in [Jobs -> Uploads \cup {NoUpload}]
    /\ job \in [Jobs -> {"absent", "queued", "running", "ended"}]
    /\ link \in [Jobs -> {u \in Uploads : row[u]} \cup {NoUpload}]
    /\ stage \in [Jobs -> Stages]
    /\ data \in [Jobs -> BOOLEAN]
    /\ runs \in [Jobs -> BOOLEAN]
    /\ report \in [Jobs -> {"none", "unnamed", "named"}]
    /\ latest \in Jobs \cup {NoJob}
    /\ record \in [Jobs -> {"none", "bare", "hashed", "purged"}]
    /\ age \in [Jobs -> {"new", "started", "created"}]
    /\ holder \in Jobs \cup {"nobody", "purge"}
    /\ pass \in Passes
    /\ due \in [uploads : SUBSET Uploads, started : SUBSET Jobs,
                created : SUBSET Jobs]
    /\ old \subseteq Jobs
    /\ targets \subseteq Uploads \cup Jobs
    /\ todo \subseteq targets
    /\ stuck \subseteq targets
    /\ faults \in 0 .. MaxFaults

Init ==
    /\ file = [u \in Uploads |-> FALSE]
    /\ row = [u \in Uploads |-> FALSE]
    /\ ingest = [u \in Uploads |-> "new"]
    /\ expired = [u \in Uploads |-> FALSE]
    /\ asked = [j \in Jobs |-> NoUpload]
    /\ job = [j \in Jobs |-> "absent"]
    /\ link = [j \in Jobs |-> NoUpload]
    /\ stage = [j \in Jobs |-> "none"]
    /\ data = [j \in Jobs |-> FALSE]
    /\ runs = [j \in Jobs |-> FALSE]
    /\ report = [j \in Jobs |-> "none"]
    /\ latest = NoJob
    /\ record = [j \in Jobs |-> "none"]
    /\ age = [j \in Jobs |-> "new"]
    /\ holder = "nobody"
    /\ pass = "idle"
    /\ due = NothingDue
    /\ old = {}
    /\ targets = {}
    /\ todo = {}
    /\ stuck = {}
    /\ faults = 0

Fault ==
    /\ faults < MaxFaults
    /\ faults' = faults + 1

-----------------------------------------------------------------------------
(* ingest_upload: the file is in place before the row is committed. *)

IngestGoes(u, from, to) ==
    /\ ingest[u] = from
    /\ ingest' = [ingest EXCEPT ![u] = to]

\* os.replace of the validated temporary file.
StoreFile(u) ==
    /\ IngestGoes(u, "new", "stored")
    /\ file' = [file EXCEPT ![u] = TRUE]
    /\ UNCHANGED <<row, expired, jobVars, runVars, holder, passVars, faults>>

\* The commit of the Upload row, after the columns were mapped.
InsertUpload(u) ==
    /\ IngestGoes(u, "stored", "listed")
    /\ row' = [row EXCEPT ![u] = TRUE]
    /\ UNCHANGED <<file, expired, jobVars, runVars, holder, passVars, faults>>

AnswerUpload(u) ==
    /\ IngestGoes(u, "listed", "kept")
    /\ UNCHANGED <<file, row, expired, jobVars, runVars, holder, passVars,
                   faults>>

\* The handlers of exceptions remove the final file: when the columns cannot
\* be mapped, and also when the statement after the commit (refresh) fails,
\* which leaves the committed row without a file.
RejectUpload(u) ==
    /\ \/ IngestGoes(u, "stored", "rejected") /\ UNCHANGED faults
       \/ IngestGoes(u, "listed", "rejected") /\ Fault
    /\ file' = [file EXCEPT ![u] = FALSE]
    /\ UNCHANGED <<row, expired, jobVars, runVars, holder, passVars>>

\* retention_until passes; it is at least a day after the upload.
Expire(u) ==
    /\ ingest[u] \in {"kept", "rejected"}
    /\ row[u]
    /\ ~expired[u]
    /\ expired' = [expired EXCEPT ![u] = TRUE]
    /\ UNCHANGED <<file, row, ingest, jobVars, runVars, holder, passVars,
                   faults>>

-----------------------------------------------------------------------------
(* queue_job: SELECT of the upload, further awaits, INSERT of the job. *)

\* The upload is looked up by id and organization, not by retention_until.
FindUpload(j, u) ==
    /\ job[j] = "absent"
    /\ asked[j] = NoUpload
    /\ row[u]
    /\ asked' = [asked EXCEPT ![j] = u]
    /\ UNCHANGED <<uploadVars, job, link, runVars, holder, passVars, faults>>

\* The foreign key refuses the INSERT when the row has gone since (500).
QueueJob(j) ==
    /\ asked[j] # NoUpload
    /\ asked' = [asked EXCEPT ![j] = NoUpload]
    /\ IF row[asked[j]]
       THEN /\ job' = [job EXCEPT ![j] = "queued"]
            /\ link' = [link EXCEPT ![j] = asked[j]]
       ELSE UNCHANGED <<job, link>>
    /\ UNCHANGED <<uploadVars, runVars, holder, passVars, faults>>

CancelJob(j) ==
    /\ job[j] = "queued"
    /\ job' = [job EXCEPT ![j] = "ended"]
    /\ UNCHANGED <<uploadVars, asked, link, runVars, holder, passVars, faults>>

-----------------------------------------------------------------------------
(* The executor and the run of a job, under the organization's lock. *)

HasSource(j) == link[j] # NoUpload /\ file[link[j]]

\* _execute: claimed, with a source file to read.
Claim(j) ==
    /\ job[j] = "queued"
    /\ holder = "nobody"
    /\ HasSource(j)
    /\ job' = [job EXCEPT ![j] = "running"]
    /\ stage' = [stage EXCEPT ![j] = "reading"]
    /\ holder' = j
    /\ UNCHANGED <<uploadVars, asked, link, data, runs, report, latest, record,
                   age, passVars, faults>>

\* _execute: claimed and finished as SOURCE_UNAVAILABLE, because the upload's
\* row is gone (upload_id NULL) or its file is.
ClaimWithoutSource(j) ==
    /\ job[j] = "queued"
    /\ holder = "nobody"
    /\ ~HasSource(j)
    /\ job' = [job EXCEPT ![j] = "ended"]
    /\ UNCHANGED <<uploadVars, asked, link, runVars, holder, passVars, faults>>

StageGoes(j, from, to) ==
    /\ stage[j] = from
    /\ stage' = [stage EXCEPT ![j] = to]

\* The rows of the source; a uksc run adds a preliminary runs row first.
WriteData(j) ==
    /\ StageGoes(j, "reading", "wrote")
    /\ data' = [data EXCEPT ![j] = TRUE]
    /\ runs' \in {runs, [runs EXCEPT ![j] = TRUE]}
    /\ UNCHANGED <<uploadVars, jobVars, report, latest, record, age, holder,
                   passVars, faults>>

\* ReportGenerator.write: json, md and html of the run, then the copies
\* <pipeline>_latest.
WriteReport(j) ==
    /\ StageGoes(j, "wrote", "reported")
    /\ report' = [report EXCEPT ![j] = "unnamed"]
    /\ latest' = j
    /\ UNCHANGED <<uploadVars, jobVars, data, runs, record, age, holder,
                   passVars, faults>>

\* upsert_run of a run that wrote its report: the row names the files.
UpsertRun(j) ==
    /\ StageGoes(j, "reported", "upserted")
    /\ runs' = [runs EXCEPT ![j] = TRUE]
    /\ report' = [report EXCEPT ![j] = "named"]
    /\ UNCHANGED <<uploadVars, jobVars, data, latest, record, age, holder,
                   passVars, faults>>

\* run() caught an exception: the runs row of a FAILED run names no files,
\* also when some were written before the exception.
UpsertFailedRun(j) ==
    /\ \/ StageGoes(j, "reading", "upserted") /\ UNCHANGED report
       \/ /\ StageGoes(j, "wrote", "upserted")
          /\ report' \in {report, [report EXCEPT ![j] = "unnamed"]}
    /\ runs' = [runs EXCEPT ![j] = TRUE]
    /\ UNCHANGED <<uploadVars, jobVars, data, latest, record, age, holder,
                   passVars, faults>>

\* The final transaction of _execute; _hash_reports hashes the named files.
Record(j) ==
    /\ StageGoes(j, "upserted", "done")
    /\ record' = [record EXCEPT
                     ![j] = IF report[j] = "named" THEN "hashed" ELSE "bare"]
    /\ job' = [job EXCEPT ![j] = "ended"]
    /\ holder' = "nobody"
    /\ UNCHANGED <<uploadVars, asked, link, data, runs, report, latest, age,
                   passVars, faults>>

Interrupted(s) ==
    CASE s \in {"reading", "wrote", "reported"} -> "cut"
      [] s = "upserted" -> "unrecorded"
      [] OTHER -> s

\* upsert_run or the final transaction raises: _run writes internal_error.
BreakRun(j) ==
    /\ stage[j] \in Running
    /\ Fault
    /\ stage' = [stage EXCEPT ![j] = Interrupted(stage[j])]
    /\ job' = [job EXCEPT ![j] = "ended"]
    /\ holder' = "nobody"
    /\ UNCHANGED <<uploadVars, asked, link, data, runs, report, latest, record,
                   age, passVars>>

\* The cutoff passes runs.started_at and later RunRecord.created_at; no run
\* lasts as long as the retention.
AgeStarted(j) ==
    /\ stage[j] \in {"done", "cut", "unrecorded"}
    /\ age[j] = "new"
    /\ age' = [age EXCEPT ![j] = "started"]
    /\ UNCHANGED <<uploadVars, jobVars, stage, data, runs, report, latest,
                   record, holder, passVars, faults>>

AgeCreated(j) ==
    /\ record[j] # "none"
    /\ age[j] = "started"
    /\ age' = [age EXCEPT ![j] = "created"]
    /\ UNCHANGED <<uploadVars, jobVars, stage, data, runs, report, latest,
                   record, holder, passVars, faults>>

-----------------------------------------------------------------------------
(* purge_org, called for the organization by retention_loop. *)

PassGoes(from, to) ==
    /\ pass = from
    /\ pass' = to

\* `now` and `cutoff` are taken before the lock.
StartPurge ==
    /\ PassGoes("idle", "waiting")
    /\ due' = [uploads |-> {u \in Uploads : expired[u]},
               started |-> {j \in Jobs : age[j] # "new"},
               created |-> {j \in Jobs : age[j] = "created"}]
    /\ UNCHANGED <<uploadVars, jobVars, runVars, holder, old, targets, todo,
                   stuck, faults>>

\* Variant: the pass does not take the organization's lock.
EnterPurgeUnlocked ==
    /\ PassGoes("waiting", "uploads")
    /\ UNCHANGED <<uploadVars, jobVars, runVars, holder, due, old, targets,
                   todo, stuck, faults>>

EnterPurge ==
    /\ PassGoes("waiting", "uploads")
    /\ holder = "nobody"
    /\ holder' = "purge"
    /\ UNCHANGED <<uploadVars, jobVars, runVars, due, old, targets, todo,
                   stuck, faults>>

\* Uploads that a queued or running job links to.
Busy(u) == \E j \in Jobs : link[j] = u /\ job[j] \in {"queued", "running"}

ChooseUploads ==
    LET chosen == {u \in due.uploads : row[u] /\ ~Busy(u)} IN
    /\ PassGoes("uploads", IF chosen = {} THEN "runs" ELSE "unlink_uploads")
    /\ targets' = chosen
    /\ todo' = chosen
    /\ UNCHANGED <<uploadVars, jobVars, runVars, holder, due, old, stuck,
                   faults>>

\* _purge_uploads_files, one file, in a worker thread; a file that is already
\* missing is removed, one that the system refuses to unlink is stuck.
UnlinkUpload(u) ==
    /\ pass = "unlink_uploads"
    /\ u \in todo
    /\ todo' = todo \ {u}
    /\ \/ /\ file' = [file EXCEPT ![u] = FALSE]
          /\ UNCHANGED <<stuck, faults>>
       \/ /\ file[u]
          /\ Fault
          /\ stuck' = stuck \cup {u}
          /\ UNCHANGED file
    /\ UNCHANGED <<row, ingest, expired, jobVars, runVars, holder, pass, due,
                   old, targets>>

\* Variant: the foreign key does not clear Job.upload_id.
DeleteUploadsOnly ==
    /\ PassGoes("unlink_uploads", "runs")
    /\ todo = {}
    /\ row' = [u \in Uploads |-> row[u] /\ u \notin targets \ stuck]
    /\ UNCHANGED <<file, ingest, expired, jobVars, runVars, holder, due, old,
                   targets, todo, stuck, faults>>

\* One transaction; ON DELETE SET NULL clears Job.upload_id.
DeleteUploads ==
    LET gone == targets \ stuck IN
    /\ PassGoes("unlink_uploads", "runs")
    /\ todo = {}
    /\ row' = [u \in Uploads |-> row[u] /\ u \notin gone]
    /\ link' = [j \in Jobs |-> IF link[j] \in gone THEN NoUpload ELSE link[j]]
    /\ UNCHANGED <<file, ingest, expired, asked, job, runVars, holder, due,
                   old, targets, todo, stuck, faults>>

ChooseRunsAs(chosen) ==
    /\ PassGoes("runs", "unlink_reports")
    /\ old' = {j \in due.created : record[j] \in Unpurged}
    /\ targets' = chosen
    /\ todo' = chosen
    /\ stuck' = {}
    /\ UNCHANGED <<uploadVars, jobVars, runVars, holder, due, faults>>

\* Variant: only the runs that have a RunRecord.
ChooseRecordedRuns ==
    ChooseRunsAs({j \in due.created : record[j] \in Unpurged})

\* old_runs by RunRecord.created_at, and _purge_tenant's targets: these and
\* every row of runs with an older started_at.
ChooseRuns ==
    ChooseRunsAs({j \in due.created : record[j] \in Unpurged}
                     \cup {j \in due.started : runs[j]})

\* The runs row names a file that exists.
Named(j) == runs[j] /\ report[j] = "named"

\* Variant: the rows of a run go although a file of it stays.
UnlinkReportForgiving(j) ==
    /\ pass = "unlink_reports"
    /\ j \in todo
    /\ todo' = todo \ {j}
    /\ \/ /\ report' = [report EXCEPT ![j] = IF Named(j) THEN "none" ELSE @]
          /\ UNCHANGED faults
       \/ Named(j) /\ Fault /\ UNCHANGED report
    /\ UNCHANGED <<uploadVars, jobVars, stage, data, runs, latest, record, age,
                   holder, pass, due, old, targets, stuck>>

\* _purge_tenant: the files that the runs row names, or a failure that keeps
\* the run for the next pass.
UnlinkReport(j) ==
    /\ pass = "unlink_reports"
    /\ j \in todo
    /\ todo' = todo \ {j}
    /\ \/ /\ report' = [report EXCEPT ![j] = IF Named(j) THEN "none" ELSE @]
          /\ UNCHANGED <<stuck, faults>>
       \/ /\ Named(j)
          /\ Fault
          /\ stuck' = stuck \cup {j}
          /\ UNCHANGED report
    /\ UNCHANGED <<uploadVars, jobVars, stage, data, runs, latest, record, age,
                   holder, pass, due, old, targets>>

Clean == targets \ stuck

\* DELETE from the data tables, then from runs; each statement commits.
DeleteData ==
    /\ PassGoes("unlink_reports", "delete_runs")
    /\ todo = {}
    /\ data' = [j \in Jobs |-> data[j] /\ j \notin Clean]
    /\ UNCHANGED <<uploadVars, jobVars, stage, runs, report, latest, record,
                   age, holder, due, old, targets, todo, stuck, faults>>

DeleteRuns ==
    /\ PassGoes("delete_runs", "mark")
    /\ runs' = [j \in Jobs |-> runs[j] /\ j \notin Clean]
    /\ UNCHANGED <<uploadVars, jobVars, stage, data, report, latest, record,
                   age, holder, due, old, targets, todo, stuck, faults>>

PassOver ==
    /\ pass' = "idle"
    /\ due' = NothingDue
    /\ old' = {}
    /\ targets' = {}
    /\ todo' = {}
    /\ stuck' = {}
    /\ holder' = IF holder = "purge" THEN "nobody" ELSE holder

\* report_purged_at of the old runs whose files are gone; the pass ends.
Mark ==
    /\ pass = "mark"
    /\ record' = [j \in Jobs |->
                     IF j \in old \ stuck THEN "purged" ELSE record[j]]
    /\ PassOver
    /\ UNCHANGED <<uploadVars, jobVars, stage, data, runs, report, latest, age,
                   faults>>

\* A database or the runner raises: purge_all logs it and the lock is free.
BreakPass ==
    /\ pass \notin {"idle", "waiting"}
    /\ Fault
    /\ PassOver
    /\ UNCHANGED <<uploadVars, jobVars, runVars>>

\* The process dies and starts again: requests, the run and the pass end
\* where they stand; start() abandons running jobs and submits queued ones.
Restart ==
    /\ Fault
    /\ ingest' = [u \in Uploads |->
                     CASE ingest[u] = "stored" -> "lost"
                       [] ingest[u] = "listed" -> "kept"
                       [] OTHER -> ingest[u]]
    /\ asked' = [j \in Jobs |-> NoUpload]
    /\ job' = [j \in Jobs |-> IF job[j] = "running" THEN "ended" ELSE job[j]]
    /\ stage' = [j \in Jobs |-> Interrupted(stage[j])]
    /\ pass' = "idle"
    /\ due' = NothingDue
    /\ old' = {}
    /\ targets' = {}
    /\ todo' = {}
    /\ stuck' = {}
    /\ holder' = "nobody"
    /\ UNCHANGED <<file, row, expired, link, data, runs, report, latest,
                   record, age>>

-----------------------------------------------------------------------------
IngestStep(u) ==
    \/ StoreFile(u)
    \/ InsertUpload(u)
    \/ AnswerUpload(u)
    \/ RejectUpload(u)
    \/ Expire(u)

RequestStep(j) ==
    \/ \E u \in Uploads : FindUpload(j, u)
    \/ QueueJob(j)
    \/ CancelJob(j)

ClaimStep(j) ==
    \/ Claim(j)
    \/ ClaimWithoutSource(j)

RunStep(j) ==
    \/ WriteData(j)
    \/ WriteReport(j)
    \/ UpsertRun(j)
    \/ UpsertFailedRun(j)
    \/ Record(j)

AgeStep(j) ==
    \/ AgeStarted(j)
    \/ AgeCreated(j)

PurgeStep ==
    \/ ChooseUploads
    \/ \E u \in Uploads : UnlinkUpload(u)
    \/ DeleteUploads
    \/ ChooseRuns
    \/ \E j \in Jobs : UnlinkReport(j)
    \/ DeleteData
    \/ DeleteRuns
    \/ Mark

Next ==
    \/ \E u \in Uploads : IngestStep(u)
    \/ \E j \in Jobs :
          \/ RequestStep(j)
          \/ ClaimStep(j)
          \/ RunStep(j)
          \/ AgeStep(j)
          \/ BreakRun(j)
    \/ StartPurge
    \/ EnterPurge
    \/ PurgeStep
    \/ BreakPass
    \/ Restart

Spec == Init /\ [][Next]_vars

\* retention_loop starts a pass again and again; asyncio.Lock is handed over
\* in the order of the waiters, so whoever waits for it gets it; threads and
\* statements return.
FairSpec ==
    /\ Spec
    /\ WF_vars(StartPurge)
    /\ SF_vars(EnterPurge)
    /\ WF_vars(PurgeStep)
    /\ \A j \in Jobs : SF_vars(ClaimStep(j)) /\ WF_vars(RunStep(j))

-----------------------------------------------------------------------------
\* While a run reads its upload the file stays: the purge shares the lock of
\* the run (retention.py:17, 135).  A rejected upload is the exception: its
\* own request removes the file.
SourceStays ==
    \A j \in Jobs :
        stage[j] = "reading" =>
            /\ link[j] # NoUpload
            /\ file[link[j]] \/ ingest[link[j]] = "rejected"

\* Nothing goes before it is due: an upload that was answered keeps its file
\* and row until retention_until, a finished run its rows and the report that
\* its hashes vouch for until the cutoff has passed its start
\* (docs/API.md:425).
KeptUntilDue ==
    /\ \A u \in Uploads :
          ingest[u] = "kept" /\ ~expired[u] => file[u] /\ row[u]
    /\ \A j \in Jobs :
          record[j] = "hashed" /\ age[j] = "new" =>
              runs[j] /\ report[j] = "named"

\* The purge takes nothing from a run that reads it, and nothing early.
NothingTakenEarly == SourceStays /\ KeptUntilDue

\* A set report_purged_at tells the truth over failures and restarts at any
\* point of earlier passes: no named file, no row of the run is left
\* (retention.py:6-9, models.py:194).
PurgedMeansGone ==
    \A j \in Jobs :
        record[j] = "purged" => ~runs[j] /\ ~data[j] /\ report[j] # "named"

\* What an upsert_run has recorded stays within reach of the next pass,
\* wherever earlier passes broke off: a named report file has its runs row,
\* and data rows have one or an unpurged RunRecord
\* (docs/ARCHITECTURE.md:90-92).
Reachable ==
    \A j \in Jobs :
        /\ report[j] = "named" => runs[j]
        /\ data[j] /\ stage[j] \in {"done", "unrecorded"} =>
              runs[j] \/ record[j] \in Unpurged

\* Wherever passes broke off, the marks are true and the rest is still named.
NothingOutOfReach == PurgedMeansGone /\ Reachable

\* An expired upload goes, file and row, once failures cease
\* (docs/ARCHITECTURE.md:86, 90-93).
DueUploadGoes ==
    \A u \in Uploads : row[u] /\ expired[u] ~> ~row[u] /\ ~file[u]

RunDue(j) ==
    \/ runs[j] /\ age[j] # "new"
    \/ age[j] = "created" /\ record[j] # "purged"

RunGone(j) ==
    /\ ~runs[j] /\ ~data[j] /\ report[j] # "named"
    /\ age[j] = "created" => record[j] = "purged"

\* An old run goes, with or without a RunRecord: its rows, the files they
\* name, and then report_purged_at is set (retention.py:6-9).
DueRunGoes == \A j \in Jobs : RunDue(j) ~> RunGone(j)

\* Once failures cease, everything that is due goes.
DueGoes == DueUploadGoes /\ DueRunGoes

\* "An upload that a queued or running job still reads is deleted only after
\* the job ends" (docs/SECURITY.md:67).
KeptWhileQueued ==
    \A j \in Jobs : job[j] \in {"queued", "running"} => HasSource(j)

\* "html, md and json reports; files removed after Org.retention_days"
\* (docs/ARCHITECTURE.md:56): no file with the report of a purged run.
ReportsExpire ==
    \A j \in Jobs : record[j] = "purged" => latest # j

-----------------------------------------------------------------------------
\* The inductive parts.  The lock: who works on the organization's data.
LockHeld ==
    /\ \A j \in Jobs :
          /\ stage[j] \in Running <=> job[j] = "running"
          /\ stage[j] \in Running => holder = j
          /\ asked[j] # NoUpload => job[j] = "absent"
          /\ job[j] \in {"absent", "queued"} => stage[j] = "none"
    /\ pass \notin {"idle", "waiting"} <=> holder = "purge"

\* The upload's file and row as ingest_upload leaves them.
UploadShape ==
    \A u \in Uploads :
        /\ ingest[u] = "new" => ~file[u] /\ ~row[u]
        /\ ingest[u] = "stored" => file[u] /\ ~row[u]
        /\ ingest[u] = "listed" => file[u] /\ row[u]
        /\ expired[u] => ingest[u] \in {"kept", "rejected"}

\* What a run has left behind when it stands at a stage.
RunShape ==
    \A j \in Jobs :
        /\ stage[j] \in {"none", "reading"} => ~data[j] /\ ~runs[j]
        /\ report[j] = "named" =>
              stage[j] \in {"upserted", "unrecorded", "done"}
        /\ stage[j] = "upserted" => runs[j]
        /\ record[j] # "none" => stage[j] = "done"
        /\ age[j] # "new" => stage[j] \in {"done", "cut", "unrecorded"}

\* What the pass has read is still true when it uses it, and what it has done.
PassPlan ==
    /\ due.uploads \subseteq {u \in Uploads : expired[u]}
    /\ due.started \cup due.created \subseteq {j \in Jobs : age[j] # "new"}
    /\ pass \in {"idle", "waiting", "uploads"} => targets = {}
    /\ pass = "unlink_uploads" => targets \subseteq due.uploads
    /\ pass \in RunPasses =>
          /\ targets \subseteq {j \in Jobs : age[j] # "new"}
          /\ old \subseteq targets
          /\ \A j \in old : record[j] \in Unpurged
          /\ \A j \in targets \ (todo \cup stuck) : report[j] # "named"
    /\ pass \in {"delete_runs", "mark"} =>
          todo = {} /\ \A j \in Clean : ~data[j]
    /\ pass = "mark" => \A j \in Clean : ~runs[j]

RetentionInv ==
    /\ TypeOK
    /\ LockHeld
    /\ UploadShape
    /\ RunShape
    /\ PassPlan
    /\ SourceStays
    /\ KeptUntilDue
    /\ PurgedMeansGone
    /\ Reachable
=============================================================================
