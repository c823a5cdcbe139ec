---------------------------- MODULE ReportReads ----------------------------
(***************************************************************************)
(* How reports are written and read: ReportGenerator.write, the runs row,  *)
(* the hash in RunRecord, the purge by retention, and the readers, which   *)
(* take no lock: the report of /api/v1 and of the MCP tools, the report of *)
(* the selfhost routes, the artifact status and the details of a run.  A   *)
(* reader goes from RunRecord to the tenant database and from there to the *)
(* file, each in a step of its own.  The three formats go the same way.    *)
(***************************************************************************)
EXTENDS FiniteSets, Naturals

CONSTANTS
    Reported,   \* the runs of an organization
    Looks,      \* reads side by side
    Harms       \* bound: reports altered from outside

ASSUME ReportAssumption == Harms \in Nat

VARIABLES
    maker,   \* where a run stands
    paper,   \* its report file
    tenant,  \* its runs row: none, bare (no path), or whose path is current or of an old place
    entry,   \* its RunRecord: none, bare (no hash), hashed, purged
    overdue, \* runs older than the retention period
    purge,   \* the runs of the pass under way, by what is still to do
    look,    \* a read
    harmed

reportVars == <<maker, paper, tenant, entry, overdue, purge, look, harmed>>

Done == {"recorded", "unrecorded"}
Faces4 == {"report", "selfhost", "evidence", "detail"}
NoLook == [face |-> "report", of |-> "nothing", at |-> "idle", row |-> "none", body |-> "none",
           answer |-> "none"]
NoPurge == [at |-> "idle", runs |-> {}]

ReportInit ==
    /\ maker = [r \in Reported |-> "new"]
    /\ paper = [r \in Reported |-> "none"] /\ tenant = paper /\ entry = paper
    /\ overdue = {} /\ purge = NoPurge /\ harmed = {}
    /\ look = [i \in Looks |-> NoLook]

ReportTypeOK ==
    /\ maker \in [Reported -> Done \cup {"new", "writing", "written", "upserted", "hashed"}]
    /\ paper \in [Reported -> {"none", "half", "whole", "altered"}]
    /\ tenant \in [Reported -> {"none", "bare", "here", "elsewhere"}]
    /\ entry \in [Reported -> {"none", "bare", "hashed", "purged"}]
    /\ overdue \subseteq Reported /\ harmed \subseteq Reported
    /\ purge.at \in {"idle", "unlinked", "deleted"} /\ purge.runs \subseteq overdue
    /\ \A i \in Looks : look[i].face \in Faces4 /\ look[i].of \in Reported \cup {"nothing"}

-----------------------------------------------------------------------------
Stage(r, from, to) == maker[r] = from /\ maker' = [maker EXCEPT ![r] = to]

\* write(): a file is there, and empty, before its text is.
BeginReport(r) ==
    /\ Stage(r, "new", "writing")
    /\ paper' = [paper EXCEPT ![r] = "half"]
    /\ UNCHANGED <<tenant, entry, overdue, purge, look, harmed>>

EndReport(r) ==
    /\ Stage(r, "writing", "written")
    /\ paper' = [paper EXCEPT ![r] = "whole"]
    /\ UNCHANGED <<tenant, entry, overdue, purge, look, harmed>>

\* upsert_run, with the paths or, of a run that failed, without.
Upsert(r) ==
    /\ maker[r] \in {"new", "writing", "written"}
    /\ maker' = [maker EXCEPT ![r] = "upserted"]
    /\ \E named \in {"bare"} \cup (IF maker[r] = "written" THEN {"here"} ELSE {}) :
         tenant' = [tenant EXCEPT ![r] = named]
    /\ UNCHANGED <<paper, entry, overdue, purge, look, harmed>>

\* _hash_reports reads the files that the result names; POST /run ends here.
HashReports(r) ==
    /\ maker[r] = "upserted"
    /\ maker' \in {[maker EXCEPT ![r] = "hashed"], [maker EXCEPT ![r] = "unrecorded"]}
    /\ UNCHANGED <<paper, tenant, entry, overdue, purge, look, harmed>>

\* The final transaction of the job.
Record(r) ==
    /\ Stage(r, "hashed", "recorded")
    /\ entry' = [entry EXCEPT ![r] = IF tenant[r] = "here" THEN "hashed" ELSE "bare"]
    /\ UNCHANGED <<paper, tenant, overdue, purge, look, harmed>>

\* The run is cut off before its record is written.
BreakRun(r) ==
    /\ maker[r] \notin Done \cup {"new"}
    /\ maker' = [maker EXCEPT ![r] = "unrecorded"]
    /\ UNCHANGED <<paper, tenant, entry, overdue, purge, look, harmed>>

\* The retention period of a run ends.
GetsOld(r) ==
    /\ maker[r] \in Done /\ r \notin overdue
    /\ overdue' = overdue \cup {r}
    /\ UNCHANGED <<maker, paper, tenant, entry, purge, look, harmed>>

\* The service moves to another directory: what rows name is not there any
\* more, the file of the same name is.  Nothing runs meanwhile.
Relocate ==
    /\ \A r \in Reported : maker[r] \in Done \cup {"new"}
    /\ \A i \in Looks : look[i] = NoLook
    /\ purge = NoPurge
    /\ \E r \in Reported : tenant[r] = "here"
    /\ tenant' = [r \in Reported |-> IF tenant[r] = "here" THEN "elsewhere" ELSE tenant[r]]
    /\ UNCHANGED <<maker, paper, entry, overdue, purge, look, harmed>>

\* Somebody edits a report on the disk.
Alter(r) ==
    /\ paper[r] = "whole" /\ maker[r] = "recorded" /\ Cardinality(harmed) < Harms
    /\ paper' = [paper EXCEPT ![r] = "altered"]
    /\ harmed' = harmed \cup {r}
    /\ UNCHANGED <<maker, tenant, entry, overdue, purge, look>>

-----------------------------------------------------------------------------
\* A slip of Resolve: only where the row says.
ResolveThere(r, row) == row = "here" /\ paper[r] # "none"

\* resolve_report: where the row says, or the file of this name here.
Resolve(r, row) == row \in {"here", "elsewhere"} /\ paper[r] # "none"

\* _purge_tenant and the mark: the files that resolve, the rows, and the
\* records last, of the old runs whose files can be removed.  The selfhost
\* routes and the command line hold no lock, so runs may go on meanwhile.
PurgeFiles ==
    /\ purge = NoPurge
    /\ \E R \in (SUBSET {r \in overdue : tenant[r] # "none" \/ entry[r] \in {"bare", "hashed"}})
                \ {{}} :
         /\ paper' = [r \in Reported |-> IF r \in R /\ Resolve(r, tenant[r]) THEN "none" ELSE paper[r]]
         /\ purge' = [at |-> "unlinked", runs |-> R]
    /\ UNCHANGED <<maker, tenant, entry, overdue, look, harmed>>

PurgeRows ==
    /\ purge.at = "unlinked"
    /\ tenant' = [r \in Reported |-> IF r \in purge.runs THEN "none" ELSE tenant[r]]
    /\ purge' = [purge EXCEPT !.at = "deleted"]
    /\ UNCHANGED <<maker, paper, entry, overdue, look, harmed>>

MarkPurged ==
    /\ purge.at = "deleted"
    /\ entry' = [r \in Reported |-> IF r \in purge.runs /\ entry[r] # "none" THEN "purged" ELSE entry[r]]
    /\ purge' = NoPurge
    /\ UNCHANGED <<maker, paper, tenant, overdue, look, harmed>>

\* The process stops: its reads end and the pass does.
StopReads ==
    /\ purge' = NoPurge /\ look' = [i \in Looks |-> NoLook]
    /\ maker' = [r \in Reported |-> IF maker[r] \in Done \cup {"new"} THEN maker[r] ELSE "unrecorded"]
    /\ <<purge', look', maker'>> # <<purge, look, maker>>
    /\ UNCHANGED <<paper, tenant, entry, overdue, harmed>>

-----------------------------------------------------------------------------
Say(i, answer) == look' = [look EXCEPT ![i].at = "over", ![i].answer = answer]
Step(i, place) == look' = [look EXCEPT ![i].at = place]

\* A request for a run; the selfhost route asks the tenant database alone.
Ask(i, face, r) ==
    /\ look[i] = NoLook
    /\ look' = [look EXCEPT ![i].face = face, ![i].of = r,
                            ![i].at = IF face = "selfhost" THEN "row" ELSE "asked"]
    /\ UNCHANGED <<maker, paper, tenant, entry, overdue, purge, harmed>>

\* load_run_record, 404; of a report 410 and 404 without a hash.
LoadEntry(i) ==
    LET e == entry[look[i].of] IN
    /\ look[i].at = "asked"
    /\ IF e = "none" THEN Say(i, "unknown")
       ELSE IF look[i].face # "report" THEN Step(i, "row")
       ELSE IF e = "purged" THEN Say(i, "expired")
       ELSE IF e = "bare" THEN Say(i, "unknown")
       ELSE Step(i, "row")
    /\ UNCHANGED <<maker, paper, tenant, entry, overdue, purge, harmed>>

\* The row of the tenant database; evidence and details end with it.
ReadRow(i) ==
    LET row == tenant[look[i].of] IN
    /\ look[i].at = "row"
    /\ IF look[i].face \in {"evidence", "detail"} THEN Say(i, IF row = "none" THEN "empty" ELSE "served")
       ELSE look' = [look EXCEPT ![i].at = "path", ![i].row = row]
    /\ UNCHANGED <<maker, paper, tenant, entry, overdue, purge, harmed>>

\* The file is looked for; the selfhost route looks where the row says.
FindFile(i) ==
    LET k == look[i] IN
    /\ k.at = "path"
    /\ IF (k.face = "selfhost" /\ k.row = "elsewhere") \/ ~ Resolve(k.of, k.row)
       THEN Say(i, "gone") ELSE Step(i, "file")
    /\ UNCHANGED <<maker, paper, tenant, entry, overdue, purge, harmed>>

\* read_report_bytes, and for /api/v1 the comparison with the recorded hash.
ReadBytes(i) ==
    LET k == look[i]
        bytes == paper[k.of]
    IN  /\ k.at = "file"
        /\ look' = [look EXCEPT ![i].at = "over", ![i].body = bytes,
                       ![i].answer = IF bytes = "none" \/ (k.face = "report" /\ bytes # "whole")
                                     THEN "error" ELSE "served"]
        /\ UNCHANGED <<maker, paper, tenant, entry, overdue, purge, harmed>>

\* The answer is out.
Leave(i) ==
    /\ look[i].at = "over" /\ look' = [look EXCEPT ![i] = NoLook]
    /\ UNCHANGED <<maker, paper, tenant, entry, overdue, purge, harmed>>

ReportNext ==
    \/ \E r \in Reported :
         \/ BeginReport(r) \/ EndReport(r) \/ Upsert(r) \/ HashReports(r) \/ Record(r)
         \/ BreakRun(r) \/ GetsOld(r) \/ Alter(r)
         \/ \E i \in Looks, face \in Faces4 : Ask(i, face, r)
    \/ Relocate \/ PurgeFiles \/ PurgeRows \/ MarkPurged \/ StopReads
    \/ \E i \in Looks : LoadEntry(i) \/ ReadRow(i) \/ FindFile(i) \/ ReadBytes(i) \/ Leave(i)

ReportSpec == ReportInit /\ [][ReportNext]_reportVars

-----------------------------------------------------------------------------
\* Reads take no lock and go on while the purge does.  Until a run is due, its
\* recorded report is served whole, wherever the service has moved since, and
\* so are its details; only an edited file is refused.  "expired" is answered
\* of purged runs only; nobody is served half a report, and /api/v1 never
\* serves an edited one (docs/API.md:108, :113).
ReadsTellTheTruth ==
    \A i \in Looks : LET k == look[i] IN k.at = "over" =>
        /\ k.answer = "served" /\ k.face = "report" => k.body = "whole"
        /\ k.body # "half"
        /\ k.answer = "expired" => entry[k.of] = "purged"
        /\ k.answer \in {"gone", "error"} /\ k.face = "report" => k.of \in overdue \cup harmed
        /\ k.answer = "empty" => k.of \in overdue
=============================================================================
