-------------------------- MODULE RuntimeMigration --------------------------
(***************************************************************************)
(* `cli migrate-runtime` (control/migrate_runtime.py): the files of a      *)
(* version-1 installation go to the default organization, then its         *)
(* database gets new report paths and the control database the runs.  It   *)
(* may break off anywhere and is called again; what already stands in the  *)
(* target directory stays.                                                 *)
(***************************************************************************)
EXTENDS Sequences, FiniteSets, Naturals

CONSTANTS
    OldRuns,     \* the runs in the old database
    MaxCalls    \* bound: calls of the command

ASSUME MigrationAssumption == MaxCalls \in Nat

\* What is moved, in this order: the two names of the audit log have one target.
Order == <<"db", "wal", "report", "upload", "audit", "old_audit">>
Items == {Order[n] : n \in DOMAIN Order}
Target(i) == IF i = "old_audit" THEN "audit" ELSE i
Columns == {"report_path", "report_json_path", "report_html_path"}

VARIABLES
    source,    \* what is in the old place
    target,    \* target name -> the item that stands there, "foreign" or "none"
    torn,      \* targets that are an incomplete copy
    given,     \* what was in the old place at first
    names,     \* columns of runs whose paths point to the old place
    known,     \* RunRecord rows of the old runs
    cursor,    \* the next item; past the last: the databases
    moved,     \* report.moved of this call
    conflicts, \* and report.conflicts
    attempts

migrationVars == <<source, target, torn, given, names, known, cursor, moved, conflicts, attempts>>

Resting == 0
AtDatabases == Len(Order) + 1
CallOver == AtDatabases + 1

MigrationInit ==
    /\ given \in SUBSET Items /\ source = given
    /\ \E taken \in SUBSET {"db", "report", "audit"} :
         target = [t \in Items |-> IF t \in taken THEN "foreign" ELSE "none"]
    /\ torn = {} /\ moved = {} /\ conflicts = {} /\ attempts = 0 /\ cursor = Resting
    /\ names = IF "db" \in given THEN Columns ELSE {}
    /\ known = {}

MigrationTypeOK ==
    /\ source \subseteq given /\ given \subseteq Items
    /\ target \in [Items -> Items \cup {"foreign", "none"}]
    /\ torn \subseteq Items /\ {moved, conflicts} \subseteq SUBSET Items
    /\ names \subseteq Columns /\ known \subseteq OldRuns
    /\ cursor \in 0 .. CallOver

-----------------------------------------------------------------------------
\* The command is called: on a fresh report.
CallMigration ==
    /\ cursor \in {Resting, CallOver} /\ attempts < MaxCalls
    /\ attempts' = attempts + 1
    /\ cursor' = 1 /\ moved' = {} /\ conflicts' = {}
    /\ UNCHANGED <<source, target, torn, given, names, known>>

\* _move_file of the next item: nothing there, a conflict, or a move; between
\* two file systems a move is a copy and a removal, and may stop in between.
MoveNext ==
    /\ cursor \in DOMAIN Order
    /\ LET i == Order[cursor]
           there == target[Target(i)] # "none"
       IN  \/ /\ i \notin source \/ there
              /\ conflicts' = IF i \in source THEN conflicts \cup {i} ELSE conflicts
              /\ cursor' = cursor + 1
              /\ UNCHANGED <<source, target, torn, moved>>
           \/ /\ i \in source /\ ~there
              /\ target' = [target EXCEPT ![Target(i)] = i]
              /\ moved' = moved \cup {i}
              /\ \/ source' = source \ {i} /\ torn' = torn /\ cursor' = cursor + 1
                 \/ source' = source /\ torn' \in {torn, torn \cup {i}} /\ cursor' = Resting
              /\ UNCHANGED conflicts
    /\ UNCHANGED <<given, names, known, attempts>>

\* A slip of DbIsOurs: only a database that this call has moved.
DbMovedNow == target["db"] # "none" /\ "db" \in moved

\* The database in the target directory is the one that was moved, now or
\* earlier; beside a conflict it is somebody else's.
DbIsOurs == target["db"] # "none" /\ "db" \notin conflicts

\* _rewrite_report_paths, one column at a time; each commits on its own.
RewritePaths ==
    /\ cursor = AtDatabases /\ DbIsOurs /\ target["db"] = "db"
    /\ \E c \in names : names' = names \ {c}
    /\ UNCHANGED <<source, target, torn, given, known, cursor, moved, conflicts, attempts>>

\* _backfill_run_records: the runs that are not known yet, in one commit; of
\* a database that is not ours, nothing.
Backfill ==
    /\ cursor = AtDatabases
    /\ IF DbIsOurs
       THEN /\ names = {} \/ target["db"] # "db"
            /\ known' = IF target["db"] = "db" THEN OldRuns ELSE known
       ELSE UNCHANGED known
    /\ cursor' = CallOver
    /\ UNCHANGED <<source, target, torn, given, names, moved, conflicts, attempts>>

\* The command breaks off.
MigrationStops ==
    /\ cursor \in 1 .. AtDatabases
    /\ cursor' = Resting
    /\ UNCHANGED <<source, target, torn, given, names, known, moved, conflicts, attempts>>

MigrationNext == CallMigration \/ MoveNext \/ RewritePaths \/ Backfill \/ MigrationStops

MigrationSpec == MigrationInit /\ [][MigrationNext]_migrationVars

-----------------------------------------------------------------------------
\* "Nothing is deleted or overwritten": each old file is whole in its old or
\* its new place, and what stood in the target stands there.  A call that ends
\* without a conflict, whichever calls broke off before it, has moved all, and
\* the database it leaves names new paths only and has its runs known.
NothingLostInMigration ==
    /\ \A i \in given : i \in source \/ (target[Target(i)] = i /\ i \notin torn)
    /\ cursor = CallOver /\ conflicts = {} =>
         /\ source = {}
         /\ "db" \in given => target["db"] = "db" /\ names = {} /\ known = OldRuns
    /\ "db" \in source /\ "db" \in conflicts => known = {} /\ names = Columns
=============================================================================
