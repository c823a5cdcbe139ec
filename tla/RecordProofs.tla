---------------------------- MODULE RecordProofs ----------------------------
(***************************************************************************)
(* What is kept and shown stays true for every number of runs, readers,    *)
(* packages, calls, lines, days and weeks: the reads of reports beside the *)
(* purge, the evidence and its baseline, the move of an old installation,  *)
(* the report on a file of orders, the dashboard.                          *)
(***************************************************************************)
EXTENDS ReportReads, UkscHistory, RuntimeMigration, ClientFile, DataHealth,
        FiniteSetTheorems, WellFoundedInduction, TLAPS

-----------------------------------------------------------------------------
(* Reports and their readers.  A reader has seen its run at an earlier      *)
(* place; ReadSoFar says what of it still holds, RunSoFar what the four     *)
(* stores and the writer of a run say of each other.                        *)

Upserted == Done \cup {"upserted", "hashed"}
Named == {"here", "elsewhere"}
Answers3 == {"served", "gone", "error"}

Readers ==
    [face : Faces4, of : Reported \cup {"nothing"},
     at : {"idle", "asked", "row", "path", "file", "over"},
     row : {"none", "bare"} \cup Named,
     body : {"none", "half", "whole", "altered"},
     answer : Answers3 \cup {"none", "unknown", "expired", "empty"}]

ReportTypes ==
    /\ maker \in [Reported -> Upserted \cup {"new", "writing", "written"}]
    /\ paper \in [Reported -> {"none", "half", "whole", "altered"}]
    /\ tenant \in [Reported -> {"none", "bare"} \cup Named]
    /\ entry \in [Reported -> {"none", "bare", "hashed", "purged"}]
    /\ look \in [Looks -> Readers]
    /\ overdue \subseteq Reported /\ harmed \subseteq Reported
    /\ purge \in [at : {"idle", "unlinked", "deleted"}, runs : SUBSET overdue]

\* A run that is not due has what its writer has made of it so far.
RunSoFar(r) ==
    /\ maker[r] = "written" => paper[r] = "whole"
    /\ tenant[r] # "none" => maker[r] \in Upserted
    /\ maker[r] \in {"upserted", "hashed", "recorded"} => r \in overdue \/ tenant[r] # "none"
    /\ tenant[r] \in Named =>
         paper[r] # "half" /\ (r \in overdue \/ paper[r] \in {"whole", "altered"})
    /\ entry[r] # "none" => maker[r] = "recorded"
    /\ entry[r] = "hashed" => r \in overdue \/ tenant[r] \in Named
    /\ paper[r] = "altered" => r \in harmed
    /\ r \in overdue => maker[r] \in Done

\* What a reader knows of its run where it stands.
ReadSoFar(k) ==
    LET r == k.of IN
    /\ k.at # "idle" => r \in Reported
    /\ k.at \in {"row", "path", "file"} =>
         /\ k.face # "selfhost" => entry[r] # "none"
         /\ k.face = "report" => r \in overdue \/ tenant[r] \in Named
    /\ k.at \in {"path", "file"} =>
         /\ k.face \notin {"evidence", "detail"}
         /\ k.face = "report" => r \in overdue \/ k.row \in Named
         /\ k.row \in Named => maker[r] \in Upserted /\ paper[r] # "half"
    /\ k.at = "file" => k.row \in Named
    /\ k.at # "over" => k.body = "none"

ToldTheTruth(k) ==
    k.at = "over" =>
        /\ k.answer = "served" /\ k.face = "report" => k.body = "whole"
        /\ k.body # "half"
        /\ k.answer = "expired" => entry[k.of] = "purged"
        /\ k.answer \in {"gone", "error"} /\ k.face = "report" => k.of \in overdue \cup harmed
        /\ k.answer = "empty" => k.of \in overdue

ReadersTrue == \A i \in Looks : ReadSoFar(look[i]) /\ ToldTheTruth(look[i])

ReportInv == ReportTypes /\ (\A r \in Reported : RunSoFar(r)) /\ ReadersTrue

LEMMA ReportInitInv == ReportInit => ReportInv
BY DEF ReportInit, ReportInv, ReportTypes, RunSoFar, ReadersTrue, ReadSoFar, ToldTheTruth,
       Readers, NoLook, NoPurge, Faces4, Upserted, Named, Done, Answers3

\* A step of a run or of the purge: what readers have seen stays true.
LEMMA ReadersKept ==
    ASSUME ReportInv, look' = look, overdue \subseteq overdue', harmed \subseteq harmed',
           \A r \in Reported :
             /\ entry[r] # "none" => entry'[r] # "none"
             /\ entry[r] = "purged" => entry'[r] = "purged"
             /\ tenant[r] \in Named => r \in overdue' \/ tenant'[r] \in Named
             /\ maker[r] \in Upserted => maker'[r] \in Upserted
             /\ maker[r] \in Upserted /\ paper[r] # "half" => paper'[r] # "half"
    PROVE  ReadersTrue'
<1> SUFFICES ASSUME NEW i \in Looks
             PROVE  ReadSoFar(look[i])' /\ ToldTheTruth(look[i])'
  BY DEF ReadersTrue
<1>1. look[i] \in Readers /\ ReadSoFar(look[i]) /\ ToldTheTruth(look[i])
  BY DEF ReportInv, ReportTypes, ReadersTrue
<1>2. ReadSoFar(look[i])'
  BY <1>1 DEF ReadSoFar, Readers
<1>3. ToldTheTruth(look[i])'
  BY <1>1 DEF ToldTheTruth, ReadSoFar, Readers
<1>4. QED
  BY <1>2, <1>3

\* The run itself: its files, its row, its record, its age.
LEMMA RunStep ==
    ASSUME ReportInv, NEW r \in Reported,
           \/ BeginReport(r) \/ EndReport(r) \/ Upsert(r) \/ HashReports(r) \/ Record(r)
           \/ BreakRun(r) \/ GetsOld(r) \/ Alter(r)
    PROVE  ReportInv'
<1> USE DEF Upserted, Named, Done
<1>1. RunSoFar(r)
  BY DEF ReportInv
<1>2. ReportTypes
  BY DEF ReportInv
<1>3. CASE BeginReport(r) \/ EndReport(r)
  <2>1. ReportTypes' /\ \A q \in Reported : RunSoFar(q)'
    BY <1>1, <1>2, <1>3 DEF ReportInv, BeginReport, EndReport, Stage, ReportTypes, RunSoFar
  <2>2. ReadersTrue'
    BY <1>1, <1>2, <1>3, ReadersKept DEF BeginReport, EndReport, Stage, ReportTypes, RunSoFar
  <2>3. QED
    BY <2>1, <2>2 DEF ReportInv
<1>4. CASE Upsert(r)
  <2>1. ReportTypes' /\ \A q \in Reported : RunSoFar(q)'
    BY <1>1, <1>2, <1>4 DEF ReportInv, Upsert, ReportTypes, RunSoFar
  <2>2. ReadersTrue'
    BY <1>1, <1>2, <1>4, ReadersKept DEF Upsert, ReportTypes, RunSoFar
  <2>3. QED
    BY <2>1, <2>2 DEF ReportInv
<1>5. CASE HashReports(r) \/ Record(r) \/ BreakRun(r)
  <2>1. ReportTypes' /\ \A q \in Reported : RunSoFar(q)'
    BY <1>1, <1>2, <1>5 DEF ReportInv, HashReports, Record, BreakRun, Stage, ReportTypes, RunSoFar
  <2>2. ReadersTrue'
    BY <1>1, <1>2, <1>5, ReadersKept DEF HashReports, Record, BreakRun, Stage, ReportTypes, RunSoFar
  <2>3. QED
    BY <2>1, <2>2 DEF ReportInv
<1>6. CASE GetsOld(r) \/ Alter(r)
  <2>1. ReportTypes' /\ \A q \in Reported : RunSoFar(q)'
    BY <1>1, <1>2, <1>6 DEF ReportInv, GetsOld, Alter, ReportTypes, RunSoFar
  <2>2. ReadersTrue'
    BY <1>1, <1>2, <1>6, ReadersKept DEF GetsOld, Alter, ReportTypes, RunSoFar
  <2>3. QED
    BY <2>1, <2>2 DEF ReportInv
<1>7. QED
  BY <1>3, <1>4, <1>5, <1>6

\* The purge takes from runs that are due only; a move of the directory
\* leaves the names; a stop ends what is under way.
LEMMA AllRunsStep ==
    ASSUME ReportInv, Relocate \/ PurgeFiles \/ PurgeRows \/ MarkPurged \/ StopReads
    PROVE  ReportInv'
<1> USE DEF Upserted, Named, Done
<1>1. ReportTypes /\ (\A r \in Reported : RunSoFar(r)) /\ ReadersTrue
  BY DEF ReportInv
<1>2. CASE Relocate
  <2>1. ReportTypes' /\ \A q \in Reported : RunSoFar(q)'
    BY <1>1, <1>2 DEF Relocate, ReportTypes, RunSoFar
  <2>2. ReadersTrue'
    BY <1>1, <1>2, ReadersKept DEF Relocate, ReportTypes
  <2>3. QED
    BY <2>1, <2>2 DEF ReportInv
<1>3. CASE PurgeFiles
  <2>1. ReportTypes' /\ \A q \in Reported : RunSoFar(q)'
    BY <1>1, <1>3 DEF PurgeFiles, ReportTypes, RunSoFar
  <2>2. ReadersTrue'
    BY <1>1, <1>3, ReadersKept DEF PurgeFiles, ReportTypes
  <2>3. QED
    BY <2>1, <2>2 DEF ReportInv
<1>4. CASE PurgeRows \/ MarkPurged
  <2>1. ReportTypes' /\ \A q \in Reported : RunSoFar(q)'
    BY <1>1, <1>4 DEF PurgeRows, MarkPurged, NoPurge, ReportTypes, RunSoFar
  <2>2. ReadersTrue'
    BY <1>1, <1>4, ReadersKept DEF PurgeRows, MarkPurged, ReportTypes
  <2>3. QED
    BY <2>1, <2>2 DEF ReportInv
<1>5. CASE StopReads
  <2>1. ReportTypes' /\ \A q \in Reported : RunSoFar(q)'
    BY <1>1, <1>5 DEF StopReads, NoPurge, NoLook, Readers, Faces4, Answers3, ReportTypes, RunSoFar
  <2>2. ReadersTrue'
    BY <1>1, <1>5 DEF StopReads, NoLook, ReadersTrue, ReadSoFar, ToldTheTruth
  <2>3. QED
    BY <2>1, <2>2 DEF ReportInv
<1>6. QED
  BY <1>2, <1>3, <1>4, <1>5

\* One reader goes on.
LEMMA OneReader ==
    ASSUME ReportInv, NEW i \in Looks, NEW k \in Readers, look' = [look EXCEPT ![i] = k],
           UNCHANGED <<maker, paper, tenant, entry, overdue, purge, harmed>>,
           ReadSoFar(k), ToldTheTruth(k)
    PROVE  ReportInv'
<1>1. ReportTypes' /\ \A r \in Reported : RunSoFar(r)'
  BY DEF ReportInv, ReportTypes, RunSoFar
<1>2. \A j \in Looks : look'[j] = IF j = i THEN k ELSE look[j]
  BY DEF ReportInv, ReportTypes
<1>3. ReadersTrue'
  BY <1>2 DEF ReportInv, ReadersTrue, ReadSoFar, ToldTheTruth
<1>4. QED
  BY <1>1, <1>3 DEF ReportInv

\* The actions of a reader: what it takes over it has just seen.
LEMMA ReaderStep ==
    ASSUME ReportInv, NEW i \in Looks,
           \/ LoadEntry(i) \/ ReadRow(i) \/ FindFile(i) \/ ReadBytes(i) \/ Leave(i)
           \/ \E r \in Reported, face \in Faces4 : Ask(i, face, r)
    PROVE  ReportInv'
<1> USE DEF Named
<1>1. /\ ReportTypes /\ look[i] \in Readers /\ ReadSoFar(look[i]) /\ ToldTheTruth(look[i])
      /\ \A r \in Reported : RunSoFar(r)
  BY DEF ReportInv, ReportTypes, ReadersTrue
<1>2. look \in [Looks -> Readers]
  BY <1>1 DEF ReportTypes
<1>3. ASSUME NEW k \in Readers, look' = [look EXCEPT ![i] = k],
             UNCHANGED <<maker, paper, tenant, entry, overdue, purge, harmed>>,
             ReadSoFar(k), ToldTheTruth(k)
      PROVE  ReportInv'
  BY <1>3, OneReader
<1>4. ASSUME NEW r \in Reported, NEW face \in Faces4, Ask(i, face, r)
      PROVE  ReportInv'
  <2> DEFINE k == [NoLook EXCEPT !.face = face, !.of = r,
                                 !.at = IF face = "selfhost" THEN "row" ELSE "asked"]
  <2>1. look' = [look EXCEPT ![i] = k]
    BY <1>2, <1>4 DEF Ask, NoLook, Readers
  <2>2. k \in Readers /\ ReadSoFar(k) /\ ToldTheTruth(k)
    BY DEF NoLook, Readers, ReadSoFar, ToldTheTruth, Faces4, Answers3
  <2>3. QED
    BY <1>3, <1>4, <2>1, <2>2 DEF Ask
<1>5. CASE LoadEntry(i)
  <2> DEFINE k == look'[i]
  <2>1. look' = [look EXCEPT ![i] = k] /\ k \in Readers
    BY <1>1, <1>2, <1>5 DEF LoadEntry, Say, Step, Readers, Answers3
  <2> DEFINE r == look[i].of
  <2>2. /\ look[i].at = "asked" /\ look[i].body = "none" /\ r \in Reported
        /\ entry[r] \in {"none", "bare", "hashed", "purged"}
        /\ entry[r] = "hashed" => r \in overdue \/ tenant[r] \in Named
    BY <1>1, <1>5 DEF LoadEntry, ReadSoFar, ReportTypes, RunSoFar
  <2>3. \/ k = [look[i] EXCEPT !.at = "over", !.answer = "unknown"]
        \/ entry[r] = "purged" /\ k = [look[i] EXCEPT !.at = "over", !.answer = "expired"]
        \/ /\ entry[r] # "none"
           /\ look[i].face = "report" => entry[r] = "hashed"
           /\ k = [look[i] EXCEPT !.at = "row"]
    BY <1>1, <1>2, <1>5, <2>2 DEF LoadEntry, Say, Step
  <2>4. ReadSoFar(k)
    <3> HIDE DEF k
    <3>1. CASE k.at = "over"
      BY <1>1, <2>2, <2>3, <3>1 DEF ReadSoFar, Readers
    <3>2. CASE k = [look[i] EXCEPT !.at = "row"]
      BY <1>1, <2>2, <2>3, <3>2 DEF ReadSoFar, Readers
    <3>3. QED
      BY <1>1, <2>3, <3>1, <3>2 DEF Readers
  <2>5. ToldTheTruth(k)
    BY <1>1, <2>2, <2>3 DEF ToldTheTruth, Readers
  <2>6. QED
    BY <1>3, <1>5, <2>1, <2>4, <2>5 DEF LoadEntry
<1>6. CASE ReadRow(i)
  <2> DEFINE k == look'[i]
  <2>1. look' = [look EXCEPT ![i] = k] /\ k \in Readers
    BY <1>1, <1>2, <1>6 DEF ReadRow, Say, Readers, Answers3, ReadSoFar, ReportTypes
  <2>2. ReadSoFar(k) /\ ToldTheTruth(k)
    BY <1>1, <1>2, <1>6 DEF ReadRow, Say, Readers, Faces4, ReadSoFar, ToldTheTruth, RunSoFar, ReportTypes
  <2>3. QED
    BY <1>3, <1>6, <2>1, <2>2 DEF ReadRow
<1>7. CASE FindFile(i)
  <2> DEFINE k == look'[i]
  <2>1. look' = [look EXCEPT ![i] = k] /\ k \in Readers
    BY <1>1, <1>2, <1>7 DEF FindFile, Say, Step, Readers, Answers3
  <2>2. ReadSoFar(k) /\ ToldTheTruth(k)
    BY <1>1, <1>2, <1>7 DEF FindFile, Resolve, Say, Step, Readers, ReadSoFar, ToldTheTruth, RunSoFar
  <2>3. QED
    BY <1>3, <1>7, <2>1, <2>2 DEF FindFile
<1>8. CASE ReadBytes(i)
  <2> DEFINE k == look'[i]
  <2>1. look' = [look EXCEPT ![i] = k] /\ k \in Readers
    BY ZenonT(60), <1>1, <1>2, <1>8 DEF ReadBytes, Readers, Answers3, ReadSoFar, ReportTypes
  <2>2. ReadSoFar(k) /\ ToldTheTruth(k)
    BY <1>1, <1>2, <1>8 DEF ReadBytes, Readers, ReadSoFar, ToldTheTruth, RunSoFar, ReportTypes
  <2>3. QED
    BY <1>3, <1>8, <2>1, <2>2 DEF ReadBytes
<1>9. CASE Leave(i)
  <2>1. NoLook \in Readers /\ ReadSoFar(NoLook) /\ ToldTheTruth(NoLook)
    BY DEF NoLook, Readers, ReadSoFar, ToldTheTruth, Faces4, Answers3
  <2>2. QED
    BY <1>3, <1>9, <2>1 DEF Leave
<1>10. QED
  BY <1>4, <1>5, <1>6, <1>7, <1>8, <1>9

LEMMA ReportStep == ReportInv /\ [ReportNext]_reportVars => ReportInv'
<1> SUFFICES ASSUME ReportInv, [ReportNext]_reportVars
             PROVE  ReportInv'
  OBVIOUS
<1>1. CASE UNCHANGED reportVars
  BY <1>1 DEF reportVars, ReportInv, ReportTypes, RunSoFar, ReadersTrue, ReadSoFar, ToldTheTruth
<1>2. CASE ReportNext
  BY <1>2, RunStep, AllRunsStep, ReaderStep DEF ReportNext
<1>3. QED
  BY <1>1, <1>2

\* No answer about a report is untrue, however many readers go on beside its
\* writer, the purge, an edit of the file and a move of the directory
\* (routes of runs.py and routes.py, which take no lock).
THEOREM ReadsTellTheTruthHolds == ReportSpec => []ReadsTellTheTruth
<1>1. ReportInv => ReadsTellTheTruth
  BY DEF ReportInv, ReadersTrue, ToldTheTruth, ReadsTellTheTruth
<1>2. QED
  BY <1>1, ReportInitInv, ReportStep, PTL DEF ReportSpec

\* Writers, rows, records and readers keep their types.
THEOREM ReportTypesHold == ReportSpec => []ReportTypeOK
<1>1. ReportInv => ReportTypeOK
  BY DEF ReportInv, ReportTypes, ReportTypeOK, Readers, Upserted, Named
<1>2. QED
  BY <1>1, ReportInitInv, ReportStep, PTL DEF ReportSpec

-----------------------------------------------------------------------------
(* The move of an old installation.  What a call has passed is moved or a   *)
(* conflict of it, a torn copy still has its original, and while the old    *)
(* database is in its place nothing is taken from the one that stands in    *)
(* the target.                                                              *)

MigrationTypes ==
    /\ given \subseteq Items /\ source \subseteq given /\ torn \subseteq source
    /\ target \in [Items -> Items \cup {"foreign", "none"}]
    /\ moved \subseteq Items /\ conflicts \subseteq Items
    /\ names \subseteq Columns /\ known \subseteq OldRuns
    /\ cursor \in 0 .. CallOver

MovedOrKept == \A i \in torn \cup (given \ source) : target[Target(i)] = i

Passed == \A n \in DOMAIN Order : n < cursor => Order[n] \notin source \/ Order[n] \in conflicts

OldDatabase ==
    /\ "db" \in source => known = {} /\ names = Columns
    /\ "db" \notin given => target["db"] # "db"
    /\ cursor = CallOver /\ "db" \in given /\ "db" \notin conflicts => names = {} /\ known = OldRuns

MigrationInv == MigrationTypes /\ MovedOrKept /\ Passed /\ OldDatabase

LEMMA OrderFacts ==
    /\ DOMAIN Order = 1 .. 6 /\ AtDatabases = 7 /\ CallOver = 8
    /\ Items = {"db", "wal", "report", "upload", "audit", "old_audit"}
    /\ Order[1] = "db"
    /\ \A n \in 1 .. 6 : Order[n] \in Items /\ (Order[n] = "db" <=> n = 1)
    /\ \A i \in Items : \E n \in 1 .. 6 : Order[n] = i
<1>1. Len(Order) = 6 /\ DOMAIN Order = 1 .. 6
  BY DEF Order
<1>2. /\ Order[1] = "db" /\ Order[2] = "wal" /\ Order[3] = "report"
      /\ Order[4] = "upload" /\ Order[5] = "audit" /\ Order[6] = "old_audit"
  BY DEF Order
<1>3. \A n \in 1 .. 6 : n = 1 \/ n = 2 \/ n = 3 \/ n = 4 \/ n = 5 \/ n = 6
  OBVIOUS
<1>4. Items = {"db", "wal", "report", "upload", "audit", "old_audit"}
  BY <1>1, <1>2, <1>3 DEF Items
<1>5. QED
  BY <1>1, <1>2, <1>3, <1>4 DEF AtDatabases, CallOver

LEMMA MigrationInitInv == MigrationInit => MigrationInv
BY OrderFacts DEF MigrationInit, MigrationInv, MigrationTypes, MovedOrKept, Passed, OldDatabase,
   Resting

\* One item: it stays, it is moved, or the move breaks off with its original
\* still there.
LEMMA MoveStep == ASSUME MigrationInv, MoveNext PROVE MigrationInv'
<1> DEFINE i == Order[cursor]
<1> USE DEF Resting
<1>0. /\ given \subseteq Items /\ source \subseteq given /\ torn \subseteq source
      /\ target \in [Items -> Items \cup {"foreign", "none"}]
      /\ moved \subseteq Items /\ conflicts \subseteq Items
      /\ names \subseteq Columns /\ known \subseteq OldRuns
      /\ cursor \in 0 .. 8
  BY OrderFacts DEF MigrationInv, MigrationTypes
<1>1. /\ cursor \in 1 .. 6 /\ i \in Items /\ (i = "db" <=> cursor = 1)
      /\ Target(i) \in Items /\ (Target(i) = "db" <=> i = "db")
      /\ UNCHANGED <<given, names, known, attempts>>
  BY OrderFacts DEF MoveNext, Target
<1>2. CASE (i \notin source \/ target[Target(i)] # "none") /\ UNCHANGED <<source, target, torn, moved>>
           /\ conflicts' = (IF i \in source THEN conflicts \cup {i} ELSE conflicts)
           /\ cursor' = cursor + 1
  <2> HIDE DEF i
  <2>1. MovedOrKept'
    BY <1>1, <1>2 DEF MigrationInv, MovedOrKept
  <2>2. MigrationTypes'
    <3>1. conflicts' \subseteq Items
      BY <1>0, <1>1, <1>2
    <3>2. cursor' \in 0 .. CallOver
      BY <1>1, <1>2, OrderFacts
    <3>3. QED
      BY <1>0, <1>1, <1>2, <3>1, <3>2 DEF MigrationTypes
  <2>3. Passed' /\ OldDatabase'
    <3> USE DEF i
    <3>1. QED
      BY <1>1, <1>2, OrderFacts DEF MigrationInv, MigrationTypes, Passed, OldDatabase
  <2>4. QED
    BY <2>1, <2>2, <2>3 DEF MigrationInv
<1>3. CASE /\ i \in source /\ target[Target(i)] = "none"
           /\ target' = [target EXCEPT ![Target(i)] = i]
           /\ moved' = moved \cup {i} /\ UNCHANGED conflicts
           /\ \/ source' = source \ {i} /\ torn' = torn /\ cursor' = cursor + 1
              \/ source' = source /\ torn' \in {torn, torn \cup {i}} /\ cursor' = Resting
  <2>1. /\ source' \subseteq source /\ (i \in source' \/ i \notin torn')
        /\ torn' \subseteq source' /\ cursor' \in {Resting, cursor + 1}
        /\ cursor' = Resting \/ i \notin source'
        /\ source \ source' \subseteq {i}
    <3>1. i \notin torn
      BY <1>1, <1>3, OrderFacts DEF MigrationInv, MovedOrKept
    <3> HIDE DEF i
    <3>2. QED
      BY <1>0, <1>1, <1>3, <3>1
  <2>2. MigrationTypes'
    <3> HIDE DEF i
    <3>1. target' \in [Items -> Items \cup {"foreign", "none"}] /\ moved' \subseteq Items
      BY <1>0, <1>1, <1>3
    <3>2. cursor' \in 0 .. CallOver
      BY <1>1, <2>1, OrderFacts
    <3>3. QED
      BY <1>0, <1>1, <1>3, <2>1, <3>1, <3>2 DEF MigrationTypes
  <2>3. MovedOrKept'
    <3> SUFFICES ASSUME NEW j \in torn' \cup (given \ source')
                 PROVE  target'[Target(j)] = j
      BY <1>1 DEF MovedOrKept
    <3>1. CASE j = i
      BY <1>0, <1>1, <1>3, <3>1
    <3>2. CASE j # i
      <4>1. j \in torn \cup (given \ source) /\ target[Target(j)] = j /\ j # "none" /\ Target(j) \in Items
        BY <1>0, <1>3, <2>1, <3>2, OrderFacts DEF MigrationInv, MovedOrKept, Target
      <4>2. Target(j) # Target(i)
        BY <1>3, <4>1
      <4>3. QED
        BY <1>0, <1>1, <1>3, <4>1, <4>2
    <3>3. QED
      BY <3>1, <3>2
  <2>4. Passed'
    BY <1>1, <1>3, <2>1, OrderFacts DEF MigrationInv, MigrationTypes, Passed
  <2>5. OldDatabase'
    BY <1>1, <1>3, <2>1, OrderFacts DEF MigrationInv, MigrationTypes, OldDatabase
  <2>6. QED
    BY <2>2, <2>3, <2>4, <2>5 DEF MigrationInv
<1>4. QED
  BY <1>1, <1>2, <1>3 DEF MoveNext

\* The two databases: only once the old one is not in its place any more.
LEMMA DatabaseStep ==
    ASSUME MigrationInv, CallMigration \/ RewritePaths \/ Backfill \/ MigrationStops
    PROVE  MigrationInv'
<1> USE DEF Resting
<1>1. CASE CallMigration \/ MigrationStops
  <2>1. UNCHANGED <<source, target, torn, given, names, known>> /\ cursor' \in {0, 1}
    BY <1>1 DEF CallMigration, MigrationStops
  <2>2. moved' \subseteq Items /\ conflicts' \subseteq Items
    BY <1>1 DEF CallMigration, MigrationStops, MigrationInv, MigrationTypes
  <2>3. MigrationTypes' /\ MovedOrKept'
    BY <2>1, <2>2, OrderFacts DEF MigrationInv, MigrationTypes, MovedOrKept
  <2>4. Passed' /\ OldDatabase'
    BY <2>1, OrderFacts DEF MigrationInv, Passed, OldDatabase
  <2>5. QED
    BY <2>3, <2>4 DEF MigrationInv
<1>2. ASSUME cursor = AtDatabases, DbIsOurs
      PROVE  "db" \notin source
  BY <1>2, OrderFacts DEF MigrationInv, Passed, DbIsOurs
<1>3. CASE RewritePaths
  BY <1>2, <1>3, OrderFacts DEF RewritePaths, MigrationInv, MigrationTypes, MovedOrKept, Passed, OldDatabase
<1>4. CASE Backfill
  <2>1. CASE DbIsOurs
    <3>1. MigrationTypes' /\ MovedOrKept' /\ Passed'
      BY <1>4, <2>1, OrderFacts DEF Backfill, MigrationInv, MigrationTypes, MovedOrKept, Passed
    <3>2. OldDatabase'
      BY <1>2, <1>4, <2>1, OrderFacts DEF Backfill, MigrationInv, MigrationTypes, MovedOrKept, OldDatabase, Target
    <3>3. QED
      BY <3>1, <3>2 DEF MigrationInv
  <2>2. CASE ~ DbIsOurs
    <3>1. MigrationTypes' /\ MovedOrKept' /\ Passed'
      BY <1>4, <2>2, OrderFacts DEF Backfill, MigrationInv, MigrationTypes, MovedOrKept, Passed
    <3>2. "db" \in given /\ "db" \notin conflicts => FALSE
      BY <1>4, <2>2, OrderFacts DEF Backfill, DbIsOurs, MigrationInv, MigrationTypes, MovedOrKept, Passed, Target
    <3>3. OldDatabase'
      BY <1>4, <2>2, <3>2, OrderFacts DEF Backfill, MigrationInv, OldDatabase
    <3>4. QED
      BY <3>1, <3>3 DEF MigrationInv
  <2>3. QED
    BY <2>1, <2>2
<1>5. QED
  BY <1>1, <1>3, <1>4

LEMMA MigrationStep == MigrationInv /\ [MigrationNext]_migrationVars => MigrationInv'
<1>1. MigrationInv /\ UNCHANGED migrationVars => MigrationInv'
  BY DEF migrationVars, MigrationInv, MigrationTypes, MovedOrKept, Passed, OldDatabase
<1>2. QED
  BY <1>1, MoveStep, DatabaseStep DEF MigrationNext

\* Whichever calls broke off before: no old file is lost or torn, what stood
\* in the target stands there, and a call that ends without a conflict has
\* moved all (control/migrate_runtime.py).
THEOREM NothingLostInMigrationHolds == MigrationSpec => []NothingLostInMigration
<1>1. MigrationInv => NothingLostInMigration
  <2> SUFFICES ASSUME MigrationInv
               PROVE  NothingLostInMigration
    OBVIOUS
  <2>1. \A i \in given : i \in source \/ (target[Target(i)] = i /\ i \notin torn)
    BY DEF MigrationInv, MigrationTypes, MovedOrKept
  <2>2. cursor = CallOver /\ conflicts = {} => source = {}
    BY OrderFacts DEF MigrationInv, MigrationTypes, Passed
  <2>3. QED
    BY <2>1, <2>2, OrderFacts DEF MigrationInv, MigrationTypes, MovedOrKept, OldDatabase, Target,
       NothingLostInMigration
<1>2. QED
  BY <1>1, MigrationInitInv, MigrationStep, PTL DEF MigrationSpec

\* The move is typed, the databases and their rows included
\* (control/migrate_runtime.py).
THEOREM MigrationTypesHold == MigrationSpec => []MigrationTypeOK
<1>1. MigrationInv => MigrationTypeOK
  BY DEF MigrationInv, MigrationTypes, MigrationTypeOK
<1>2. QED
  BY <1>1, MigrationInitInv, MigrationStep, PTL DEF MigrationSpec

-----------------------------------------------------------------------------
(* Evidence and its baseline.                                               *)

OnItsWay == {"fetched", "noted", "hosted", "stored", "compared"}
AtItsEnd == Ran \cup {"purged"}

EvidenceTypes ==
    /\ clock \in Nat \ {0}
    /\ pack \in [Evidence -> Collected]
    /\ point \in [Evidence -> OnItsWay \cup AtItsEnd \cup {"none"}]
    /\ began \in [Evidence -> Nat] /\ shown \in [Evidence -> Nat]
    /\ hosts \subseteq Evidence /\ checked \subseteq hosts
    /\ base \in [Evidence -> {0} \cup Evidence] /\ DOMAIN diff = Evidence

\* The runs of an organization go one after another, and so do their times.
OneAfterAnother ==
    /\ \A r \in Evidence : point[r] # "none" => 0 < began[r] /\ began[r] < clock /\ shown[r] < clock
    /\ \A r \in Evidence : \A q \in Evidence : q < r /\ point[r] # "none" =>
         point[q] \in AtItsEnd /\ began[q] < began[r] /\ shown[q] < began[r]

\* The rows a run has stored where it stands; a package that was not intact
\* leaves none.
RowsSoFar(r) ==
    /\ point[r] \in {"none", "fetched", "purged"} => shown[r] = 0
    /\ point[r] \in {"noted", "hosted", "stored", "compared", "SUCCESS"} => began[r] <= shown[r]
    /\ point[r] \in {"none", "fetched", "noted", "purged"} => r \notin hosts
    /\ point[r] \in {"hosted", "stored", "compared", "SUCCESS"} => r \in hosts
    /\ point[r] \in {"stored", "compared", "SUCCESS"} => r \in checked
    /\ point[r] \in OnItsWay \/ r \in hosts => Intact(pack[r])

\* What a run that has looked for its predecessor knows of it.
BaseSoFar(r) ==
    point[r] \in {"compared", "SUCCESS"} =>
        LET b == base[r]
            won == {q \in 1 .. r - 1 : point[q] = "SUCCESS" /\ Station(q) = Station(r)}
        IN  /\ b < r /\ \A q \in won : q <= b
            /\ b # 0 => Station(b) = Station(r) /\ Intact(pack[b])
            /\ b \in won => diff[r] # NoDiff
            /\ diff[r] # NoDiff => b # 0 /\ diff[r] = DiffOf(pack[b].checks, pack[r].checks)

EvidenceInv ==
    /\ EvidenceTypes /\ OneAfterAnother
    /\ \A r \in Evidence : RowsSoFar(r) /\ BaseSoFar(r)

\* "No difference" is no difference between two packages.
LEMMA DiffIsThere == \A old, new : DiffOf(old, new) # NoDiff
<1> SUFFICES ASSUME NEW old, NEW new
             PROVE  DiffOf(old, new) # NoDiff
  OBVIOUS
<1>1. "none" \notin DOMAIN DiffOf(old, new)
  BY DEF DiffOf
<1>2. "none" \in DOMAIN NoDiff
  BY DEF NoDiff
<1>3. QED
  BY <1>1, <1>2

LEMMA EvidenceInitInv == EvidenceInit => EvidenceInv
BY EvidenceAssumption DEF EvidenceInit, EvidenceInv, EvidenceTypes, OneAfterAnother, RowsSoFar, BaseSoFar,
   Evidence, OnItsWay, AtItsEnd, Ran

LEMMA EvidenceFacts ==
    ASSUME EvidenceInv
    PROVE  /\ Evidence \subseteq Nat \ {0} /\ 0 \notin Evidence
           /\ \A r \in Evidence : \A q \in 1 .. r - 1 : q \in Evidence /\ q < r
           /\ \A r \in Evidence : point[r] \notin AtItsEnd =>
                \A q \in Evidence : r < q => point[q] = "none"
           /\ \A r \in Evidence : point[r] # "none" => \A q \in Evidence : q < r => point[q] \in AtItsEnd
BY EvidenceAssumption DEF EvidenceInv, OneAfterAnother, Evidence, AtItsEnd, Ran, OnItsWay

LEMMA FetchStep == ASSUME EvidenceInv, NEW r \in Evidence, NEW p \in Collected, Fetch(r, p) PROVE EvidenceInv'
<1> USE DEF OnItsWay, AtItsEnd, Ran
<1>1. EvidenceTypes /\ OneAfterAnother /\ RowsSoFar(r) /\ Evidence \subseteq Nat
  BY EvidenceFacts DEF EvidenceInv
<1>2. /\ \A q \in Evidence : r < q => point[q] = "none"
      /\ \A q \in Evidence : q < r => point[q] \in AtItsEnd
      /\ point[r] = "none" /\ shown[r] = 0 /\ r \notin hosts
  BY <1>1, EvidenceFacts DEF Fetch, Go, RowsSoFar
<1>3. EvidenceTypes'
  BY <1>1 DEF Fetch, Go, EvidenceTypes
<1>4. OneAfterAnother'
  <2>1. \A q \in Evidence : point'[q] # "none" => 0 < began'[q] /\ began'[q] < clock' /\ shown'[q] < clock'
    BY <1>1, <1>2 DEF Fetch, Go, EvidenceTypes, OneAfterAnother
  <2> SUFFICES ASSUME NEW a \in Evidence, NEW b \in Evidence, b < a, point'[a] # "none"
               PROVE  point'[b] \in AtItsEnd /\ began'[b] < began'[a] /\ shown'[b] < began'[a]
    BY <2>1 DEF OneAfterAnother
  <2>2. a # r => a < r
    BY <1>1, <1>2 DEF Fetch, Go, EvidenceTypes
  <2>3. CASE a = r
    BY <1>1, <1>2, <2>3, EvidenceFacts DEF Fetch, Go, EvidenceTypes, OneAfterAnother
  <2>4. CASE a # r
    BY <1>1, <1>2, <2>2, <2>4, EvidenceFacts DEF Fetch, Go, EvidenceTypes, OneAfterAnother
  <2>5. QED
    BY <2>3, <2>4
<1>5. ASSUME NEW q \in Evidence PROVE RowsSoFar(q)'
  BY <1>1, <1>2 DEF EvidenceInv, Fetch, Go, EvidenceTypes, RowsSoFar
<1>6. ASSUME NEW q \in Evidence PROVE BaseSoFar(q)'
  <2>1. CASE q = r
    BY <1>1, <1>2, <2>1 DEF Fetch, Go, EvidenceTypes, BaseSoFar
  <2>2. CASE q # r
    BY <1>1, <1>2, <2>2, EvidenceFacts DEF EvidenceInv, Fetch, Go, EvidenceTypes, BaseSoFar, Station
  <2>3. QED
    BY <2>1, <2>2
<1>7. QED
  BY <1>3, <1>4, <1>5, <1>6 DEF EvidenceInv

\* The steps of the run that goes on: none before it changes, none after it
\* has begun.
LEMMA OnTheWay ==
    ASSUME EvidenceInv, NEW r \in Evidence, point[r] \in OnItsWay, NEW to \in OnItsWay \cup Ran,
           point' = [point EXCEPT ![r] = to], clock' \in {clock, clock + 1},
           UNCHANGED <<began, pack>>,
           shown' \in [Evidence -> Nat], \A q \in Evidence \ {r} : shown'[q] = shown[q],
           shown'[r] < clock'
    PROVE  OneAfterAnother'
<1> USE DEF OnItsWay, AtItsEnd, Ran
<1>1. EvidenceTypes /\ OneAfterAnother /\ Evidence \subseteq Nat
  BY EvidenceFacts DEF EvidenceInv
<1>2. \A q \in Evidence : r < q => point[q] = "none"
  BY EvidenceFacts
<1>3. \A q \in Evidence : point'[q] # "none" => 0 < began'[q] /\ began'[q] < clock' /\ shown'[q] < clock'
  BY <1>1 DEF EvidenceTypes, OneAfterAnother
<1>4. ASSUME NEW a \in Evidence, NEW b \in Evidence, b < a, point'[a] # "none"
      PROVE  point'[b] \in AtItsEnd /\ began'[b] < began'[a] /\ shown'[b] < began'[a]
  BY <1>1, <1>2, <1>4 DEF EvidenceTypes, OneAfterAnother
<1>5. QED
  BY <1>3, <1>4 DEF OneAfterAnother

\* The rows are stored.
LEMMA StoreStep ==
    ASSUME EvidenceInv, NEW r \in Evidence, Note(r) \/ StoreHost(r) \/ StoreChecks(r)
    PROVE  EvidenceInv'
<1> USE DEF OnItsWay, AtItsEnd, Ran
<1>1. EvidenceTypes /\ OneAfterAnother /\ RowsSoFar(r) /\ Evidence \subseteq Nat
  BY EvidenceFacts DEF EvidenceInv
<1>2. EvidenceTypes'
  <2>1. CASE Note(r)
    BY <1>1, <2>1 DEF Note, Go, EvidenceTypes
  <2>2. CASE StoreHost(r) \/ StoreChecks(r)
    BY ZenonT(60), <1>1, <2>2 DEF StoreHost, StoreChecks, Go, EvidenceTypes, RowsSoFar
  <2>3. QED
    BY <2>1, <2>2
<1>3. OneAfterAnother'
  <2>1. PICK to \in OnItsWay : point' = [point EXCEPT ![r] = to]
    BY DEF Note, StoreHost, StoreChecks, Go
  <2>2. /\ point[r] \in OnItsWay /\ clock' \in {clock, clock + 1} /\ UNCHANGED <<began, pack>>
        /\ shown' \in [Evidence -> Nat] /\ \A q \in Evidence \ {r} : shown'[q] = shown[q]
        /\ shown'[r] < clock'
    BY <1>1, <1>2 DEF Note, StoreHost, StoreChecks, Go, EvidenceTypes, OneAfterAnother
  <2>3. QED
    BY <2>1, <2>2, OnTheWay
<1>4. ASSUME NEW q \in Evidence PROVE RowsSoFar(q)'
  BY <1>1 DEF EvidenceInv, OneAfterAnother, Note, StoreHost, StoreChecks, Go, EvidenceTypes, RowsSoFar
<1>5. ASSUME NEW q \in Evidence PROVE BaseSoFar(q)'
  <2>1. UNCHANGED <<pack, base, diff>>
    BY DEF Note, StoreHost, StoreChecks
  <2>2. /\ point[r] \notin {"SUCCESS", "compared"} /\ point'[r] \notin {"SUCCESS", "compared"}
        /\ \A a \in Evidence \ {r} : point'[a] = point[a]
    BY <1>1 DEF Note, StoreHost, StoreChecks, Go, EvidenceTypes
  <2>3. BaseSoFar(q) /\ \A a \in 1 .. q - 1 : a \in Evidence
    BY EvidenceFacts DEF EvidenceInv
  <2>4. QED
    BY <2>1, <2>2, <2>3 DEF BaseSoFar, Station
<1>6. QED
  BY <1>2, <1>3, <1>4, <1>5 DEF EvidenceInv

\* The baseline: the latest of the station's runs that have rows.
LEMMA CompareStep == ASSUME EvidenceInv, NEW r \in Evidence, CompareRuns(r) PROVE EvidenceInv'
<1> USE DEF OnItsWay, AtItsEnd, Ran
<1>1. EvidenceTypes /\ OneAfterAnother /\ RowsSoFar(r) /\ Evidence \subseteq Nat \ {0}
  BY EvidenceFacts DEF EvidenceInv
<1>2. PICK prev \in LatestOf(Earlier(r)) :
         /\ base' = [base EXCEPT ![r] = prev]
         /\ diff' = [diff EXCEPT ![r] = IF prev \in checked THEN DiffOf(pack[prev].checks, pack[r].checks)
                                        ELSE NoDiff]
  BY DEF CompareRuns
<1>3. /\ Earlier(r) \subseteq hosts /\ prev \in {0} \cup Earlier(r)
      /\ \A q \in Earlier(r) : q \in hosts \ {r} /\ Station(q) = Station(r)
      /\ \A q \in Earlier(r) : prev # 0 /\ shown[q] <= shown[prev]
  BY <1>1 DEF Earlier, LatestOf, EvidenceTypes
<1>4. EvidenceTypes'
  BY <1>1, <1>2, <1>3 DEF CompareRuns, Go, EvidenceTypes
<1>5. OneAfterAnother'
  BY <1>1, <1>4, OnTheWay DEF CompareRuns, Go, EvidenceTypes, OneAfterAnother
<1>6. ASSUME NEW q \in Evidence PROVE RowsSoFar(q)'
  BY <1>1 DEF EvidenceInv, CompareRuns, Go, EvidenceTypes, RowsSoFar
<1>7. ASSUME NEW q \in Evidence, q # r PROVE BaseSoFar(q)'
  <2>1. UNCHANGED pack /\ base'[q] = base[q] /\ diff'[q] = diff[q]
    BY <1>1, <1>2, <1>7 DEF CompareRuns, EvidenceTypes
  <2>2. \A a \in Evidence : (point'[a] = "SUCCESS" <=> point[a] = "SUCCESS") /\ point'[q] = point[q]
    BY <1>1, <1>7 DEF CompareRuns, Go, EvidenceTypes
  <2>3. BaseSoFar(q) /\ \A a \in 1 .. q - 1 : a \in Evidence
    BY EvidenceFacts DEF EvidenceInv
  <2>4. QED
    BY <2>1, <2>2, <2>3 DEF BaseSoFar, Station
<1>8. BaseSoFar(r)'
  <2>1. UNCHANGED pack /\ base'[r] = prev
    BY <1>1, <1>2 DEF CompareRuns, EvidenceTypes
  <2>2. prev < r
    <3>1. \A q \in Evidence : r < q => q \notin hosts
      BY EvidenceFacts DEF CompareRuns, Go, EvidenceInv, RowsSoFar
    <3>2. prev # 0 => prev \in Evidence \ {r} /\ ~ (r < prev)
      BY <1>1, <1>3, <3>1 DEF EvidenceTypes
    <3>3. r \in Nat \ {0} /\ (prev # 0 => prev \in Nat)
      BY <1>1, <3>2
    <3>4. QED
      BY <3>2, <3>3
  <2>3. prev # 0 => prev \in Evidence /\ Station(prev) = Station(r) /\ Intact(pack[prev])
    BY <1>1, <1>3 DEF EvidenceInv, EvidenceTypes, RowsSoFar
  <2>4. ASSUME NEW q \in 1 .. r - 1, point[q] = "SUCCESS", Station(q) = Station(r)
        PROVE  q <= prev /\ q \in Earlier(r)
    <3>1. q \in Evidence /\ q < r /\ q # r
      BY EvidenceFacts
    <3>2. q \in hosts /\ 0 < began[q] /\ began[q] <= shown[q] /\ shown[q] < began[r]
      BY <1>1, <2>4, <3>1 DEF EvidenceInv, RowsSoFar, OneAfterAnother, CompareRuns, Go
    <3>3. began[r] <= shown[r]
      BY <1>1 DEF RowsSoFar, CompareRuns, Go
    <3>4. q \in Earlier(r)
      BY <1>1, <2>4, <3>1, <3>2, <3>3 DEF Earlier, EvidenceTypes
    <3>5. prev \in Evidence /\ prev # 0 /\ shown[q] <= shown[prev]
      BY <1>3, <2>3, <3>4
    <3>6. prev < q => shown[prev] < began[q]
      BY <1>1, <2>4, <3>1, <3>5 DEF OneAfterAnother
    <3>7. QED
      BY <1>1, <3>1, <3>2, <3>4, <3>5, <3>6 DEF EvidenceTypes
  <2>5. point[prev] = "SUCCESS" /\ prev \in Evidence => prev \in checked
    BY DEF EvidenceInv, RowsSoFar
  <2>6. /\ diff'[r] # NoDiff => prev \in checked /\ diff'[r] = DiffOf(pack[prev].checks, pack[r].checks)
        /\ prev \in checked => diff'[r] # NoDiff
    <3>1. diff'[r] = IF prev \in checked THEN DiffOf(pack[prev].checks, pack[r].checks) ELSE NoDiff
      BY <1>2 DEF EvidenceInv, EvidenceTypes
    <3>2. QED
      BY <3>1, DiffIsThere
  <2>7. \A q \in Evidence : point'[q] = "SUCCESS" => point[q] = "SUCCESS"
    BY <1>1 DEF CompareRuns, Go, EvidenceTypes
  <2>8. QED
    BY <1>1, <2>1, <2>2, <2>3, <2>4, <2>5, <2>6, <2>7, EvidenceFacts DEF BaseSoFar, Station, EvidenceTypes
<1>9. QED
  BY <1>4, <1>5, <1>6, <1>7, <1>8 DEF EvidenceInv

\* How a run ends.
LEMMA EndStep ==
    ASSUME EvidenceInv, NEW r \in Evidence,
           CutOff(r) \/ \E status \in {"SUCCESS", "FAILED"} : EndEvidence(r, status)
    PROVE  EvidenceInv'
<1> USE DEF OnItsWay, AtItsEnd, Ran
<1>1. EvidenceTypes /\ OneAfterAnother /\ RowsSoFar(r) /\ Evidence \subseteq Nat \ {0}
  BY EvidenceFacts DEF EvidenceInv
<1>2. PICK to \in Ran : /\ point' = [point EXCEPT ![r] = to] /\ point[r] \in OnItsWay
                        /\ to = "SUCCESS" => point[r] = "compared"
  BY DEF CutOff, EndEvidence
<1>3. /\ UNCHANGED <<clock, pack, began, hosts, checked, base, diff>>
      /\ shown' \in {shown, [shown EXCEPT ![r] = began[r]]}
      /\ to = "SUCCESS" => shown' = [shown EXCEPT ![r] = began[r]]
  BY <1>1, <1>2 DEF CutOff, EndEvidence, EvidenceTypes
<1>4. shown' \in [Evidence -> Nat] /\ (\A q \in Evidence \ {r} : shown'[q] = shown[q]) /\ shown'[r] < clock'
  BY <1>1, <1>2, <1>3 DEF EvidenceTypes, OneAfterAnother
<1>5. EvidenceTypes' /\ OneAfterAnother'
  BY <1>1, <1>2, <1>3, <1>4, OnTheWay DEF EvidenceTypes
<1>6. \A q \in Evidence \ {r} : point'[q] = point[q]
  BY <1>1, <1>2 DEF EvidenceTypes
<1>7. point'[r] = to
  BY <1>1, <1>2 DEF EvidenceTypes
<1>8. ASSUME NEW q \in Evidence PROVE RowsSoFar(q)'
  <2>1. RowsSoFar(q)
    BY DEF EvidenceInv
  <2>2. CASE q = r
    BY <1>1, <1>2, <1>3, <1>7, <2>1, <2>2 DEF EvidenceTypes, RowsSoFar
  <2>3. CASE q # r
    BY <1>3, <1>4, <1>6, <2>1, <2>3 DEF RowsSoFar
  <2>4. QED
    BY <2>2, <2>3
<1>9. ASSUME NEW q \in Evidence PROVE BaseSoFar(q)'
  <2>1. BaseSoFar(q) /\ \A a \in 1 .. q - 1 : a \in Evidence /\ a < q
    BY EvidenceFacts DEF EvidenceInv
  <2>2. CASE q = r
    BY <1>2, <1>3, <1>6, <1>7, <2>1, <2>2 DEF BaseSoFar, Station
  <2>3. CASE q # r
    <3>1. r < q => point[q] = "none"
      BY <1>2, EvidenceFacts
    <3>2. point'[q] = point[q] /\ (base[q] = r => point[q] \notin {"compared", "SUCCESS"})
      BY <1>1, <1>6, <2>1, <2>3, <3>1 DEF BaseSoFar
    <3>3. point[q] # "none" => \A a \in 1 .. q - 1 : point'[a] = point[a]
      BY <1>6, <2>1, <3>1
    <3>4. QED
      BY <1>1, <1>3, <1>6, <2>1, <3>2, <3>3 DEF BaseSoFar, Station, EvidenceTypes
  <2>4. QED
    BY <2>2, <2>3
<1>10. QED
  BY <1>5, <1>8, <1>9 DEF EvidenceInv

LEMMA PurgeRunStep == ASSUME EvidenceInv, NEW r \in Evidence, PurgeEvidence(r) PROVE EvidenceInv'
<1> USE DEF OnItsWay, AtItsEnd, Ran
<1>1. EvidenceTypes /\ OneAfterAnother /\ Evidence \subseteq Nat \ {0}
  BY EvidenceFacts DEF EvidenceInv
<1>2. EvidenceTypes' /\ OneAfterAnother'
  BY <1>1 DEF PurgeEvidence, EvidenceTypes, OneAfterAnother
<1>3. ASSUME NEW q \in Evidence PROVE RowsSoFar(q)'
  BY <1>1 DEF EvidenceInv, PurgeEvidence, EvidenceTypes, RowsSoFar
<1>4. ASSUME NEW q \in Evidence PROVE BaseSoFar(q)'
  <2>1. BaseSoFar(q) /\ \A a \in 1 .. q - 1 : a \in Evidence
    BY EvidenceFacts DEF EvidenceInv
  <2>2. \A a \in Evidence : point'[a] \in {point[a], "purged"}
    BY <1>1 DEF PurgeEvidence, EvidenceTypes
  <2>3. point'[q] \in {"compared", "SUCCESS"} => point[q] \in {"compared", "SUCCESS"}
    BY <2>2
  <2>4. UNCHANGED <<pack, base, diff>> /\ \A a \in Evidence : point'[a] = "SUCCESS" => point[a] = "SUCCESS"
    BY <2>2 DEF PurgeEvidence
  <2>5. QED
    BY <2>1, <2>3, <2>4, <1>1 DEF BaseSoFar, Station, EvidenceTypes
<1>5. QED
  BY <1>2, <1>3, <1>4 DEF EvidenceInv

\* What one direction calls improved or added the other calls regressed or
\* removed.
LEMMA BothWays ==
    \A old, new : LET back == DiffOf(new, old) IN
        DiffOf(old, new) = [improved |-> back.regressed, regressed |-> back.improved,
                            added |-> back.removed, removed |-> back.added]
<1> SUFFICES ASSUME NEW old, NEW new
             PROVE  LET back == DiffOf(new, old) IN
                      DiffOf(old, new) = [improved |-> back.regressed, regressed |-> back.improved,
                                          added |-> back.removed, removed |-> back.added]
  OBVIOUS
<1>1. Both(old, new) = Both(new, old)
  BY DEF Both
<1>2. /\ {c \in Both(old, new) : old[c] \in Poor /\ new[c] = "PASS"}
         = {c \in Both(new, old) : new[c] = "PASS" /\ old[c] \in Poor}
      /\ {c \in Both(old, new) : old[c] = "PASS" /\ new[c] \in Poor}
         = {c \in Both(new, old) : new[c] \in Poor /\ old[c] = "PASS"}
  BY <1>1
<1>3. QED
  BY <1>2 DEF DiffOf

LEMMA EvidenceStep == EvidenceInv /\ [EvidenceNext]_evidenceVars => EvidenceInv'
<1>1. EvidenceInv /\ UNCHANGED evidenceVars => EvidenceInv'
  BY DEF evidenceVars, EvidenceInv, EvidenceTypes, OneAfterAnother, RowsSoFar, BaseSoFar, Station
<1>2. QED
  BY <1>1, FetchStep, StoreStep, CompareStep, EndStep, PurgeRunStep DEF EvidenceNext

\* A run is compared with the last one of its station that succeeded, or with
\* a later one that did not; the difference is the same in both directions and
\* is between packages that nobody edited (previous_uksc_run, transform_uksc,
\* UkscSource._load), for every number of runs and packages.
THEOREM ComparedWithTheLastHolds == EvidenceSpec => []ComparedWithTheLast
<1>1. EvidenceInv => ComparedWithTheLast
  BY BothWays DEF EvidenceInv, BaseSoFar, Intact, ComparedWithTheLast
<1>2. QED
  BY <1>1, EvidenceInitInv, EvidenceStep, PTL DEF EvidenceSpec

TimesBefore ==
    clock \in Nat /\ began \in [Evidence -> 0 .. clock] /\ shown \in [Evidence -> 0 .. clock]

LEMMA TimesStep == TimesBefore /\ [EvidenceNext]_evidenceVars => TimesBefore'
<1> SUFFICES ASSUME TimesBefore, [EvidenceNext]_evidenceVars
             PROVE  TimesBefore'
  OBVIOUS
<1> USE DEF TimesBefore
<1>1. ASSUME NEW r \in Evidence, NEW p \in Collected, Fetch(r, p)
      PROVE  TimesBefore'
  BY <1>1 DEF Fetch
<1>2. ASSUME NEW r \in Evidence, Note(r)
      PROVE  TimesBefore'
  BY <1>2 DEF Note
<1>3. ASSUME NEW r \in Evidence, StoreHost(r) \/ StoreChecks(r) \/ CompareRuns(r) \/ CutOff(r)
      PROVE  TimesBefore'
  BY <1>3 DEF StoreHost, StoreChecks, CompareRuns, CutOff
<1>4. ASSUME NEW r \in Evidence, NEW status, EndEvidence(r, status) \/ PurgeEvidence(r)
      PROVE  TimesBefore'
  BY <1>4 DEF EndEvidence, PurgeEvidence
<1>5. CASE UNCHANGED evidenceVars
  BY <1>5 DEF evidenceVars
<1>6. QED
  BY <1>1, <1>2, <1>3, <1>4, <1>5 DEF EvidenceNext

\* Every run and every package is typed, and no time is later than the clock
\* (uksc_runner.py, duckdb_client.py).
THEOREM EvidenceTypesHold == EvidenceSpec => []EvidenceTypeOK
<1>1. EvidenceInit => TimesBefore
  BY DEF EvidenceInit, TimesBefore
<1>2. EvidenceInv /\ TimesBefore => EvidenceTypeOK
  BY DEF EvidenceInv, EvidenceTypes, TimesBefore, EvidenceTypeOK, OnItsWay, AtItsEnd
<1>3. QED
  BY <1>1, <1>2, EvidenceInitInv, EvidenceStep, TimesStep, PTL DEF EvidenceSpec

-----------------------------------------------------------------------------
(* Sets without a common element.                                         *)

LEMMA CountsAdd ==
    ASSUME NEW S, NEW T, IsFiniteSet(S), IsFiniteSet(T), S \cap T = {}
    PROVE  /\ Cardinality(S \cup T) = Cardinality(S) + Cardinality(T)
           /\ Cardinality(S) \in Nat /\ Cardinality(T) \in Nat
<1>1. Cardinality(S \cap T) = 0
  BY FS_EmptySet
<1>2. Cardinality(S) \in Nat /\ Cardinality(T) \in Nat
  BY FS_CardinalityType
<1>3. Cardinality(S \cup T) = Cardinality(S) + Cardinality(T) - Cardinality(S \cap T)
  BY FS_Union
<1>4. QED
  BY <1>1, <1>2, <1>3

-----------------------------------------------------------------------------
(* The report on a file of orders.  What is reported is a function of the  *)
(* file and the period; that the parts of a period add up is a fact about  *)
(* sets, as sums are numbers of units.                                     *)

Orders == [id : {Filled(i).id : i \in Readable}, date : Nat, revenue : Int, cost : Int, profit : Int,
           status : {Filled(i).status : i \in Readable}]

\* What the mapper hands over is made of whole orders, with a number each.
KeptOrders(os) ==
    /\ IsFiniteSet(os) /\ os \subseteq Orders
    /\ \A x, y \in os : x.id = y.id => x = y

FileInv ==
    /\ file \in Files /\ period \in Periods
    /\ progress \in Over \cup {"reading", "read", "stored", "computed"}
    /\ records \in {{}, Kept(period)} /\ table \in {{}, records}
    /\ figures \in {NoFigures, Figures(records)}
    /\ progress \in {"reading", "read"} => table = {} /\ figures = NoFigures
    /\ progress \in {"stored", "computed", "SUCCESS", "PARTIAL"} => table = records
    /\ progress \in {"read", "stored", "computed", "SUCCESS", "PARTIAL"} => records = Kept(period)
    /\ progress \in {"computed", "SUCCESS", "PARTIAL"} => figures = Figures(records)

LEMMA FileInvariant == ClientFileSpec => []FileInv
<1>1. ClientFileInit => FileInv
  BY DEF ClientFileInit, FileInv, Over, Periods
<1>2. FileInv /\ [ClientFileNext]_fileVars => FileInv'
  <2> SUFFICES ASSUME FileInv, [ClientFileNext]_fileVars
               PROVE  FileInv'
    OBVIOUS
  <2> USE DEF FileInv, Over
  <2>1. file' = file /\ period' \in Periods
    BY DEF ClientFileNext, StartRun, ReadFile, WriteRows, Compute, EndRun, FailRun, fileVars
  <2>2. \A p : Kept(p)' = Kept(p)
    <3>1. \A i : Filled(i)' = Filled(i)
      BY <2>1 DEF Filled, Cell, Has
    <3>2. Readable' = Readable
      BY <2>1, <3>1 DEF Readable
    <3>3. FirstOfEach(Readable)' = FirstOfEach(Readable)
      BY <3>1, <3>2 DEF FirstOfEach
    <3>4. QED
      BY <3>1, <3>3 DEF Kept
  <2>3. CASE \E p \in Periods : StartRun(p)
    BY <2>1, <2>2, <2>3 DEF StartRun
  <2>4. CASE ReadFile
    BY <2>1, <2>2, <2>4 DEF ReadFile
  <2>5. CASE WriteRows
    BY <2>1, <2>2, <2>5 DEF WriteRows
  <2>6. CASE Compute
    BY <2>1, <2>2, <2>6 DEF Compute
  <2>7. CASE EndRun
    BY <2>1, <2>2, <2>7 DEF EndRun
  <2>8. CASE FailRun
    BY <2>1, <2>2, <2>8 DEF FailRun
  <2>9. CASE UNCHANGED fileVars
    BY <2>1, <2>2, <2>9 DEF fileVars
  <2>10. QED
    BY <2>3, <2>4, <2>5, <2>6, <2>7, <2>8, <2>9 DEF ClientFileNext
<1>3. QED
  BY <1>1, <1>2, PTL DEF ClientFileSpec

\* A line that is left has a day and its money.
LEMMA FilledTyped ==
    ASSUME file \in Files, NEW i \in Readable
    PROVE  /\ Filled(i).date \in Nat
           /\ {Filled(i).revenue, Filled(i).cost, Filled(i).profit} \subseteq Int
<1> DEFINE revenue == Cell(i, "revenue")
           derived == IF Has("cost") THEN NoValue ELSE Less(revenue, Cell(i, "profit"))
           cost == Or(Or(Cell(i, "cost"), derived), 0)
<1>1. i \in DOMAIN file.rows /\ Filled(i).date = Cell(i, "date") /\ Filled(i).revenue = revenue
      /\ Filled(i).cost = cost /\ Filled(i).profit = Or(Cell(i, "profit"), Less(revenue, cost))
  BY DEF Readable, Filled
<1>2. Cell(i, "date") # NoValue /\ revenue # NoValue
  BY <1>1 DEF Readable
<1>3. \A c \in Money : Cell(i, c) \in Int \cup {NoValue}
  BY <1>1, ClientFileAssumption DEF Cell, Has
<1>4. Cell(i, "date") \in Nat
  BY <1>1, <1>2, ClientFileAssumption DEF Cell, Has
<1>5. revenue \in Int /\ Cell(i, "cost") \in Int \cup {NoValue} /\ Cell(i, "profit") \in Int \cup {NoValue}
  BY <1>2, <1>3 DEF Money
<1>6. derived \in Int \cup {NoValue}
  BY <1>5 DEF Less
<1>7. cost \in Int
  BY <1>5, <1>6 DEF Or
<1>8. Less(revenue, cost) \in Int
  BY <1>5, <1>7, ClientFileAssumption DEF Less
<1>9. QED
  BY <1>1, <1>4, <1>5, <1>7, <1>8 DEF Or

LEMMA LinesFinite ==
    ASSUME file \in Files, NEW lines, lines \subseteq DOMAIN file.rows
    PROVE  IsFiniteSet({Filled(i) : i \in lines})
<1> DEFINE f == [i \in lines |-> Filled(i)]
           T == {Filled(i) : i \in lines}
<1>1. IsFiniteSet(lines)
  BY ClientFileAssumption, FS_Subset
<1>2. f \in Surjection(lines, T)
  BY DEF Surjection
<1>3. QED
  BY <1>1, <1>2, FS_Surjection

LEMMA KeptAreOrders ==
    ASSUME file \in Files, NEW p
    PROVE  KeptOrders(Kept(p))
<1> DEFINE All == {Filled(i) : i \in FirstOfEach(Readable)}
<1>1. FirstOfEach(Readable) \subseteq Readable /\ Readable \subseteq DOMAIN file.rows
  BY DEF FirstOfEach, Readable
<1>2. IsFiniteSet(All)
  BY <1>1, LinesFinite
<1>3. Kept(p) \subseteq All
  BY DEF Kept
<1>4. IsFiniteSet(Kept(p))
  BY <1>2, <1>3, FS_Subset
<1>5. \A i \in Readable : Filled(i) \in Orders
  BY FilledTyped DEF Orders, Filled
<1>6. \A x, y \in All : x.id = y.id => x = y
  <2>1. SUFFICES ASSUME NEW i \in FirstOfEach(Readable), NEW j \in FirstOfEach(Readable),
                        Filled(i).id = Filled(j).id
                 PROVE  Filled(i) = Filled(j)
    OBVIOUS
  <2>2. i <= j /\ j <= i
    BY <2>1 DEF FirstOfEach
  <2>3. i \in Nat /\ j \in Nat
    BY <1>1, ClientFileAssumption
  <2>4. QED
    BY <2>2, <2>3
<1>7. QED
  BY <1>1, <1>3, <1>4, <1>5, <1>6 DEF KeptOrders

-----------------------------------------------------------------------------
(* Sums.                                                                   *)

\* A unit is one of an order.
LEMMA CoinOf ==
    ASSUME NEW os, NEW c, NEW x, x \in Brought(os, c) \cup Taken(os, c)
    PROVE  x[1] \in os
BY DEF Brought, Taken

LEMMA CoinsFinite ==
    ASSUME NEW os, IsFiniteSet(os), NEW c, \A o \in os : o[c] \in Int
    PROVE  /\ IsFiniteSet(Brought(os, c)) /\ IsFiniteSet(Taken(os, c))
           /\ Cardinality(Brought(os, c)) \in Nat /\ Cardinality(Taken(os, c)) \in Nat
<1> DEFINE f == [o \in os |-> {o} \X (1 .. o[c])]
           g == [o \in os |-> {o} \X (1 .. -o[c])]
           F == {{o} \X (1 .. o[c]) : o \in os}
           G == {{o} \X (1 .. -o[c]) : o \in os}
<1>1. f \in Surjection(os, F) /\ g \in Surjection(os, G)
  BY DEF Surjection
<1>2. IsFiniteSet(F) /\ IsFiniteSet(G)
  BY <1>1, FS_Surjection
<1>3. \A o \in os : IsFiniteSet({o} \X (1 .. o[c])) /\ IsFiniteSet({o} \X (1 .. -o[c]))
  <2> TAKE o \in os
  <2>1. IsFiniteSet({o})
    BY FS_Singleton
  <2>2. IsFiniteSet(1 .. o[c]) /\ IsFiniteSet(1 .. -o[c])
    BY FS_Interval
  <2>3. QED
    BY <2>1, <2>2, FS_Product
<1>4. IsFiniteSet(UNION F) /\ IsFiniteSet(UNION G)
  BY <1>2, <1>3, FS_UNION
<1>5. QED
  BY <1>4, FS_CardinalityType DEF Brought, Taken

\* The sum over two sets of orders that share none is the sum of the sums.
LEMMA TotalsAdd ==
    ASSUME NEW as, NEW bs, IsFiniteSet(as), IsFiniteSet(bs), as \cap bs = {},
           NEW c, \A o \in as \cup bs : o[c] \in Int
    PROVE  Total(as \cup bs, c) = Total(as, c) + Total(bs, c)
<1>1. /\ Brought(as \cup bs, c) = Brought(as, c) \cup Brought(bs, c)
      /\ Taken(as \cup bs, c) = Taken(as, c) \cup Taken(bs, c)
  BY DEF Brought, Taken
<1>2. Brought(as, c) \cap Brought(bs, c) = {} /\ Taken(as, c) \cap Taken(bs, c) = {}
  <2>1. \A x \in Brought(as, c) \cup Taken(as, c) : x[1] \in as
    BY CoinOf
  <2>2. \A x \in Brought(bs, c) \cup Taken(bs, c) : x[1] \in bs
    BY CoinOf
  <2>3. QED
    BY <2>1, <2>2
<1>3. /\ IsFiniteSet(Brought(as, c)) /\ IsFiniteSet(Taken(as, c))
      /\ IsFiniteSet(Brought(bs, c)) /\ IsFiniteSet(Taken(bs, c))
  BY CoinsFinite
<1>4. /\ Cardinality(Brought(as \cup bs, c)) = Cardinality(Brought(as, c)) + Cardinality(Brought(bs, c))
      /\ Cardinality(Taken(as \cup bs, c)) = Cardinality(Taken(as, c)) + Cardinality(Taken(bs, c))
  BY <1>1, <1>2, <1>3, CountsAdd
<1>5. /\ Cardinality(Brought(as, c)) \in Nat /\ Cardinality(Taken(as, c)) \in Nat
      /\ Cardinality(Brought(bs, c)) \in Nat /\ Cardinality(Taken(bs, c)) \in Nat
  BY <1>3, FS_CardinalityType
<1>6. /\ Total(as \cup bs, c) = Cardinality(Brought(as \cup bs, c)) - Cardinality(Taken(as \cup bs, c))
      /\ Total(as, c) = Cardinality(Brought(as, c)) - Cardinality(Taken(as, c))
      /\ Total(bs, c) = Cardinality(Brought(bs, c)) - Cardinality(Taken(bs, c))
  BY DEF Total
<1> DEFINE p == Cardinality(Brought(as, c))
           q == Cardinality(Taken(as, c))
           r == Cardinality(Brought(bs, c))
           t == Cardinality(Taken(bs, c))
<1>7. /\ Total(as \cup bs, c) = (p + r) - (q + t) /\ Total(as, c) = p - q /\ Total(bs, c) = r - t
      /\ p \in Nat /\ q \in Nat /\ r \in Nat /\ t \in Nat
  BY <1>4, <1>5, <1>6, Zenon
<1> HIDE DEF p, q, r, t
<1>8. (p + r) - (q + t) = (p - q) + (r - t)
  BY <1>7
<1>9. QED
  BY <1>7, <1>8, Zenon

LEMMA FiguresAdd ==
    ASSUME NEW as, NEW bs, KeptOrders(as), KeptOrders(bs), as \cap bs = {}
    PROVE  Figures(as \cup bs) = Plus(Figures(as), Figures(bs))
<1>1. /\ Sold(as \cup bs) = Sold(as) \cup Sold(bs) /\ Sold(as) \cap Sold(bs) = {}
      /\ Sold(as) \subseteq as /\ Sold(bs) \subseteq bs
  BY DEF Sold
<1>2. IsFiniteSet(Sold(as)) /\ IsFiniteSet(Sold(bs)) /\ IsFiniteSet(as) /\ IsFiniteSet(bs)
  BY <1>1, FS_Subset DEF KeptOrders
<1>3. \A o \in as \cup bs : o["revenue"] \in Int /\ o["cost"] \in Int /\ o["profit"] \in Int
  BY DEF KeptOrders, Orders
<1>4. \A c \in Money : Total(Sold(as \cup bs), c) = Total(Sold(as), c) + Total(Sold(bs), c)
  <2> TAKE c \in Money
  <2>1. \A o \in Sold(as) \cup Sold(bs) : o[c] \in Int
    BY <1>1, <1>3 DEF Money
  <2> DEFINE A == Sold(as)
             B == Sold(bs)
  <2>2. Total(A \cup B, c) = Total(A, c) + Total(B, c)
    <3>1. IsFiniteSet(A) /\ IsFiniteSet(B) /\ A \cap B = {} /\ \A o \in A \cup B : o[c] \in Int
      BY <1>1, <1>2, <2>1
    <3> HIDE DEF A, B
    <3>2. QED
      BY <3>1, TotalsAdd
  <2>3. QED
    BY <1>1, <2>2
<1>5. Cardinality(as \cup bs) = Cardinality(as) + Cardinality(bs)
  BY <1>2, CountsAdd
<1>6. Cardinality(Sold(as \cup bs)) = Cardinality(Sold(as)) + Cardinality(Sold(bs))
  BY <1>1, <1>2, CountsAdd
<1>7. /\ Total(Sold(as \cup bs), "revenue") = Total(Sold(as), "revenue") + Total(Sold(bs), "revenue")
      /\ Total(Sold(as \cup bs), "cost") = Total(Sold(as), "cost") + Total(Sold(bs), "cost")
      /\ Total(Sold(as \cup bs), "profit") = Total(Sold(as), "profit") + Total(Sold(bs), "profit")
  BY <1>4 DEF Money
<1> DEFINE Names == {"orders", "sold", "revenue", "cost", "profit"}
<1>8. \A os : Figures(os) = [x \in Names |-> Figures(os)[x]]
  BY DEF Figures
<1>9. \A x \in Names : Figures(as \cup bs)[x] = Figures(as)[x] + Figures(bs)[x]
  <2>1. /\ Figures(as \cup bs)["orders"] = Figures(as)["orders"] + Figures(bs)["orders"]
        /\ Figures(as \cup bs)["sold"] = Figures(as)["sold"] + Figures(bs)["sold"]
    BY <1>5, <1>6 DEF Figures
  <2>2. /\ Figures(as \cup bs)["revenue"] = Figures(as)["revenue"] + Figures(bs)["revenue"]
        /\ Figures(as \cup bs)["cost"] = Figures(as)["cost"] + Figures(bs)["cost"]
        /\ Figures(as \cup bs)["profit"] = Figures(as)["profit"] + Figures(bs)["profit"]
    BY <1>7 DEF Figures
  <2>3. QED
    BY <2>1, <2>2
<1>10. DOMAIN Figures(as) = Names
  BY DEF Figures
<1> HIDE DEF Names
<1>11. Plus(Figures(as), Figures(bs)) = [x \in Names |-> Figures(as)[x] + Figures(bs)[x]]
  BY <1>10 DEF Plus
<1>12. QED
  BY <1>8, <1>9, <1>11

\* Cut at a day, a period has each of its orders in one of the parts.
LEMMA PeriodSplits ==
    ASSUME file \in Files, period \in Periods, NEW day \in Days,
           [period EXCEPT !.last = day] \in Periods,
           period.last = NoValue \/ day < period.last
    PROVE  LET before == Kept([period EXCEPT !.last = day])
               after == Kept([period EXCEPT !.first = day + 1])
           IN  Kept(period) = before \cup after /\ before \cap after = {}
<1> DEFINE b == [period EXCEPT !.last = day]
           a == [period EXCEPT !.first = day + 1]
           All == {Filled(i) : i \in FirstOfEach(Readable)}
<1>1. \A o \in All : o.date \in Nat
  BY FilledTyped DEF FirstOfEach
<1>2. day \in Nat /\ day + 1 # NoValue /\ day # NoValue
  BY ClientFileAssumption
<1>3. /\ b.first = period.first /\ b.last = day /\ a.first = day + 1 /\ a.last = period.last
      /\ period.first = NoValue \/ (period.first \in Nat /\ period.first <= day)
      /\ period.last = NoValue \/ (period.last \in Nat /\ day < period.last)
  BY <1>2, ClientFileAssumption DEF Periods
<1>4. ASSUME NEW o \in All
      PROVE  /\ InPeriod(period, o) <=> InPeriod(b, o) \/ InPeriod(a, o)
             /\ ~(InPeriod(b, o) /\ InPeriod(a, o))
  <2> HIDE DEF a, b, All
  <2>1. QED
    BY <1>1, <1>2, <1>3, <1>4 DEF InPeriod
<1>5. QED
  BY <1>4 DEF Kept

-----------------------------------------------------------------------------
\* Reports on the parts of a period add up to the report on the whole, for
\* every file, every period and every day at which it is cut (map_dataframe,
\* _filter_period, transform_ecommerce).
THEOREM PeriodsAddUpHolds == ClientFileSpec => []PeriodsAddUp
<1>1. FileInv => PeriodsAddUp
  <2> SUFFICES ASSUME FileInv, progress \in {"SUCCESS", "PARTIAL"}
               PROVE  PeriodsAddUp
    BY DEF PeriodsAddUp
  <2>1. /\ file \in Files /\ period \in Periods
        /\ table = Kept(period) /\ figures = Figures(Kept(period))
    BY DEF FileInv
  <2>2. \A o \in table : InPeriod(period, o)
    BY <2>1 DEF Kept
  <2>3. ASSUME NEW day \in Days, [period EXCEPT !.last = day] \in Periods,
               period.last = NoValue \/ day < period.last
        PROVE  figures = Plus(Figures(Kept([period EXCEPT !.last = day])),
                              Figures(Kept([period EXCEPT !.first = day + 1])))
    BY <2>1, <2>3, PeriodSplits, KeptAreOrders, FiguresAdd
  <2>4. QED
    BY <2>1, <2>2, <2>3 DEF PeriodsAddUp
<1>2. QED
  BY <1>1, FileInvariant, PTL

\* Orders have a day, money and a number of their own.
THEOREM FileTypesHold == ClientFileSpec => []ClientFileTypeOK
<1>1. FileInv => ClientFileTypeOK
  <2> SUFFICES ASSUME FileInv
               PROVE  ClientFileTypeOK
    OBVIOUS
  <2>1. KeptOrders(Kept(period))
    BY KeptAreOrders DEF FileInv
  <2>2. records \cup table \subseteq Kept(period) /\ records \subseteq Kept(period)
    BY DEF FileInv
  <2>3. \A o \in records \cup table :
          /\ o.date \in Nat /\ {o.revenue, o.cost, o.profit} \subseteq Int
          /\ \A x \in records : x.id = o.id => x = o
    BY <2>1, <2>2 DEF KeptOrders, Orders
  <2>4. DOMAIN figures = DOMAIN NoFigures
    BY DEF FileInv, Figures, NoFigures
  <2>5. QED
    BY <2>3, <2>4 DEF FileInv, ClientFileTypeOK
<1>2. QED
  BY <1>1, FileInvariant, PTL

-----------------------------------------------------------------------------
(* Least and greatest elements, from the order of the naturals.            *)

LessNat == {p \in Nat \X Nat : p[1] < p[2]}

LEMMA LeastNumber ==
    ASSUME NEW T, T \subseteq Nat, T # {}
    PROVE  \E x \in T : \A y \in T : x <= y
<1>1. IsWellFoundedOn(OpToRel(<, Nat), Nat)
  BY NatLessThanWellFounded
<1>2. LessNat \cap (Nat \X Nat) \subseteq OpToRel(<, Nat)
  BY DEF OpToRel, LessNat
<1>3. IsWellFoundedOn(LessNat, Nat)
  BY <1>1, <1>2, IsWellFoundedOnSubrelation
<1>4. PICK x \in T : \A y \in T : ~(<<y, x>> \in LessNat)
  BY <1>3, WFMin
<1>5. ASSUME NEW y \in T
      PROVE  x <= y
  <2>1. ~(<<y, x>> \in LessNat) /\ x \in Nat /\ y \in Nat
    BY <1>4
  <2>2. ~(y < x)
    BY <2>1 DEF LessNat
  <2>3. QED
    BY <2>1, <2>2
<1>6. QED
  BY <1>5

\* Of a bounded set of numbers, the greatest.
LEMMA GreatestNumber ==
    ASSUME NEW T, T \subseteq Nat, T # {}, NEW b \in Nat, \A x \in T : x <= b
    PROVE  \E x \in T : \A y \in T : y <= x
<1> DEFINE B == {n \in Nat : \A x \in T : x <= n}
<1>1. PICK m \in B : \A n \in B : m <= n
  <2>1. B \subseteq Nat /\ b \in B
    OBVIOUS
  <2>2. QED
    BY <2>1, LeastNumber
<1>2. CASE m \in T
  BY <1>1, <1>2
<1>3. CASE m \notin T
  <2>1. \A x \in T : x < m /\ x \in Nat
    BY <1>1, <1>3
  <2>2. m # 0
    <3>1. PICK x : x \in T
      OBVIOUS
    <3>2. QED
      BY <2>1, <3>1, <1>1
  <2>3. m - 1 \in B
    BY <2>1, <2>2, <1>1
  <2>4. QED
    BY <2>3, <1>1
<1>4. QED
  BY <1>2, <1>3

\* A finite set of instants has a last one.
LEMMA LastInstant ==
    ASSUME NEW T, T \subseteq Int, T # {}, IsFiniteSet(T)
    PROVE  \E x \in T : \A y \in T : y <= x
<1> DEFINE Later(t) == {u \in T : u > t}
           Counts == {n \in Nat : \E t \in T : n = Cardinality(Later(t))}
<1>1. \A t \in T : IsFiniteSet(Later(t)) /\ Cardinality(Later(t)) \in Nat
  BY FS_Subset, FS_CardinalityType
<1>2. Counts \subseteq Nat /\ Counts # {}
  BY <1>1
<1>3. PICK n \in Counts : \A m \in Counts : n <= m
  BY <1>2, LeastNumber
<1>4. PICK t \in T : n = Cardinality(Later(t))
  BY <1>3
<1>5. ASSUME NEW u \in T, u > t
      PROVE  FALSE
  <2>1. Later(u) \subseteq Later(t) /\ u \in Later(t) /\ u \notin Later(u)
    <3>1. t \in Int /\ u \in Int
      OBVIOUS
    <3>2. \A v \in T : v > u => v > t
      BY <1>5, <3>1
    <3>3. ~(u > u)
      BY <3>1
    <3>4. QED
      BY <1>5, <3>2, <3>3
  <2>2. Cardinality(Later(u)) <= Cardinality(Later(t)) /\ Cardinality(Later(u)) # Cardinality(Later(t))
    <3>1. Later(u) \in SUBSET Later(t) /\ Later(u) # Later(t)
      BY <2>1
    <3> HIDE DEF Later
    <3>2. QED
      BY <1>1, <3>1, FS_Subset
  <2>3. Cardinality(Later(u)) \in Counts
    BY <1>1, <1>5
  <2> HIDE DEF Later
  <2>4. Cardinality(Later(u)) \in Nat /\ Cardinality(Later(t)) \in Nat
    BY <1>1, <1>5
  <2>5. QED
    BY <1>3, <1>4, <2>2, <2>3, <2>4
<1>6. QED
  BY <1>5

-----------------------------------------------------------------------------
(* Weeks.                                                                  *)

LEMMA TimesGrows ==
    ASSUME NEW a \in Int, NEW b \in Int, a <= b, NEW h \in Nat
    PROVE  a * h \in Int /\ b * h \in Int /\ a * h <= b * h
<1> DEFINE d == b - a
<1>1. d \in Nat /\ b = a + d
  OBVIOUS
<1> HIDE DEF d
<1>2. d * h \in Nat /\ a * h \in Int
  BY <1>1
<1>3. (a + d) * h = a * h + d * h
  BY <1>1
<1>4. QED
  BY <1>1, <1>2, <1>3

LEMMA WeekBounds ==
    ASSUME NEW x \in Int, NEW w \in Int, NEW h \in Nat \ {0}
    PROVE  x \div h = w <=> w * h <= x /\ x < (w + 1) * h
<1> DEFINE q == x \div h
           r == x % h
<1>1. q \in Int /\ r \in 0 .. h - 1 /\ x = q * h + r
  OBVIOUS
<1> HIDE DEF q, r
<1>2. q * h <= x /\ x < (q + 1) * h
  BY <1>1
<1>3. ASSUME w < q
      PROVE  ~(x < (w + 1) * h)
  <2>1. (w + 1) * h <= q * h /\ (w + 1) * h \in Int /\ q * h \in Int
    BY <1>1, <1>3, TimesGrows
  <2>2. QED
    BY <1>2, <2>1
<1>4. ASSUME q < w
      PROVE  ~(w * h <= x)
  <2>1. (q + 1) * h <= w * h /\ (q + 1) * h \in Int /\ w * h \in Int
    BY <1>1, <1>4, TimesGrows
  <2>2. QED
    BY <1>2, <2>1
<1>5. QED
  BY <1>1, <1>2, <1>3, <1>4 DEF q

LEMMA MondaysAreMultiples ==
    ASSUME NEW w \in Int, NEW h \in Nat \ {0}
    PROVE  w * h \in Int /\ (w * h) % h = 0
<1>1. w * h \in Int /\ (w * h) % h \in 0 .. h - 1
  OBVIOUS
<1>2. (w * h) \div h = w
  BY <1>1, WeekBounds
<1>3. w * h = ((w * h) \div h) * h + ((w * h) % h)
  BY <1>1
<1>4. QED
  BY <1>1, <1>2, <1>3

HealthTypes ==
    /\ zone \in TimeZones /\ asked \in Int /\ setting \in Situations /\ events \in Happened
    /\ place \in [events -> {"there", "late", "fresh", "gone"}]
    /\ statement \in DOMAIN Then \cup {"usage"} /\ seen \in [DOMAIN Then -> SUBSET events]

LEMMA HealthNumbers ==
    ASSUME HealthTypes
    PROVE  /\ {zone.before, zone.after, zone.change} \subseteq Int
           /\ WeekHours \in Nat \ {0} /\ Lookback \in Nat \ {0}
           /\ IsFiniteSet(events) /\ \A e \in events : {e.at, e.made} \subseteq Int /\ e.kind \in Kinds
           /\ \A t \in Int : Offset(t) \in Int /\ WeekOf(t) \in Int
           /\ \A n \in 1 .. Lookback : WeekStarts[n] \in Int /\ WeekStarts[1] <= WeekStarts[n]
<1>1. /\ {zone.before, zone.after, zone.change} \subseteq Int
      /\ WeekHours \in Nat \ {0} /\ Lookback \in Nat \ {0}
      /\ IsFiniteSet(events) /\ \A e \in events : {e.at, e.made} \subseteq Int /\ e.kind \in Kinds
  BY HealthAssumption DEF HealthTypes
<1>2. \A t \in Int : Offset(t) \in Int /\ WeekOf(t) \in Int
  BY <1>1 DEF Offset, WeekOf
<1>3. WeekOf(asked) \in Int
  BY <1>2 DEF HealthTypes
<1>4. \A n \in 1 .. Lookback : WeekStarts[n] \in Int /\ WeekStarts[1] <= WeekStarts[n]
  BY <1>1, <1>3 DEF WeekStarts
<1>5. QED
  BY <1>1, <1>2, <1>4

\* What happens in a week or later happens at its first instant or later.
LEMMA NotBeforeMidnight ==
    ASSUME HealthTypes, NEW w \in Int, NEW t \in Int, w <= WeekOf(t)
    PROVE  t >= LocalMidnight(w)
<1> DEFINE m == w * WeekHours
           x == t + Offset(t)
<1>1. /\ zone.before \in Int /\ zone.after \in Int /\ zone.change \in Int
      /\ WeekHours \in Nat \ {0} /\ Offset(t) \in Int /\ WeekOf(t) \in Int
  BY HealthNumbers
<1>2. m \in Int /\ x \in Int
  BY <1>1
<1>3. m <= x
  <2>1. WeekOf(t) * WeekHours <= x
    BY <1>1, <1>2, WeekBounds DEF WeekOf
  <2>2. m <= WeekOf(t) * WeekHours
    BY <1>1
  <2> HIDE DEF m, x
  <2>3. WeekOf(t) * WeekHours \in Int
    BY <1>1
  <2>4. QED
    BY <1>2, <2>1, <2>2, <2>3
<1>4. ~(zone.change + zone.before < m /\ m < zone.change + zone.after)
  <2>1. m % WeekHours = 0
    BY <1>1, MondaysAreMultiples
  <2>2. \A y \in zone.change + zone.before + 1 .. zone.change + zone.after - 1 : y % WeekHours # 0
    BY HealthAssumption DEF HealthTypes
  <2> HIDE DEF m
  <2>3. QED
    BY <1>1, <1>2, <2>1, <2>2
<1>5. x = t + (IF t < zone.change THEN zone.before ELSE zone.after)
  BY DEF Offset
<1>6. LocalMidnight(w) = IF m - zone.before < zone.change \/ m < zone.change + zone.after
                         THEN m - zone.before ELSE m - zone.after
  BY DEF LocalMidnight
<1> HIDE DEF m, x
<1>7. QED
  BY <1>1, <1>2, <1>3, <1>4, <1>5, <1>6

\* The week of an instant is that of its local time, and the instants of the
\* weeks that are shown pass the filter of the statements.
LEMMA WeeksAreLocal ==
    ASSUME HealthTypes, NEW n \in 1 .. Lookback, NEW t \in Int
    PROVE  LET w == WeekStarts[n]
           IN  /\ WeekOf(t) = w <=> w * WeekHours <= t + Offset(t) /\ t + Offset(t) < (w + 1) * WeekHours
               /\ WeekOf(t) = w => t >= LocalMidnight(WeekStarts[1])
<1> DEFINE w == WeekStarts[n]
<1>1. /\ w \in Int /\ WeekStarts[1] \in Int /\ WeekStarts[1] <= w
      /\ WeekHours \in Nat \ {0} /\ Offset(t) \in Int /\ t + Offset(t) \in Int
  BY HealthNumbers, HealthAssumption
<1> HIDE DEF w
<1>2. WeekOf(t) = w <=> w * WeekHours <= t + Offset(t) /\ t + Offset(t) < (w + 1) * WeekHours
  BY <1>1, WeekBounds DEF WeekOf
<1>3. WeekOf(t) = w => t >= LocalMidnight(WeekStarts[1])
  BY <1>1, NotBeforeMidnight
<1>4. QED
  BY <1>2, <1>3 DEF w

\* What a statement has returned: the selection of rows that hold all that was
\* there throughout, and nothing that was never there.
SeenAt(q) == \E R \in SUBSET events :
                Steady \subseteq R /\ R \subseteq EverThere /\ seen[q] = Selects(q, R)

\* A set between two others has a count between theirs.
LEMMA CountsBetween ==
    ASSUME NEW A, NEW B, NEW C, IsFiniteSet(C), A \subseteq B, B \subseteq C
    PROVE  Cardinality(B) \in Cardinality(A) .. Cardinality(C)
<1>1. IsFiniteSet(B) /\ Cardinality(B) \in Nat /\ Cardinality(C) \in Nat /\ Cardinality(B) <= Cardinality(C)
  BY FS_Subset, FS_CardinalityType
<1>2. Cardinality(A) \in Nat /\ Cardinality(A) <= Cardinality(B)
  BY <1>1, FS_Subset, FS_CardinalityType
<1>3. QED
  BY <1>1, <1>2

\* The rows of some kinds and of one week, dated by `at` and by `made`.
LocalWeek(rows, kinds, n) ==
    {e \in OfKind(rows, kinds) : /\ WeekStarts[n] * WeekHours <= e.at + Offset(e.at)
                                 /\ e.at + Offset(e.at) < (WeekStarts[n] + 1) * WeekHours}
MadeInWeek(rows, n) ==
    {e \in OfKind(rows, Reports) : /\ WeekStarts[n] * WeekHours <= e.made + Offset(e.made)
                                   /\ e.made + Offset(e.made) < (WeekStarts[n] + 1) * WeekHours}

Bracketed(n) ==
    LET b == BucketWeeks[n]
        Tells(figure, kinds) == figure \in Cardinality(LocalWeek(Steady, kinds, n))
                                           .. Cardinality(LocalWeek(EverThere, kinds, n))
    IN  /\ Tells(b.uploads, {"upload"})
        /\ Tells(b.succeeded, Good)
        /\ Tells(b.failed, {"failed"})
        /\ b.reports \in Cardinality(MadeInWeek(Steady, n)) .. Cardinality(MadeInWeek(EverThere, n))

LEMMA RowsAreEvents ==
    ASSUME HealthTypes
    PROVE  /\ Steady \subseteq Present /\ Present \subseteq EverThere /\ EverThere \subseteq events
           /\ IsFiniteSet(EverThere)
<1>1. Steady \subseteq Present /\ Present \subseteq EverThere /\ EverThere \subseteq events
  BY DEF Steady, Present, EverThere
<1>2. QED
  BY <1>1, HealthNumbers, FS_Subset

LEMMA WeeksCounted ==
    ASSUME HealthTypes, NEW n \in 1 .. Lookback, SeenAt("uploads"), SeenAt("jobs"), SeenAt("reports")
    PROVE  Bracketed(n) /\ BucketWeeks[n].reports \in Nat
<1> DEFINE w == WeekStarts[n]
           since == LocalMidnight(WeekStarts[1])
<1>1. \A t \in Int : /\ WeekOf(t) = w <=> w * WeekHours <= t + Offset(t) /\ t + Offset(t) < (w + 1) * WeekHours
                     /\ WeekOf(t) = w => t >= since
  BY WeeksAreLocal
<1>2. IsFiniteSet(EverThere) /\ EverThere \subseteq events /\ \A e \in events : e.at \in Int /\ e.made \in Int
  BY RowsAreEvents, HealthNumbers
<1> HIDE DEF w, since
<1>3. \A kinds : IsFiniteSet(LocalWeek(EverThere, kinds, n)) /\ IsFiniteSet(MadeInWeek(EverThere, n))
  <2>1. \A kinds : LocalWeek(EverThere, kinds, n) \in SUBSET EverThere
                   /\ MadeInWeek(EverThere, n) \in SUBSET EverThere
    BY DEF LocalWeek, MadeInWeek, OfKind
  <2>2. QED
    BY <1>2, <2>1, FS_Subset
<1>4. ASSUME NEW R \in SUBSET events, Steady \subseteq R, R \subseteq EverThere, NEW kinds
      PROVE  /\ {e \in OfKind(R, kinds) : e.at >= since /\ WeekOf(e.at) = w} = LocalWeek(R, kinds, n)
             /\ {e \in OfKind(R, Reports) : e.made >= since /\ WeekOf(e.made) = w} = MadeInWeek(R, n)
             /\ LocalWeek(Steady, kinds, n) \subseteq LocalWeek(R, kinds, n)
             /\ LocalWeek(R, kinds, n) \subseteq LocalWeek(EverThere, kinds, n)
             /\ MadeInWeek(Steady, n) \subseteq MadeInWeek(R, n)
             /\ MadeInWeek(R, n) \subseteq MadeInWeek(EverThere, n)
  <2>1. OfKind(R, kinds) \subseteq events /\ OfKind(R, Reports) \subseteq events
    BY DEF OfKind
  <2>2. {e \in OfKind(R, kinds) : e.at >= since /\ WeekOf(e.at) = w} = LocalWeek(R, kinds, n)
    BY <1>1, <1>2, <2>1 DEF LocalWeek, w
  <2>3. {e \in OfKind(R, Reports) : e.made >= since /\ WeekOf(e.made) = w} = MadeInWeek(R, n)
    BY <1>1, <1>2, <2>1 DEF MadeInWeek, w
  <2>4. /\ LocalWeek(Steady, kinds, n) \subseteq LocalWeek(R, kinds, n)
        /\ LocalWeek(R, kinds, n) \subseteq LocalWeek(EverThere, kinds, n)
    BY <1>4 DEF LocalWeek, OfKind
  <2>5. /\ MadeInWeek(Steady, n) \subseteq MadeInWeek(R, n)
        /\ MadeInWeek(R, n) \subseteq MadeInWeek(EverThere, n)
    BY <1>4 DEF MadeInWeek, OfKind
  <2>6. QED
    BY <2>2, <2>3, <2>4, <2>5
<1>5. BucketWeeks[n] =
        [uploads |-> Cardinality({e \in seen.uploads : WeekOf(e.at) = w}),
         succeeded |-> Cardinality({e \in OfKind(seen.jobs, Good) : WeekOf(e.at) = w}),
         failed |-> Cardinality({e \in OfKind(seen.jobs, {"failed"}) : WeekOf(e.at) = w}),
         reports |-> Cardinality({e \in seen.reports : WeekOf(e.made) = w})]
  BY DEF BucketWeeks, w
<1> DEFINE dated == {e \in seen.uploads : WeekOf(e.at) = w}
           made == {e \in seen.reports : WeekOf(e.made) = w}
           ended(kinds) == {e \in OfKind(seen.jobs, kinds) : WeekOf(e.at) = w}
<1>6. /\ BucketWeeks[n].uploads = Cardinality(dated) /\ BucketWeeks[n].reports = Cardinality(made)
      /\ BucketWeeks[n].succeeded = Cardinality(ended(Good))
      /\ BucketWeeks[n].failed = Cardinality(ended({"failed"}))
  <2>1. \A r : r = [uploads |-> Cardinality(dated), succeeded |-> Cardinality(ended(Good)),
                    failed |-> Cardinality(ended({"failed"})), reports |-> Cardinality(made)]
          => /\ r.uploads = Cardinality(dated) /\ r.reports = Cardinality(made)
             /\ r.succeeded = Cardinality(ended(Good)) /\ r.failed = Cardinality(ended({"failed"}))
    <3> HIDE DEF dated, made, ended
    <3>1. QED
      OBVIOUS
  <2>2. BucketWeeks[n] = [uploads |-> Cardinality(dated), succeeded |-> Cardinality(ended(Good)),
                          failed |-> Cardinality(ended({"failed"})), reports |-> Cardinality(made)]
    BY <1>5, Zenon
  <2> HIDE DEF dated, made, ended
  <2>3. QED
    BY <2>1, <2>2
<1>7. BucketWeeks[n].uploads \in Cardinality(LocalWeek(Steady, {"upload"}, n))
                                 .. Cardinality(LocalWeek(EverThere, {"upload"}, n))
  <2>1. PICK R \in SUBSET events : Steady \subseteq R /\ R \subseteq EverThere /\ seen.uploads = Selects("uploads", R)
    BY DEF SeenAt
  <2>2. {e \in seen.uploads : WeekOf(e.at) = w}
          = {e \in OfKind(R, {"upload"}) : e.at >= since /\ WeekOf(e.at) = w}
    BY <2>1 DEF Selects, since
  <2>3. BucketWeeks[n].uploads = Cardinality(LocalWeek(R, {"upload"}, n))
    <3>1. dated = LocalWeek(R, {"upload"}, n)
      BY <1>4, <2>1, <2>2
    <3> HIDE DEF dated
    <3>2. QED
      BY <1>6, <3>1
  <2>4. /\ LocalWeek(Steady, {"upload"}, n) \subseteq LocalWeek(R, {"upload"}, n)
        /\ LocalWeek(R, {"upload"}, n) \subseteq LocalWeek(EverThere, {"upload"}, n)
    BY <1>4, <2>1
  <2>5. QED
    BY <1>3, <2>3, <2>4, CountsBetween
<1>8. /\ BucketWeeks[n].succeeded \in Cardinality(LocalWeek(Steady, Good, n))
                                      .. Cardinality(LocalWeek(EverThere, Good, n))
      /\ BucketWeeks[n].failed \in Cardinality(LocalWeek(Steady, {"failed"}, n))
                                   .. Cardinality(LocalWeek(EverThere, {"failed"}, n))
  <2>1. PICK R \in SUBSET events : Steady \subseteq R /\ R \subseteq EverThere /\ seen.jobs = Selects("jobs", R)
    BY DEF SeenAt
  <2>2. seen.jobs = {e \in OfKind(R, Jobs) : e.at >= since}
    BY <2>1 DEF Selects, since
  <2>3. \A e \in seen.jobs : e.at >= since
    BY <2>2
  <2>4. \A kinds : kinds \subseteq Jobs =>
          {e \in OfKind(seen.jobs, kinds) : WeekOf(e.at) = w}
            = {e \in OfKind(R, kinds) : e.at >= since /\ WeekOf(e.at) = w}
    BY <2>2 DEF OfKind
  <2>5. Good \subseteq Jobs /\ {"failed"} \subseteq Jobs
    BY DEF Jobs
  <2>6. ended(Good) = LocalWeek(R, Good, n) /\ ended({"failed"}) = LocalWeek(R, {"failed"}, n)
    BY <1>4, <2>1, <2>4, <2>5
  <2>7. /\ BucketWeeks[n].succeeded = Cardinality(LocalWeek(R, Good, n))
        /\ BucketWeeks[n].failed = Cardinality(LocalWeek(R, {"failed"}, n))
    <3> HIDE DEF ended
    <3>1. QED
      BY <1>6, <2>6
  <2>8. \A kinds : /\ LocalWeek(Steady, kinds, n) \subseteq LocalWeek(R, kinds, n)
                   /\ LocalWeek(R, kinds, n) \subseteq LocalWeek(EverThere, kinds, n)
    BY <1>4, <2>1
  <2>9. QED
    BY <1>3, <2>7, <2>8, CountsBetween
<1>9. BucketWeeks[n].reports \in Cardinality(MadeInWeek(Steady, n)) .. Cardinality(MadeInWeek(EverThere, n))
  <2>1. PICK R \in SUBSET events : Steady \subseteq R /\ R \subseteq EverThere /\ seen.reports = Selects("reports", R)
    BY DEF SeenAt
  <2>2. {e \in seen.reports : WeekOf(e.made) = w}
          = {e \in OfKind(R, Reports) : e.made >= since /\ WeekOf(e.made) = w}
    BY <2>1 DEF Selects, since
  <2>3. BucketWeeks[n].reports = Cardinality(MadeInWeek(R, n))
    <3>1. made = MadeInWeek(R, n)
      BY <1>4, <2>1, <2>2
    <3> HIDE DEF made
    <3>2. QED
      BY <1>6, <3>1
  <2>4. MadeInWeek(Steady, n) \subseteq MadeInWeek(R, n) /\ MadeInWeek(R, n) \subseteq MadeInWeek(EverThere, n)
    BY <1>4, <2>1
  <2>5. QED
    BY <1>3, <2>3, <2>4, CountsBetween
<1>10. Cardinality(MadeInWeek(Steady, n)) \in Nat /\ Cardinality(MadeInWeek(EverThere, n)) \in Nat
  <2>1. MadeInWeek(Steady, n) \subseteq MadeInWeek(EverThere, n)
    BY RowsAreEvents DEF MadeInWeek, OfKind
  <2>2. QED
    BY <1>3, <2>1, FS_Subset, FS_CardinalityType
<1>11. QED
  BY <1>7, <1>8, <1>9, <1>10 DEF Bracketed

\* Back from the last week, and no further than there are reports.
LEMMA StreakEnds ==
    ASSUME NEW weeks, \A n \in 1 .. Lookback : weeks[n].reports \in Nat
    PROVE  LET s == StreakWeeks(weeks)
           IN  /\ s \in 0 .. Lookback - 1
               /\ \A n \in 1 .. s : weeks[Lookback - n].reports > 0
               /\ s < Lookback - 1 => weeks[Lookback - s - 1].reports = 0
<1> DEFINE whole == {n \in 0 .. Lookback - 1 :
                       \A k \in Lookback - n .. Lookback - 1 : weeks[k].reports > 0}
           s == StreakWeeks(weeks)
<1>1. Lookback \in Nat \ {0}
  BY HealthAssumption
<1>2. 0 \in whole /\ whole \subseteq Nat /\ \A x \in whole : x <= Lookback - 1
  BY <1>1
<1>3. \E x \in whole : \A y \in whole : y <= x
  <2>1. whole # {} /\ Lookback - 1 \in Nat
    BY <1>1, <1>2
  <2> HIDE DEF whole
  <2>2. QED
    BY <1>2, <2>1, GreatestNumber
<1>4. s = CHOOSE x \in whole : \A y \in whole : y <= x
  BY DEF StreakWeeks
<1>5. s \in whole /\ \A y \in whole : y <= s
  <2> HIDE DEF whole, s
  <2>1. QED
    BY <1>3, <1>4
<1> HIDE DEF s
<1>6. s \in 0 .. Lookback - 1
  BY <1>5
<1>7. \A n \in 1 .. s : weeks[Lookback - n].reports > 0
  <2> TAKE n \in 1 .. s
  <2>1. Lookback - n \in Lookback - s .. Lookback - 1
    BY <1>1, <1>6
  <2>2. QED
    BY <1>5, <2>1
<1>8. ASSUME s < Lookback - 1
      PROVE  weeks[Lookback - s - 1].reports = 0
  <2> SUFFICES ASSUME weeks[Lookback - s - 1].reports # 0
               PROVE  FALSE
    OBVIOUS
  <2>1. Lookback - s - 1 \in 1 .. Lookback
    BY <1>1, <1>6, <1>8
  <2>2. weeks[Lookback - s - 1].reports > 0
    BY <2>1
  <2>3. \A k \in Lookback - (s + 1) .. Lookback - 1 :
          k = Lookback - s - 1 \/ k \in Lookback - s .. Lookback - 1
    BY <1>1, <1>6
  <2>4. \A k \in Lookback - (s + 1) .. Lookback - 1 : weeks[k].reports > 0
    BY <1>5, <2>2, <2>3
  <2>5. s + 1 \in whole
    BY <1>1, <1>6, <1>8, <2>4
  <2>6. QED
    BY <1>5, <1>6, <2>5
<1>9. QED
  BY <1>6, <1>7, <1>8 DEF s

\* Of rows that are finitely many the last are there, if any are.
LEMMA SomeAreLast ==
    ASSUME NEW rows, IsFiniteSet(rows), \A e \in rows : e.at \in Int, NEW f \in rows
    PROVE  \E e \in LastOf(rows) : f.at <= e.at
<1> DEFINE T == {e.at : e \in rows}
           at == [e \in rows |-> e.at]
<1>1. at \in Surjection(rows, T)
  BY DEF Surjection
<1>2. IsFiniteSet(T)
  <2> HIDE DEF T, at
  <2>1. QED
    BY <1>1, FS_Surjection
<1>3. T \subseteq Int /\ T # {}
  OBVIOUS
<1>4. PICK t \in T : \A u \in T : u <= t
  <2> HIDE DEF T
  <2>1. QED
    BY <1>2, <1>3, LastInstant
<1>5. PICK e \in rows : e.at = t
  OBVIOUS
<1>6. \A g \in rows : g.at <= e.at
  BY <1>4, <1>5
<1>7. QED
  BY <1>6 DEF LastOf

\* What the rules say of the last run, between what was there throughout and
\* what was ever there.
Failed(rows, others) ==
    \E f \in OfKind(rows, {"failed"}) : \A e \in OfKind(others, Good) : e.at < f.at

LEMMA LastFailureTold ==
    ASSUME HealthTypes, SeenAt("lastSuccess"), SeenAt("lastFailure")
    PROVE  /\ Failed(Steady, EverThere) => LastRunFailed
           /\ LastRunFailed => Failed(EverThere, Steady)
<1>1. PICK R \in SUBSET events : Steady \subseteq R /\ R \subseteq EverThere
                                 /\ seen["lastFailure"] = Selects("lastFailure", R)
  BY DEF SeenAt
<1>2. PICK S \in SUBSET events : Steady \subseteq S /\ S \subseteq EverThere
                                 /\ seen["lastSuccess"] = Selects("lastSuccess", S)
  BY DEF SeenAt
<1>3. seen.lastFailure = LastOf(OfKind(R, {"failed"})) /\ seen.lastSuccess = LastOf(OfKind(S, Good))
  BY <1>1, <1>2 DEF Selects
<1>4. \A rows \in SUBSET events : \A kinds :
        IsFiniteSet(OfKind(rows, kinds)) /\ \A e \in OfKind(rows, kinds) : e.at \in Int
  <2>1. \A rows \in SUBSET events : \A kinds : OfKind(rows, kinds) \in SUBSET events
    BY DEF OfKind
  <2>2. QED
    BY <2>1, HealthNumbers, FS_Subset
<1>5. /\ OfKind(Steady, {"failed"}) \subseteq OfKind(R, {"failed"})
      /\ OfKind(R, {"failed"}) \subseteq OfKind(EverThere, {"failed"})
      /\ OfKind(Steady, Good) \subseteq OfKind(S, Good)
      /\ OfKind(S, Good) \subseteq OfKind(EverThere, Good)
  BY <1>1, <1>2 DEF OfKind
<1>6. ASSUME Failed(Steady, EverThere)
      PROVE  LastRunFailed
  <2>1. PICK f \in OfKind(Steady, {"failed"}) : \A e \in OfKind(EverThere, Good) : e.at < f.at
    BY <1>6 DEF Failed
  <2>2. PICK l \in LastOf(OfKind(R, {"failed"})) : f.at <= l.at
    BY <1>4, <1>5, <2>1, SomeAreLast
  <2>3. l \in OfKind(R, {"failed"}) /\ LastOf(OfKind(S, Good)) \subseteq OfKind(S, Good)
    BY <2>2 DEF LastOf
  <2>4. \A e \in LastOf(OfKind(S, Good)) : e.at < f.at /\ e.at \in Int
    BY <1>4, <1>5, <2>1, <2>3
  <2>5. l.at \in Int /\ f.at \in Int
    BY <1>4, <1>5, <2>1, <2>3
  <2>6. \A e \in LastOf(OfKind(S, Good)) : l.at > e.at
    BY <2>2, <2>4, <2>5
  <2>7. QED
    BY <1>3, <2>2, <2>6 DEF LastRunFailed
<1>7. ASSUME LastRunFailed
      PROVE  Failed(EverThere, Steady)
  <2>1. PICK f \in LastOf(OfKind(R, {"failed"})) : \A e \in LastOf(OfKind(S, Good)) : f.at > e.at
    BY <1>3, <1>7 DEF LastRunFailed
  <2>2. f \in OfKind(R, {"failed"}) /\ f \in OfKind(EverThere, {"failed"}) /\ f.at \in Int
    BY <1>4, <1>5, <2>1 DEF LastOf
  <2>3. ASSUME NEW e \in OfKind(Steady, Good)
        PROVE  e.at < f.at
    <3>1. PICK l \in LastOf(OfKind(S, Good)) : e.at <= l.at
      BY <1>4, <1>5, <2>3, SomeAreLast
    <3>2. l.at \in Int /\ e.at \in Int /\ f.at > l.at
      BY <1>4, <1>5, <2>1, <2>3, <3>1 DEF LastOf
    <3>3. QED
      BY <2>2, <3>1, <3>2
  <2>4. QED
    BY <2>2, <2>3 DEF Failed
<1>8. QED
  BY <1>6, <1>7

LEMMA StaleUploadsTold ==
    ASSUME HealthTypes, SeenAt("lastUpload"), UploadIsStale
    PROVE  \A e \in OfKind(Steady, {"upload"}) : asked - e.at >= StaleAfter
<1>1. PICK R \in SUBSET events : Steady \subseteq R /\ R \subseteq EverThere
                                 /\ seen["lastUpload"] = Selects("lastUpload", R)
  BY DEF SeenAt
<1>2. seen.lastUpload = LastOf(OfKind(R, {"upload"}))
  BY <1>1 DEF Selects
<1>3. IsFiniteSet(OfKind(R, {"upload"})) /\ \A e \in OfKind(R, {"upload"}) : e.at \in Int
  <2>1. OfKind(R, {"upload"}) \in SUBSET events
    BY DEF OfKind
  <2>2. QED
    BY <2>1, HealthNumbers, FS_Subset
<1>4. asked \in Int /\ StaleAfter \in Int
  BY HealthAssumption DEF HealthTypes
<1>5. ASSUME NEW e \in OfKind(Steady, {"upload"})
      PROVE  asked - e.at >= StaleAfter
  <2>1. e \in OfKind(R, {"upload"})
    BY <1>1 DEF OfKind
  <2>2. PICK l \in LastOf(OfKind(R, {"upload"})) : e.at <= l.at
    BY <1>3, <2>1, SomeAreLast
  <2>3. l.at \in Int /\ e.at \in Int /\ asked - l.at >= StaleAfter
    BY <1>2, <1>3, <2>1, <2>2 DEF LastOf, UploadIsStale
  <2>4. QED
    BY <1>4, <2>2, <2>3
<1>6. QED
  BY <1>5

-----------------------------------------------------------------------------
(* What to fix.                                                            *)

OtherCodes == {"plan_limit_reached", "plan_limit_near", "stale_upload", "partial_reports",
               "no_uploads_yet", "reminder_off", "auto_run_off"}

LEMMA WhenIsOne ==
    ASSUME NEW S, NEW condition, NEW code, condition => code \in S
    PROVE  When(condition, code) \in Seq(S)
<1>1. CASE condition
  <2>1. When(condition, code) = <<code>> /\ code \in S
    BY <1>1 DEF When
  <2>2. QED
    BY <2>1
<1>2. CASE ~condition
  <2>1. When(condition, code) = <<>>
    BY <1>2 DEF When
  <2>2. QED
    BY <2>1
<1>3. QED
  BY <1>1, <1>2

LEMMA HeadStays ==
    ASSUME NEW S, NEW s \in Seq(S), NEW t \in Seq(S)
    PROVE  /\ s \o t \in Seq(S)
           /\ s # <<>> => s \o t # <<>> /\ Head(s \o t) = Head(s)
OBVIOUS

LEMMA FailureComesFirst ==
    BuildIssues # <<>> /\ Head(BuildIssues) = "last_run_failed" <=> LastRunFailed
<1> DEFINE errors == When(LimitReached, "plan_limit_reached")
           warnings == When(LimitNear, "plan_limit_near") \o When(UploadIsStale, "stale_upload")
                       \o When(Partials # {}, "partial_reports")
           infos == When(~Uploaded, "no_uploads_yet") \o When(~setting.reminder, "reminder_off")
                    \o When(~setting.auto, "auto_run_off")
<1>1. errors \in Seq(OtherCodes)
  BY WhenIsOne DEF OtherCodes, LimitReached
<1>2. warnings \in Seq(OtherCodes)
  <2>1. /\ When(LimitNear, "plan_limit_near") \in Seq(OtherCodes)
        /\ When(UploadIsStale, "stale_upload") \in Seq(OtherCodes)
        /\ When(Partials # {}, "partial_reports") \in Seq(OtherCodes)
    BY WhenIsOne DEF OtherCodes
  <2>2. QED
    BY <2>1
<1>3. infos \in Seq(OtherCodes)
  <2>1. /\ When(~Uploaded, "no_uploads_yet") \in Seq(OtherCodes)
        /\ When(~setting.reminder, "reminder_off") \in Seq(OtherCodes)
        /\ When(~setting.auto, "auto_run_off") \in Seq(OtherCodes)
    BY WhenIsOne DEF OtherCodes
  <2>2. QED
    BY <2>1
<1>4. BuildIssues = ((When(LastRunFailed, "last_run_failed") \o errors) \o warnings) \o infos
  BY DEF BuildIssues
<1> HIDE DEF errors, warnings, infos
<1>5. CASE LastRunFailed
  <2>1. When(LastRunFailed, "last_run_failed") = <<"last_run_failed">>
    BY <1>5 DEF When
  <2> DEFINE Codes == OtherCodes \cup {"last_run_failed"}
             first == <<"last_run_failed">>
  <2>2. /\ errors \in Seq(Codes) /\ warnings \in Seq(Codes) /\ infos \in Seq(Codes)
        /\ first \in Seq(Codes) /\ first # <<>> /\ Head(first) = "last_run_failed"
    BY <1>1, <1>2, <1>3
  <2> HIDE DEF Codes, first
  <2>3. /\ first \o errors \in Seq(Codes) /\ first \o errors # <<>>
        /\ Head(first \o errors) = "last_run_failed"
    BY <2>2, HeadStays
  <2>4. /\ (first \o errors) \o warnings \in Seq(Codes) /\ (first \o errors) \o warnings # <<>>
        /\ Head((first \o errors) \o warnings) = "last_run_failed"
    BY <2>2, <2>3, HeadStays
  <2>5. /\ ((first \o errors) \o warnings) \o infos # <<>>
        /\ Head(((first \o errors) \o warnings) \o infos) = "last_run_failed"
    BY <2>2, <2>4, HeadStays
  <2>6. BuildIssues = ((first \o errors) \o warnings) \o infos
    BY <1>4, <2>1 DEF first
  <2>7. QED
    BY <1>5, <2>5, <2>6
<1>6. CASE ~LastRunFailed
  <2>1. When(LastRunFailed, "last_run_failed") = <<>>
    BY <1>6 DEF When
  <2>2. BuildIssues \in Seq(OtherCodes)
    <3>1. <<>> \o errors \in Seq(OtherCodes)
      BY <1>1
    <3>2. (<<>> \o errors) \o warnings \in Seq(OtherCodes)
      BY <1>2, <3>1, HeadStays
    <3>3. ((<<>> \o errors) \o warnings) \o infos \in Seq(OtherCodes)
      BY <1>3, <3>2, HeadStays
    <3>4. QED
      BY <1>4, <2>1, <3>3
  <2>3. BuildIssues # <<>> => Head(BuildIssues) \in OtherCodes
    BY <2>2
  <2>4. "last_run_failed" \notin OtherCodes
    BY DEF OtherCodes
  <2>5. QED
    BY <1>6, <2>3, <2>4
<1>7. QED
  BY <1>5, <1>6

LEMMA StaleIsTold ==
    ASSUME ~UploadIsStale, NEW i \in DOMAIN BuildIssues
    PROVE  BuildIssues[i] # "stale_upload"
<1> DEFINE S == (OtherCodes \cup {"last_run_failed"}) \ {"stale_upload"}
           errors == When(LastRunFailed, "last_run_failed") \o When(LimitReached, "plan_limit_reached")
           warnings == When(LimitNear, "plan_limit_near") \o When(UploadIsStale, "stale_upload")
                       \o When(Partials # {}, "partial_reports")
           infos == When(~Uploaded, "no_uploads_yet") \o When(~setting.reminder, "reminder_off")
                    \o When(~setting.auto, "auto_run_off")
<1>1. "stale_upload" \notin S /\ (OtherCodes \cup {"last_run_failed"}) \ {"stale_upload"} \subseteq S
  OBVIOUS
<1>2. errors \in Seq(S)
  <2>1. /\ When(LastRunFailed, "last_run_failed") \in Seq(S)
        /\ When(LimitReached, "plan_limit_reached") \in Seq(S)
    BY WhenIsOne DEF OtherCodes
  <2>2. QED
    BY <2>1
<1>3. warnings \in Seq(S)
  <2>1. /\ When(LimitNear, "plan_limit_near") \in Seq(S)
        /\ When(UploadIsStale, "stale_upload") \in Seq(S)
        /\ When(Partials # {}, "partial_reports") \in Seq(S)
    BY WhenIsOne DEF OtherCodes
  <2>2. QED
    BY <2>1
<1>4. infos \in Seq(S)
  <2>1. /\ When(~Uploaded, "no_uploads_yet") \in Seq(S)
        /\ When(~setting.reminder, "reminder_off") \in Seq(S)
        /\ When(~setting.auto, "auto_run_off") \in Seq(S)
    BY WhenIsOne DEF OtherCodes
  <2>2. QED
    BY <2>1
<1>5. BuildIssues = (errors \o warnings) \o infos
  BY DEF BuildIssues
<1> HIDE DEF errors, warnings, infos
<1>6. (errors \o warnings) \o infos \in Seq(S)
  BY <1>2, <1>3, <1>4
<1>7. BuildIssues[i] \in S
  BY <1>5, <1>6
<1>8. QED
  BY <1>1, <1>7

-----------------------------------------------------------------------------
(* The dashboard.                                                          *)

Shown == [weeks |-> BucketWeeks, streak |-> StreakWeeks(BucketWeeks), issues |-> BuildIssues]

\* The statements that have run before one.
Before == [uploads |-> {}, jobs |-> {"uploads"}, reports |-> {"uploads", "jobs"},
           lastUpload |-> {"uploads", "jobs", "reports"},
           lastSuccess |-> {"uploads", "jobs", "reports", "lastUpload"},
           lastFailure |-> {"uploads", "jobs", "reports", "lastUpload", "lastSuccess"},
           usage |-> DOMAIN Then]

HealthInv ==
    /\ HealthTypes
    /\ \A q \in Before[statement] : SeenAt(q)
    /\ board = NoBoard \/ (statement = "usage" /\ board = Shown)

\* What a statement selects of given rows does not change, and nor does what is
\* shown, where nothing does.
LEMMA SelectionStays ==
    ASSUME UNCHANGED questionVars
    PROVE  /\ \A q, rows : Selects(q, rows)' = Selects(q, rows)
           /\ WeekStarts' = WeekStarts /\ \A t : WeekOf(t)' = WeekOf(t)
<1>1. \A t : Offset(t)' = Offset(t)
  BY DEF Offset, questionVars
<1>2. \A t : WeekOf(t)' = WeekOf(t)
  BY <1>1 DEF WeekOf
<1>3. WeekStarts' = WeekStarts
  BY <1>2 DEF WeekStarts, questionVars
<1>4. \A w : LocalMidnight(w)' = LocalMidnight(w)
  BY DEF LocalMidnight, questionVars
<1>5. \A q, rows : Selects(q, rows)' = Selects(q, rows)
  BY <1>3, <1>4 DEF Selects, OfKind, LastOf
<1>6. QED
  BY <1>2, <1>3, <1>5

LEMMA AnswerStays ==
    ASSUME UNCHANGED questionVars, UNCHANGED <<place, statement, seen>>
    PROVE  BucketWeeks' = BucketWeeks /\ BuildIssues' = BuildIssues
<1>1. UNCHANGED <<zone, asked, events, setting, place, statement, seen>>
  BY DEF questionVars
<1>2. WeekStarts' = WeekStarts /\ \A t : WeekOf(t)' = WeekOf(t)
  BY SelectionStays
<1>3. BucketWeeks' = BucketWeeks
  BY <1>1, <1>2 DEF BucketWeeks, OfKind
<1>4. EverThere' = EverThere
  BY <1>1 DEF EverThere
<1>5. (Uploaded' <=> Uploaded) /\ (LastRunFailed' <=> LastRunFailed)
  BY <1>1, <1>4 DEF Uploaded, LastRunFailed, OfKind
<1>6. UploadIsStale' <=> UploadIsStale
  BY <1>1, <1>5 DEF UploadIsStale
<1>7. Partials' = Partials
  BY <1>1, <1>2 DEF Partials
<1>8. (LimitReached' <=> LimitReached) /\ (LimitNear' <=> LimitNear)
  BY <1>1 DEF LimitReached, LimitNear
<1>9. BuildIssues' = BuildIssues
  BY <1>1, <1>5, <1>6, <1>7, <1>8 DEF BuildIssues, When
<1>10. QED
  BY <1>3, <1>9

\* What has been seen stays between what was there throughout and what was
\* ever there, while the first loses rows and the second gains them.
LEMMA SeenStays ==
    ASSUME NEW q, SeenAt(q), UNCHANGED questionVars, seen'[q] = seen[q],
           Steady' \subseteq Steady, EverThere \subseteq EverThere'
    PROVE  SeenAt(q)'
<1>1. PICK R \in SUBSET events : Steady \subseteq R /\ R \subseteq EverThere /\ seen[q] = Selects(q, R)
  BY DEF SeenAt
<1>2. Selects(q, R)' = Selects(q, R) /\ events' = events
  BY SelectionStays DEF questionVars
<1>3. Steady' \subseteq R /\ R \subseteq EverThere' /\ seen'[q] = Selects(q, R)'
  BY <1>1, <1>2
<1>4. QED
  BY <1>1, <1>2, <1>3 DEF SeenAt

LEMMA SelectStep ==
    ASSUME HealthInv, Select
    PROVE  HealthInv'
<1>1. /\ statement \in DOMAIN Then /\ statement' = Then[statement]
      /\ seen' = [seen EXCEPT ![statement] = Selects(statement, Present)]
      /\ UNCHANGED questionVars /\ UNCHANGED <<zone, asked, events, setting, place, board>>
  BY DEF Select, questionVars
<1>2. Steady' = Steady /\ EverThere' = EverThere
  BY <1>1 DEF Steady, EverThere
<1>3. HealthTypes
  BY DEF HealthInv
<1>4. Selects(statement, Present) \subseteq Present
  BY <1>1 DEF Selects, OfKind, LastOf, Then
<1>5. Present \subseteq events
  BY <1>3, RowsAreEvents
<1>6. HealthTypes'
  <2>1. Then[statement] \in DOMAIN Then \cup {"usage"}
    BY <1>1 DEF Then
  <2>2. seen' \in [DOMAIN Then -> SUBSET events]
    BY <1>1, <1>3, <1>4, <1>5 DEF HealthTypes
  <2>3. QED
    BY <1>1, <1>3, <2>1, <2>2 DEF HealthTypes
<1>7. ASSUME NEW q, q = statement
      PROVE  SeenAt(q)'
  <2>1. PICK R : R = Present
    OBVIOUS
  <2>2. seen'[q] = Selects(q, R)
    BY <1>1, <1>3, <1>7, <2>1 DEF HealthTypes
  <2>3. Selects(q, R)' = Selects(q, R)
    BY <1>1, SelectionStays
  <2>4. R \in SUBSET events' /\ Steady' \subseteq R /\ R \subseteq EverThere'
    BY <1>1, <1>2, <1>3, <2>1, RowsAreEvents
  <2>5. QED
    BY <2>2, <2>3, <2>4 DEF SeenAt
<1>8. ASSUME NEW q \in Before[statement]
      PROVE  SeenAt(q)'
  <2>1. q # statement /\ q \in DOMAIN Then
    BY <1>1, <1>8 DEF Before, Then
  <2>2. seen'[q] = seen[q]
    BY <1>1, <1>3, <2>1 DEF HealthTypes
  <2>3. SeenAt(q)
    BY <1>8 DEF HealthInv
  <2>4. QED
    BY <1>1, <1>2, <2>2, <2>3, SeenStays
<1>9. \A q \in Before[statement'] : q = statement \/ q \in Before[statement]
  BY <1>1 DEF Before, Then
<1>10. board' = NoBoard
  BY <1>1 DEF HealthInv, Then
<1>11. QED
  BY <1>6, <1>7, <1>8, <1>9, <1>10 DEF HealthInv, NoBoard

\* What happens or expires meanwhile moves the two brackets apart.
LEMMA MeanwhileStep ==
    ASSUME HealthInv, NEW e \in events, Happens(e) \/ Expires(e)
    PROVE  HealthInv'
<1>1. /\ board = NoBoard /\ UNCHANGED questionVars
      /\ UNCHANGED <<zone, asked, events, setting, statement, seen, board>>
      /\ \/ place[e] = "late" /\ place' = [place EXCEPT ![e] = "fresh"]
         \/ place[e] = "there" /\ place' = [place EXCEPT ![e] = "gone"]
  BY DEF Happens, Expires, questionVars
<1>2. HealthTypes /\ place \in [events -> {"there", "late", "fresh", "gone"}]
  BY DEF HealthInv, HealthTypes
<1>3. HealthTypes'
  BY <1>1, <1>2 DEF HealthTypes
<1>4. Steady' \subseteq Steady /\ EverThere \subseteq EverThere'
  BY <1>1, <1>2 DEF Steady, EverThere
<1>5. ASSUME NEW q \in Before[statement]
      PROVE  SeenAt(q)'
  <2>1. SeenAt(q)
    BY <1>5 DEF HealthInv
  <2>2. QED
    BY <1>1, <1>4, <2>1, SeenStays
<1>6. QED
  BY <1>1, <1>3, <1>5 DEF HealthInv, NoBoard

LEMMA HealthInvariant == HealthSpec => []HealthInv
<1>1. HealthInit => HealthInv
  <2> SUFFICES ASSUME HealthInit
               PROVE  HealthInv
    OBVIOUS
  <2>1. place \in [events -> {"there", "late", "fresh", "gone"}]
    BY DEF HealthInit
  <2>2. statement = "uploads" /\ board = NoBoard /\ seen = [q \in DOMAIN Then |-> {}]
    BY DEF HealthInit
  <2>3. statement \in DOMAIN Then /\ Before[statement] = {}
    BY <2>2 DEF Then, Before
  <2>4. QED
    BY <2>1, <2>2, <2>3, HealthAssumption DEF HealthInit, HealthInv, HealthTypes
<1>2. HealthInv /\ [HealthNext]_healthVars => HealthInv'
  <2> SUFFICES ASSUME HealthInv, [HealthNext]_healthVars
               PROVE  HealthInv'
    OBVIOUS
  <2>1. CASE Select
    BY <2>1, SelectStep
  <2>2. CASE ShowHealth
    <3>1. /\ statement = "usage" /\ board' = Shown /\ UNCHANGED questionVars
          /\ UNCHANGED <<zone, asked, events, setting, place, statement, seen>>
      BY <2>2 DEF ShowHealth, Shown, questionVars
    <3>2. HealthTypes' /\ \A q \in Before[statement] : SeenAt(q)
      BY <3>1 DEF HealthInv, HealthTypes
    <3>3. Steady' = Steady /\ EverThere' = EverThere
      BY <3>1 DEF Steady, EverThere
    <3>4. \A q \in Before[statement] : SeenAt(q)'
      BY <3>1, <3>2, <3>3, SeenStays
    <3>5. BucketWeeks' = BucketWeeks /\ BuildIssues' = BuildIssues
      BY <3>1, AnswerStays
    <3>6. Shown' = Shown
      BY <3>5 DEF Shown, StreakWeeks
    <3>7. QED
      BY <3>1, <3>2, <3>4, <3>6 DEF HealthInv
  <2>3. ASSUME NEW e \in events, Happens(e) \/ Expires(e)
        PROVE  HealthInv'
    BY <2>3, MeanwhileStep
  <2>4. CASE UNCHANGED healthVars
    <3>1. /\ UNCHANGED <<zone, asked, events, setting, place, statement, seen, board>>
          /\ UNCHANGED questionVars
      BY <2>4 DEF healthVars, questionVars
    <3>2. HealthTypes' /\ \A q \in Before[statement] : SeenAt(q)
      BY <3>1 DEF HealthInv, HealthTypes
    <3>3. Steady' = Steady /\ EverThere' = EverThere
      BY <3>1 DEF Steady, EverThere
    <3>4. \A q \in Before[statement] : SeenAt(q)'
      BY <3>1, <3>2, <3>3, SeenStays
    <3>5. BucketWeeks' = BucketWeeks /\ BuildIssues' = BuildIssues
      BY <3>1, AnswerStays
    <3>6. Shown' = Shown
      BY <3>5 DEF Shown, StreakWeeks
    <3>7. QED
      BY <3>1, <3>2, <3>4, <3>6 DEF HealthInv, NoBoard
  <2>5. QED
    BY <2>1, <2>2, <2>3, <2>4 DEF HealthNext
<1>3. QED
  BY <1>1, <1>2, PTL DEF HealthSpec

\* For every zone, every moment, whatever has happened and whatever happens
\* while the statements run: the figures of a week lie between what was there
\* throughout and what was ever there of its local week, the streak is neither
\* too long nor too short, a last run that failed is told first and an upload
\* that is told to be stale is (data_health.py).
THEOREM WeeksTellTheTruthHolds == HealthSpec => []WeeksTellTheTruth
<1>1. HealthInv => WeeksTellTheTruth
  <2> SUFFICES ASSUME HealthInv, board # NoBoard
               PROVE  WeeksTellTheTruth
    BY DEF WeeksTellTheTruth
  <2>1. HealthTypes /\ board = Shown /\ \A q \in DOMAIN Then : SeenAt(q)
    BY DEF HealthInv, Before
  <2>2. /\ board.weeks = BucketWeeks /\ board.streak = StreakWeeks(BucketWeeks)
        /\ board.issues = BuildIssues
    BY <2>1 DEF Shown
  <2>3. /\ SeenAt("uploads") /\ SeenAt("jobs") /\ SeenAt("reports")
        /\ SeenAt("lastUpload") /\ SeenAt("lastSuccess") /\ SeenAt("lastFailure")
    BY <2>1 DEF Then
  <2>4. \A n \in 1 .. Lookback : Bracketed(n) /\ BucketWeeks[n].reports \in Nat
    BY <2>1, <2>3, WeeksCounted
  <2>5. /\ \A n \in 1 .. board.streak : board.weeks[Lookback - n].reports > 0
        /\ board.streak < Lookback - 1 => board.weeks[Lookback - board.streak - 1].reports = 0
    BY <2>2, <2>4, StreakEnds
  <2>6. LET first == board.issues # <<>> /\ Head(board.issues) = "last_run_failed"
        IN  (Failed(Steady, EverThere) => first) /\ (first => Failed(EverThere, Steady))
    BY <2>1, <2>2, <2>3, FailureComesFirst, LastFailureTold
  <2>7. Told("stale_upload") => \A e \in OfKind(Steady, {"upload"}) : asked - e.at >= StaleAfter
    BY <2>1, <2>2, <2>3, StaleIsTold, StaleUploadsTold DEF Told
  <2>8. \A n \in 1 .. Lookback :
          LET w == WeekStarts[n]
              Here(t) == w * WeekHours <= t + Offset(t) /\ t + Offset(t) < (w + 1) * WeekHours
              Dated(rows, kinds) == Cardinality({e \in OfKind(rows, kinds) : Here(e.at)})
              Made(rows) == Cardinality({e \in OfKind(rows, Reports) : Here(e.made)})
              Tells(figure, kinds) == figure \in Dated(Steady, kinds) .. Dated(EverThere, kinds)
          IN  /\ Tells(board.weeks[n].uploads, {"upload"})
              /\ Tells(board.weeks[n].succeeded, Good)
              /\ Tells(board.weeks[n].failed, {"failed"})
              /\ board.weeks[n].reports \in Made(Steady) .. Made(EverThere)
    BY <2>2, <2>4 DEF Bracketed, LocalWeek, MadeInWeek
  <2>9. QED
    BY <2>5, <2>6, <2>7, <2>8 DEF WeeksTellTheTruth, Failed
<1>2. QED
  BY <1>1, HealthInvariant, PTL

\* The statements return rows that there are, and the answer has a row for
\* each week and a streak that fits.
THEOREM HealthTypesHold == HealthSpec => []HealthTypeOK
<1>1. HealthInv => HealthTypeOK
  <2> SUFFICES ASSUME HealthInv
               PROVE  HealthTypeOK
    OBVIOUS
  <2>1. HealthTypes /\ \A e \in events : {e.at, e.made} \subseteq Int /\ e.kind \in Kinds
    BY HealthNumbers DEF HealthInv
  <2>2. CASE board = NoBoard
    <3>1. DOMAIN board.weeks = {} /\ board.streak = 0
      BY <2>2 DEF NoBoard
    <3>2. 0 \in 0 .. Lookback - 1
      BY HealthAssumption
    <3>3. QED
      BY <2>1, <3>1, <3>2 DEF HealthTypeOK, HealthTypes
  <2>3. CASE statement = "usage" /\ board = Shown
    <3>1. board.weeks = BucketWeeks /\ board.streak = StreakWeeks(BucketWeeks)
      BY <2>3 DEF Shown
    <3>2. DOMAIN board.weeks = 1 .. Lookback
      BY <3>1 DEF BucketWeeks
    <3>3. SeenAt("uploads") /\ SeenAt("jobs") /\ SeenAt("reports")
      BY <2>3 DEF HealthInv, Before, Then
    <3>4. board.streak \in 0 .. Lookback - 1
      BY <2>1, <3>1, <3>3, WeeksCounted, StreakEnds
    <3>5. QED
      BY <2>1, <3>2, <3>4 DEF HealthTypeOK, HealthTypes
  <2>4. QED
    BY <2>2, <2>3 DEF HealthInv
<1>2. QED
  BY <1>1, HealthInvariant, PTL
=============================================================================
