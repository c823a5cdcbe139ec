-------------------------- MODULE RetentionProofs --------------------------
(***************************************************************************)
(* What the purge of an organization guarantees beside uploads, requests   *)
(* and runs, for every number of them and of failures: RetentionInv is     *)
(* inductive, and the safety properties are conjuncts of it.               *)
(***************************************************************************)
EXTENDS Retention, TLAPS

\* An organization without uploads and runs satisfies the invariant.
LEMMA InitInv == Init => RetentionInv
  BY RetentionAssumption DEF Init, RetentionInv, TypeOK, LockHeld,
     UploadShape, RunShape, PassPlan, SourceStays, KeptUntilDue,
     PurgedMeansGone, Reachable, NothingDue, Running, Stages, Passes

\* ingest_upload and the end of an upload's retention touch one upload only,
\* and of the row only that it appears: no link and no plan is disturbed.
LEMMA IngestKeeps ==
    ASSUME RetentionInv, NEW u \in Uploads, IngestStep(u)
    PROVE  RetentionInv'
<1> USE RetentionAssumption
<1>1. TypeOK'
  <2>1. row' \in [Uploads -> BOOLEAN] /\ \A v \in Uploads : row[v] => row'[v]
    BY DEF IngestStep, StoreFile, InsertUpload, AnswerUpload, RejectUpload,
       Expire, RetentionInv, TypeOK
  <2>2. link' \in [Jobs -> {v \in Uploads : row'[v]} \cup {NoUpload}]
    BY <2>1 DEF IngestStep, StoreFile, InsertUpload, AnswerUpload,
       RejectUpload, Expire, RetentionInv, TypeOK, jobVars
  <2>3. faults' \in 0 .. MaxFaults
    <3>1. faults' = faults \/ Fault
      BY DEF IngestStep, StoreFile, InsertUpload, AnswerUpload, RejectUpload,
         Expire
    <3>2. QED
      BY <3>1 DEF Fault, RetentionInv, TypeOK
  <2>4. /\ file' \in [Uploads -> BOOLEAN]
        /\ expired' \in [Uploads -> BOOLEAN]
    BY DEF IngestStep, StoreFile, InsertUpload, AnswerUpload, RejectUpload,
       Expire, RetentionInv, TypeOK
  <2>5. ingest' \in [Uploads -> {"new", "stored", "listed", "kept",
                                "rejected", "lost"}]
    <3>1. \/ ingest' = ingest
          \/ \E to \in {"stored", "listed", "kept", "rejected"} :
                ingest' = [ingest EXCEPT ![u] = to]
      BY DEF IngestStep, StoreFile, InsertUpload, AnswerUpload, RejectUpload,
         Expire, IngestGoes
    <3>2. QED
      BY <3>1 DEF RetentionInv, TypeOK
  <2>6. QED
    BY <2>1, <2>2, <2>3, <2>4, <2>5 DEF IngestStep, StoreFile, InsertUpload,
       AnswerUpload, RejectUpload, Expire, RetentionInv, TypeOK, jobVars,
       runVars, passVars
<1>2. LockHeld' /\ RunShape' /\ PurgedMeansGone' /\ Reachable'
  BY DEF IngestStep, StoreFile, InsertUpload, AnswerUpload, RejectUpload,
     Expire, RetentionInv, LockHeld, RunShape, PurgedMeansGone, Reachable,
     jobVars, runVars, passVars
<1>3. UploadShape'
  BY DEF IngestStep, StoreFile, InsertUpload, AnswerUpload, RejectUpload,
     Expire, IngestGoes, RetentionInv, TypeOK, UploadShape
<1>4. PassPlan'
  BY DEF IngestStep, StoreFile, InsertUpload, AnswerUpload, RejectUpload,
     Expire, RetentionInv, TypeOK, PassPlan, Clean, runVars, passVars
<1>5. SourceStays' /\ KeptUntilDue'
  BY DEF IngestStep, StoreFile, InsertUpload, AnswerUpload, RejectUpload,
     Expire, IngestGoes, RetentionInv, TypeOK, UploadShape, SourceStays,
     KeptUntilDue, jobVars, runVars
<1>6. QED
  BY <1>1, <1>2, <1>3, <1>4, <1>5 DEF RetentionInv

\* queue_job and cancel_job concern jobs that no run has begun.
LEMMA RequestKeeps ==
    ASSUME RetentionInv, NEW j \in Jobs, RequestStep(j)
    PROVE  RetentionInv'
<1> USE RetentionAssumption
<1>1. TypeOK'
  BY DEF RequestStep, FindUpload, QueueJob, CancelJob, RetentionInv, TypeOK,
     uploadVars, runVars, passVars
<1>2. LockHeld'
  BY DEF RequestStep, FindUpload, QueueJob, CancelJob, RetentionInv, TypeOK,
     LockHeld, runVars, passVars
<1>3. SourceStays'
  BY DEF RequestStep, FindUpload, QueueJob, CancelJob, RetentionInv, TypeOK,
     LockHeld, SourceStays, uploadVars, runVars
<1>4. UploadShape' /\ RunShape' /\ PassPlan' /\ KeptUntilDue'
      /\ PurgedMeansGone' /\ Reachable'
  BY DEF RequestStep, FindUpload, QueueJob, CancelJob, RetentionInv,
     UploadShape, RunShape, PassPlan, Clean, KeptUntilDue, PurgedMeansGone,
     Reachable, uploadVars, runVars, passVars
<1>5. QED
  BY <1>1, <1>2, <1>3, <1>4 DEF RetentionInv

\* The executor and the run of a job work under the lock, so the pass is idle
\* or waits; the passing of time only widens what is old.
LEMMA RunKeeps ==
    ASSUME RetentionInv, NEW j \in Jobs,
           ClaimStep(j) \/ RunStep(j) \/ BreakRun(j) \/ AgeStep(j)
    PROVE  RetentionInv'
<1> USE RetentionAssumption
<1>1. CASE Claim(j)
  <2>1. TypeOK'
    BY <1>1 DEF Claim, RetentionInv, TypeOK, Stages, Running, uploadVars,
       passVars
  <2>2. LockHeld' /\ UploadShape'
    BY <1>1 DEF Claim, RetentionInv, TypeOK, LockHeld, UploadShape, Running,
       uploadVars, passVars
  <2>3. RunShape'
    BY <1>1 DEF Claim, RetentionInv, LockHeld, RunShape, Running
  <2>4. PassPlan'
    BY <1>1 DEF Claim, RetentionInv, LockHeld, PassPlan, uploadVars, passVars
  <2>5. SourceStays' /\ KeptUntilDue'
    BY <1>1 DEF Claim, RetentionInv, SourceStays, KeptUntilDue, HasSource,
       uploadVars
  <2>6. PurgedMeansGone' /\ Reachable'
    BY <1>1 DEF Claim, RetentionInv, PurgedMeansGone, Reachable
  <2>7. QED
    BY <2>1, <2>2, <2>3, <2>4, <2>5, <2>6 DEF RetentionInv
<1>2. CASE ClaimWithoutSource(j)
  <2>1. TypeOK'
    BY <1>2 DEF ClaimWithoutSource, RetentionInv, TypeOK, uploadVars, runVars,
       passVars
  <2>2. LockHeld' /\ UploadShape'
    BY <1>2 DEF ClaimWithoutSource, RetentionInv, LockHeld, UploadShape,
       uploadVars, runVars, passVars
  <2>3. RunShape'
    BY <1>2 DEF ClaimWithoutSource, RetentionInv, RunShape, runVars
  <2>4. PassPlan'
    BY <1>2 DEF ClaimWithoutSource, RetentionInv, LockHeld, PassPlan,
       uploadVars, jobVars, runVars, passVars
  <2>5. SourceStays' /\ KeptUntilDue'
    BY <1>2 DEF ClaimWithoutSource, RetentionInv, SourceStays, KeptUntilDue,
       HasSource, Running, uploadVars, runVars
  <2>6. PurgedMeansGone' /\ Reachable'
    BY <1>2 DEF ClaimWithoutSource, RetentionInv, TypeOK, LockHeld, RunShape,
       PurgedMeansGone, Reachable, runVars
  <2>7. QED
    BY <2>1, <2>2, <2>3, <2>4, <2>5, <2>6 DEF RetentionInv
<1>3. CASE WriteData(j)
  <2>1. TypeOK'
    <3>1. runs' = runs \/ runs' = [runs EXCEPT ![j] = TRUE]
      BY <1>3 DEF WriteData
    <3>2. runs' \in [Jobs -> BOOLEAN] /\ data' \in [Jobs -> BOOLEAN]
      BY <1>3, <3>1 DEF WriteData, RetentionInv, TypeOK
    <3>3. QED
      BY <1>3, <3>2 DEF WriteData, StageGoes, RetentionInv, TypeOK, Stages,
         Running, uploadVars, jobVars, passVars
  <2>2. LockHeld' /\ UploadShape'
    BY <1>3 DEF WriteData, StageGoes, RetentionInv, LockHeld, UploadShape,
       Running, uploadVars, jobVars, passVars
  <2>3. RunShape'
    BY <1>3 DEF WriteData, StageGoes, RetentionInv, TypeOK, RunShape
  <2>4. PassPlan'
    BY <1>3 DEF WriteData, StageGoes, RetentionInv, TypeOK, RunShape,
       PassPlan, RunPasses, Clean, uploadVars, passVars
  <2>5. SourceStays' /\ KeptUntilDue'
    BY <1>3 DEF WriteData, StageGoes, RetentionInv, TypeOK, LockHeld,
       SourceStays, KeptUntilDue, Running, uploadVars
  <2>6. PurgedMeansGone' /\ Reachable'
    BY <1>3 DEF WriteData, StageGoes, RetentionInv, TypeOK, RunShape,
       PurgedMeansGone, Reachable
  <2>7. QED
    BY <2>1, <2>2, <2>3, <2>4, <2>5, <2>6 DEF RetentionInv
<1>4. CASE WriteReport(j)
  <2>1. TypeOK'
    BY <1>4 DEF WriteReport, StageGoes, RetentionInv, TypeOK, Stages, Running,
       uploadVars, jobVars, passVars
  <2>2. LockHeld' /\ UploadShape'
    BY <1>4 DEF WriteReport, StageGoes, RetentionInv, LockHeld, UploadShape,
       Running, uploadVars, jobVars, passVars
  <2>3. RunShape'
    BY <1>4 DEF WriteReport, StageGoes, RetentionInv, RunShape
  <2>4. PassPlan'
    BY <1>4 DEF WriteReport, RetentionInv, PassPlan, Clean, uploadVars,
       passVars
  <2>5. SourceStays' /\ KeptUntilDue'
    BY <1>4 DEF WriteReport, StageGoes, RetentionInv, LockHeld, RunShape,
       SourceStays, KeptUntilDue, Running, uploadVars
  <2>6. PurgedMeansGone' /\ Reachable'
    BY <1>4 DEF WriteReport, StageGoes, RetentionInv, PurgedMeansGone,
       Reachable
  <2>7. QED
    BY <2>1, <2>2, <2>3, <2>4, <2>5, <2>6 DEF RetentionInv
<1>5. CASE UpsertRun(j)
  <2>1. TypeOK'
    BY <1>5 DEF UpsertRun, StageGoes, RetentionInv, TypeOK, Stages, Running,
       uploadVars, jobVars, passVars
  <2>2. LockHeld' /\ UploadShape'
    BY <1>5 DEF UpsertRun, StageGoes, RetentionInv, LockHeld, UploadShape,
       Running, uploadVars, jobVars, passVars
  <2>3. RunShape'
    BY <1>5 DEF UpsertRun, StageGoes, RetentionInv, TypeOK, RunShape
  <2>4. PassPlan'
    BY <1>5 DEF UpsertRun, StageGoes, RetentionInv, RunShape, PassPlan,
       RunPasses, Clean, uploadVars, passVars
  <2>5. SourceStays' /\ KeptUntilDue'
    BY <1>5 DEF UpsertRun, StageGoes, RetentionInv, LockHeld, SourceStays,
       KeptUntilDue, Running, uploadVars
  <2>6. PurgedMeansGone' /\ Reachable'
    BY <1>5 DEF UpsertRun, StageGoes, RetentionInv, TypeOK, RunShape,
       PurgedMeansGone, Reachable
  <2>7. QED
    BY <2>1, <2>2, <2>3, <2>4, <2>5, <2>6 DEF RetentionInv
<1>6. CASE UpsertFailedRun(j)
  <2>1. TypeOK'
    BY <1>6 DEF UpsertFailedRun, StageGoes, RetentionInv, TypeOK, Stages,
       Running, uploadVars, jobVars, passVars
  <2>2. LockHeld' /\ UploadShape'
    BY <1>6 DEF UpsertFailedRun, StageGoes, RetentionInv, TypeOK, LockHeld,
       UploadShape, Running, uploadVars, jobVars, passVars
  <2>3. RunShape'
    BY <1>6 DEF UpsertFailedRun, StageGoes, RetentionInv, TypeOK, RunShape
  <2>4. PassPlan'
    BY <1>6 DEF UpsertFailedRun, StageGoes, RetentionInv, TypeOK, RunShape,
       PassPlan, RunPasses, Clean, uploadVars, passVars
  <2>5. SourceStays' /\ KeptUntilDue'
    BY <1>6 DEF UpsertFailedRun, StageGoes, RetentionInv, TypeOK, LockHeld,
       RunShape, SourceStays, KeptUntilDue, Running, uploadVars
  <2>6. PurgedMeansGone' /\ Reachable'
    BY <1>6 DEF UpsertFailedRun, StageGoes, RetentionInv, TypeOK, RunShape,
       PurgedMeansGone, Reachable
  <2>7. QED
    BY <2>1, <2>2, <2>3, <2>4, <2>5, <2>6 DEF RetentionInv
<1>7. CASE Record(j)
  <2>1. TypeOK'
    BY <1>7 DEF Record, StageGoes, RetentionInv, TypeOK, Stages, uploadVars,
       passVars
  <2>2. LockHeld' /\ UploadShape'
    BY <1>7 DEF Record, StageGoes, RetentionInv, TypeOK, LockHeld,
       UploadShape, Running, uploadVars, passVars
  <2>3. RunShape'
    BY <1>7 DEF Record, StageGoes, RetentionInv, TypeOK, RunShape
  <2>4. PassPlan'
    BY <1>7 DEF Record, StageGoes, RetentionInv, RunShape, PassPlan, Clean,
       uploadVars, passVars
  <2>5. SourceStays' /\ KeptUntilDue'
    BY <1>7 DEF Record, StageGoes, RetentionInv, RunShape, SourceStays,
       KeptUntilDue, uploadVars
  <2>6. PurgedMeansGone' /\ Reachable'
    BY <1>7 DEF Record, StageGoes, RetentionInv, RunShape, PurgedMeansGone,
       Reachable
  <2>7. QED
    BY <2>1, <2>2, <2>3, <2>4, <2>5, <2>6 DEF RetentionInv
<1>8. CASE BreakRun(j)
  <2>1. TypeOK'
    BY <1>8 DEF BreakRun, Interrupted, Fault, RetentionInv, TypeOK, Stages,
       uploadVars, passVars
  <2>2. LockHeld' /\ UploadShape'
    BY <1>8 DEF BreakRun, Interrupted, RetentionInv, TypeOK, LockHeld,
       UploadShape, Running, uploadVars, runVars, passVars
  <2>3. RunShape'
    BY <1>8 DEF BreakRun, Interrupted, RetentionInv, RunShape
  <2>4. PassPlan'
    BY <1>8 DEF BreakRun, RetentionInv, LockHeld, PassPlan, uploadVars,
       jobVars, passVars
  <2>5. SourceStays' /\ KeptUntilDue'
    BY <1>8 DEF BreakRun, Interrupted, RetentionInv, SourceStays,
       KeptUntilDue, uploadVars
  <2>6. PurgedMeansGone' /\ Reachable'
    BY <1>8 DEF BreakRun, Interrupted, RetentionInv, RunShape,
       PurgedMeansGone, Reachable, uploadVars
  <2>7. QED
    BY <2>1, <2>2, <2>3, <2>4, <2>5, <2>6 DEF RetentionInv
<1>9. CASE AgeStarted(j)
  <2>1. TypeOK'
    BY <1>9 DEF AgeStarted, RetentionInv, TypeOK, uploadVars, jobVars,
       passVars
  <2>2. LockHeld' /\ UploadShape'
    BY <1>9 DEF AgeStarted, RetentionInv, LockHeld, UploadShape, RunShape,
       uploadVars, jobVars, passVars
  <2>3. RunShape'
    BY <1>9 DEF AgeStarted, RetentionInv, RunShape
  <2>4. PassPlan'
    BY <1>9 DEF AgeStarted, RetentionInv, TypeOK, RunShape, PassPlan,
       RunPasses, Clean, uploadVars, passVars
  <2>5. SourceStays' /\ KeptUntilDue'
    BY <1>9 DEF AgeStarted, RetentionInv, SourceStays, KeptUntilDue,
       uploadVars, jobVars
  <2>6. PurgedMeansGone' /\ Reachable'
    BY <1>9 DEF AgeStarted, RetentionInv, PurgedMeansGone, Reachable
  <2>7. QED
    BY <2>1, <2>2, <2>3, <2>4, <2>5, <2>6 DEF RetentionInv
<1>10. CASE AgeCreated(j)
  <2>1. TypeOK'
    BY <1>10 DEF AgeCreated, RetentionInv, TypeOK, uploadVars, jobVars,
       passVars
  <2>2. LockHeld' /\ UploadShape'
    BY <1>10 DEF AgeCreated, RetentionInv, LockHeld, UploadShape, uploadVars,
       jobVars, passVars
  <2>3. RunShape'
    BY <1>10 DEF AgeCreated, RetentionInv, RunShape
  <2>4. PassPlan'
    BY <1>10 DEF AgeCreated, RetentionInv, PassPlan, Clean, uploadVars,
       passVars
  <2>5. SourceStays' /\ KeptUntilDue'
    BY <1>10 DEF AgeCreated, RetentionInv, SourceStays, KeptUntilDue,
       uploadVars, jobVars
  <2>6. PurgedMeansGone' /\ Reachable'
    BY <1>10 DEF AgeCreated, RetentionInv, PurgedMeansGone, Reachable
  <2>7. QED
    BY <2>1, <2>2, <2>3, <2>4, <2>5, <2>6 DEF RetentionInv
<1>11. QED
  BY <1>1, <1>2, <1>3, <1>4, <1>5, <1>6, <1>7, <1>8, <1>9, <1>10 DEF
     ClaimStep, RunStep, AgeStep

\* A pass works under the lock, so no run does; wherever it breaks off, what it
\* has not finished keeps its row.
LEMMA PassKeeps ==
    ASSUME RetentionInv,
           StartPurge \/ EnterPurge \/ PurgeStep \/ BreakPass \/ Restart
    PROVE  RetentionInv'
<1> USE RetentionAssumption
<1>1. CASE StartPurge
  <2>1. TypeOK'
    BY <1>1 DEF StartPurge, PassGoes, RetentionInv, TypeOK, Passes,
       uploadVars, jobVars, runVars
  <2>2. LockHeld' /\ UploadShape'
    BY <1>1 DEF StartPurge, PassGoes, RetentionInv, LockHeld, UploadShape,
       uploadVars, jobVars, runVars, passVars
  <2>3. RunShape'
    BY <1>1 DEF StartPurge, RetentionInv, RunShape, runVars
  <2>4. PassPlan'
    BY <1>1 DEF StartPurge, PassGoes, RetentionInv, PassPlan, RunPasses,
       uploadVars, jobVars, runVars
  <2>5. SourceStays' /\ KeptUntilDue'
    BY <1>1 DEF StartPurge, RetentionInv, SourceStays, KeptUntilDue,
       uploadVars, jobVars, runVars
  <2>6. PurgedMeansGone' /\ Reachable'
    BY <1>1 DEF StartPurge, RetentionInv, PurgedMeansGone, Reachable,
       uploadVars, runVars
  <2>7. QED
    BY <2>1, <2>2, <2>3, <2>4, <2>5, <2>6 DEF RetentionInv
<1>2. CASE EnterPurge
  <2>1. TypeOK'
    BY <1>2 DEF EnterPurge, PassGoes, RetentionInv, TypeOK, Passes, Clean,
       uploadVars, jobVars, runVars
  <2>2. LockHeld' /\ UploadShape'
    BY <1>2 DEF EnterPurge, PassGoes, RetentionInv, LockHeld, UploadShape,
       PassPlan, Running, uploadVars, jobVars, runVars
  <2>3. RunShape'
    BY <1>2 DEF EnterPurge, RetentionInv, RunShape, RunPasses, Running,
       runVars
  <2>4. PassPlan'
    BY <1>2 DEF EnterPurge, PassGoes, RetentionInv, PassPlan, RunPasses,
       Running, uploadVars, runVars
  <2>5. SourceStays' /\ KeptUntilDue'
    BY <1>2 DEF EnterPurge, PassGoes, RetentionInv, TypeOK, LockHeld,
       PassPlan, SourceStays, KeptUntilDue, Running, Interrupted, uploadVars,
       runVars
  <2>6. PurgedMeansGone' /\ Reachable'
    BY <1>2 DEF EnterPurge, PassGoes, RetentionInv, TypeOK, PassPlan,
       RunPasses, PurgedMeansGone, Reachable, Running, Unpurged, runVars
  <2>7. QED
    BY <2>1, <2>2, <2>3, <2>4, <2>5, <2>6 DEF RetentionInv
<1>3. CASE ChooseUploads
  <2>1. TypeOK'
    BY <1>3 DEF ChooseUploads, PassGoes, RetentionInv,
       TypeOK, PassPlan, Passes, RunPasses, uploadVars, jobVars, runVars
  <2>2. LockHeld' /\ UploadShape'
    BY <1>3 DEF ChooseUploads, PassGoes, RetentionInv,
       LockHeld, UploadShape, uploadVars, jobVars, runVars
  <2>3. RunShape'
    BY <1>3 DEF ChooseUploads, RetentionInv, TypeOK,
       LockHeld, RunShape, runVars
  <2>4. PassPlan'
    BY <1>3 DEF ChooseUploads, PassGoes, RetentionInv,
       PassPlan, RunPasses, uploadVars, runVars
  <2>5. SourceStays' /\ KeptUntilDue'
    BY <1>3 DEF ChooseUploads, PassGoes, RetentionInv,
       LockHeld, UploadShape, SourceStays, KeptUntilDue, Running, uploadVars,
       runVars
  <2>6. PurgedMeansGone' /\ Reachable'
    BY <1>3 DEF ChooseUploads, RetentionInv, PurgedMeansGone,
       Reachable, runVars
  <2>7. QED
    BY <2>1, <2>2, <2>3, <2>4, <2>5, <2>6 DEF RetentionInv
<1>4. CASE \E u \in Uploads : UnlinkUpload(u)
  <2> SUFFICES ASSUME NEW u \in Uploads, UnlinkUpload(u)
               PROVE  RetentionInv'
    BY <1>4
  <2>1. TypeOK'
    <3>1. faults' = faults \/ Fault
      BY DEF UnlinkUpload
    <3>2. faults' \in 0 .. MaxFaults
      BY <3>1 DEF Fault, RetentionInv, TypeOK
    <3>3. file' \in [Uploads -> BOOLEAN]
      BY DEF UnlinkUpload, RetentionInv, TypeOK
    <3>4. todo' \subseteq targets' /\ stuck' \subseteq targets'
      BY DEF UnlinkUpload, RetentionInv, TypeOK
    <3>5. QED
      BY <3>2, <3>3, <3>4 DEF UnlinkUpload, RetentionInv, TypeOK, jobVars,
         runVars
  <2>2. LockHeld' /\ UploadShape'
    BY DEF UnlinkUpload, RetentionInv, TypeOK, LockHeld, UploadShape,
       PassPlan, jobVars, runVars
  <2>3. RunShape'
    BY DEF UnlinkUpload, RetentionInv, RunShape, runVars
  <2>4. PassPlan'
    BY DEF UnlinkUpload, RetentionInv, PassPlan, RunPasses, runVars
  <2>5. SourceStays' /\ KeptUntilDue'
    BY DEF UnlinkUpload, RetentionInv, TypeOK, LockHeld, PassPlan,
       SourceStays, KeptUntilDue, Running, runVars
  <2>6. PurgedMeansGone' /\ Reachable'
    BY DEF UnlinkUpload, RetentionInv, PurgedMeansGone, Reachable, runVars
  <2>7. QED
    BY <2>1, <2>2, <2>3, <2>4, <2>5, <2>6 DEF RetentionInv
<1>5. CASE DeleteUploads
  <2>1. TypeOK'
    BY <1>5 DEF DeleteUploads, PassGoes, RetentionInv, TypeOK, Passes, runVars
  <2>2. LockHeld' /\ UploadShape'
    BY <1>5 DEF DeleteUploads, PassGoes, RetentionInv, LockHeld, UploadShape,
       PassPlan, runVars
  <2>3. RunShape'
    BY <1>5 DEF DeleteUploads, RetentionInv, RunShape, runVars
  <2>4. PassPlan'
    BY <1>5 DEF DeleteUploads, PassGoes, RetentionInv, PassPlan, RunPasses,
       runVars
  <2>5. SourceStays' /\ KeptUntilDue'
    BY <1>5 DEF DeleteUploads, PassGoes, RetentionInv, LockHeld, PassPlan,
       SourceStays, KeptUntilDue, Running, runVars
  <2>6. PurgedMeansGone' /\ Reachable'
    BY <1>5 DEF DeleteUploads, RetentionInv, PurgedMeansGone, Reachable,
       runVars
  <2>7. QED
    BY <2>1, <2>2, <2>3, <2>4, <2>5, <2>6 DEF RetentionInv
<1>6. CASE ChooseRuns
  <2>1. TypeOK'
    BY <1>6 DEF ChooseRuns, ChooseRunsAs, PassGoes, RetentionInv, TypeOK,
       Passes, uploadVars, jobVars, runVars
  <2>2. LockHeld' /\ UploadShape'
    BY <1>6 DEF ChooseRuns, ChooseRunsAs, PassGoes, RetentionInv, LockHeld,
       UploadShape, uploadVars, jobVars, runVars
  <2>3. RunShape'
    BY <1>6 DEF ChooseRuns, ChooseRunsAs, RetentionInv, RunShape, runVars
  <2>4. PassPlan'
    BY <1>6 DEF ChooseRuns, ChooseRunsAs, PassGoes, RetentionInv, PassPlan,
       uploadVars, runVars
  <2>5. SourceStays' /\ KeptUntilDue'
    BY <1>6 DEF ChooseRuns, ChooseRunsAs, PassGoes, RetentionInv, LockHeld,
       SourceStays, KeptUntilDue, Running, uploadVars, runVars
  <2>6. PurgedMeansGone' /\ Reachable'
    BY <1>6 DEF ChooseRuns, ChooseRunsAs, RetentionInv, PurgedMeansGone,
       Reachable, runVars
  <2>7. QED
    BY <2>1, <2>2, <2>3, <2>4, <2>5, <2>6 DEF RetentionInv
<1>7. CASE \E j \in Jobs : UnlinkReport(j)
  <2> SUFFICES ASSUME NEW j \in Jobs, UnlinkReport(j)
               PROVE  RetentionInv'
    BY <1>7
  <2>1. TypeOK'
    BY DEF UnlinkReport, Fault, RetentionInv, TypeOK, uploadVars, jobVars
  <2>2. LockHeld' /\ UploadShape'
    BY DEF UnlinkReport, RetentionInv, LockHeld, UploadShape, uploadVars,
       jobVars
  <2>3. RunShape'
    BY DEF UnlinkReport, RetentionInv, TypeOK, RunShape
  <2>4. PassPlan'
    BY DEF UnlinkReport, Named, RetentionInv, TypeOK, PassPlan, Reachable,
       uploadVars
  <2>5. SourceStays' /\ KeptUntilDue'
    BY DEF UnlinkReport, RetentionInv, TypeOK, LockHeld, PassPlan, RunPasses,
       SourceStays, KeptUntilDue, Running, uploadVars
  <2>6. PurgedMeansGone' /\ Reachable'
    BY DEF UnlinkReport, RetentionInv, TypeOK, PurgedMeansGone, Reachable
  <2>7. QED
    BY <2>1, <2>2, <2>3, <2>4, <2>5, <2>6 DEF RetentionInv
<1>8. CASE DeleteData
  <2>1. TypeOK'
    BY <1>8 DEF DeleteData, PassGoes, RetentionInv, TypeOK, Passes,
       uploadVars, jobVars
  <2>2. LockHeld' /\ UploadShape'
    BY <1>8 DEF DeleteData, PassGoes, RetentionInv, LockHeld, UploadShape,
       uploadVars, jobVars
  <2>3. RunShape'
    BY <1>8 DEF DeleteData, RetentionInv, RunShape
  <2>4. PassPlan'
    BY <1>8 DEF DeleteData, PassGoes, RetentionInv, PassPlan, RunPasses,
       Clean, uploadVars, runVars, passVars
  <2>5. SourceStays' /\ KeptUntilDue'
    BY <1>8 DEF DeleteData, PassGoes, RetentionInv, LockHeld, SourceStays,
       KeptUntilDue, Running, uploadVars
  <2>6. PurgedMeansGone' /\ Reachable'
    BY <1>8 DEF DeleteData, RetentionInv, PurgedMeansGone, Reachable
  <2>7. QED
    BY <2>1, <2>2, <2>3, <2>4, <2>5, <2>6 DEF RetentionInv
<1>9. CASE DeleteRuns
  <2>1. TypeOK'
    BY <1>9 DEF DeleteRuns, PassGoes, RetentionInv, TypeOK, Passes,
       uploadVars, jobVars
  <2>2. LockHeld' /\ UploadShape'
    BY <1>9 DEF DeleteRuns, PassGoes, RetentionInv, LockHeld, UploadShape,
       uploadVars, jobVars
  <2>3. RunShape'
    BY <1>9 DEF DeleteRuns, PassGoes, RetentionInv, LockHeld, RunShape,
       Running
  <2>4. PassPlan'
    BY <1>9 DEF DeleteRuns, PassGoes, RetentionInv, PassPlan, RunPasses,
       Clean, uploadVars
  <2>5. SourceStays' /\ KeptUntilDue'
    BY <1>9 DEF DeleteRuns, PassGoes, RetentionInv, LockHeld, PassPlan,
       RunPasses, SourceStays, KeptUntilDue, Clean, Running, uploadVars
  <2>6. PurgedMeansGone' /\ Reachable'
    BY <1>9 DEF DeleteRuns, PassGoes, RetentionInv, PassPlan, RunPasses,
       PurgedMeansGone, Reachable, Clean
  <2>7. QED
    BY <2>1, <2>2, <2>3, <2>4, <2>5, <2>6 DEF RetentionInv
<1>10. CASE Mark
  <2>1. TypeOK'
    BY <1>10 DEF Mark, PassOver, RetentionInv, TypeOK, NothingDue, Passes,
       uploadVars, jobVars
  <2>2. LockHeld' /\ UploadShape'
    BY <1>10 DEF Mark, PassOver, RetentionInv, LockHeld, UploadShape,
       uploadVars, jobVars
  <2>3. RunShape'
    BY <1>10 DEF Mark, RetentionInv, RunShape, PassPlan, RunPasses, Unpurged
  <2>4. PassPlan'
    BY <1>10 DEF Mark, PassOver, PassPlan, NothingDue
  <2>5. SourceStays' /\ KeptUntilDue'
    BY <1>10 DEF Mark, RetentionInv, LockHeld, SourceStays, KeptUntilDue,
       Running, uploadVars
  <2>6. PurgedMeansGone' /\ Reachable'
    BY <1>10 DEF Mark, RetentionInv, PassPlan, RunPasses, PurgedMeansGone,
       Reachable, Clean
  <2>7. QED
    BY <2>1, <2>2, <2>3, <2>4, <2>5, <2>6 DEF RetentionInv
<1>11. CASE BreakPass
  <2>1. TypeOK'
    BY <1>11 DEF BreakPass, PassOver, Fault, RetentionInv, TypeOK, NothingDue,
       Passes, uploadVars, jobVars, runVars
  <2>2. LockHeld' /\ UploadShape'
    BY <1>11 DEF BreakPass, PassOver, RetentionInv, LockHeld, UploadShape,
       uploadVars, jobVars, runVars
  <2>3. RunShape'
    BY <1>11 DEF BreakPass, RetentionInv, RunShape, runVars
  <2>4. PassPlan'
    BY <1>11 DEF BreakPass, PassOver, PassPlan, NothingDue
  <2>5. SourceStays' /\ KeptUntilDue'
    BY <1>11 DEF BreakPass, RetentionInv, LockHeld, SourceStays, KeptUntilDue,
       Running, uploadVars, runVars
  <2>6. PurgedMeansGone' /\ Reachable'
    BY <1>11 DEF BreakPass, RetentionInv, PurgedMeansGone, Reachable, runVars
  <2>7. QED
    BY <2>1, <2>2, <2>3, <2>4, <2>5, <2>6 DEF RetentionInv
<1>12. CASE Restart
  <2>1. TypeOK'
    <3>1. stage' \in [Jobs -> Stages]
      BY <1>12 DEF Restart, Interrupted, RetentionInv, TypeOK, Stages
    <3>2. job' \in [Jobs -> {"absent", "queued", "running", "ended"}]
      BY <1>12 DEF Restart, RetentionInv, TypeOK
    <3>3. ingest' \in [Uploads -> {"new", "stored", "listed", "kept",
                                  "rejected", "lost"}]
      BY <1>12 DEF Restart, RetentionInv, TypeOK
    <3>4. faults' \in 0 .. MaxFaults
      BY <1>12 DEF Restart, Fault, RetentionInv, TypeOK
    <3>5. QED
      BY <1>12, <3>1, <3>2, <3>3, <3>4 DEF Restart, RetentionInv, TypeOK,
         Passes, NothingDue
  <2>2. LockHeld' /\ UploadShape'
    BY <1>12 DEF Restart, RetentionInv, LockHeld, UploadShape, Running,
       Interrupted
  <2>3. RunShape'
    BY <1>12 DEF Restart, RetentionInv, RunShape, Interrupted
  <2>4. PassPlan'
    BY <1>12 DEF Restart, PassPlan, NothingDue
  <2>5. SourceStays' /\ KeptUntilDue'
    BY <1>12 DEF Restart, RetentionInv, UploadShape, SourceStays,
       KeptUntilDue, Interrupted
  <2>6. PurgedMeansGone' /\ Reachable'
    BY <1>12 DEF Restart, RetentionInv, RunShape, PurgedMeansGone, Reachable,
       Interrupted
  <2>7. QED
    BY <2>1, <2>2, <2>3, <2>4, <2>5, <2>6 DEF RetentionInv
<1>13. QED
  BY <1>1, <1>2, <1>3, <1>4, <1>5, <1>6, <1>7, <1>8, <1>9, <1>10, <1>11, <1>12
     DEF PurgeStep

\* The invariant: the lock, the shape of what uploads and runs leave behind,
\* and the plan of the pass hold together for every number of uploads, jobs
\* and failures.
THEOREM RetentionInvariant == Spec => []RetentionInv
<1>1. Init => RetentionInv
  BY InitInv
<1>2. RetentionInv /\ [Next]_vars => RetentionInv'
  <2> SUFFICES ASSUME RetentionInv, [Next]_vars
               PROVE  RetentionInv'
    OBVIOUS
  <2>1. CASE \E u \in Uploads : IngestStep(u)
    BY <2>1, IngestKeeps
  <2>2. CASE \E j \in Jobs : RequestStep(j)
    BY <2>2, RequestKeeps
  <2>3. CASE \E j \in Jobs : ClaimStep(j) \/ RunStep(j) \/ BreakRun(j)
                             \/ AgeStep(j)
    BY <2>3, RunKeeps
  <2>4. CASE StartPurge \/ EnterPurge \/ PurgeStep \/ BreakPass \/ Restart
    BY <2>4, PassKeeps
  <2>5. CASE UNCHANGED vars
    BY <2>5 DEF vars, uploadVars, jobVars, runVars, passVars, RetentionInv,
       TypeOK, LockHeld, UploadShape, RunShape, PassPlan, SourceStays,
       KeptUntilDue, PurgedMeansGone, Reachable, Clean
  <2>6. QED
    BY <2>1, <2>2, <2>3, <2>4, <2>5 DEF Next
<1>3. QED
  BY <1>1, <1>2, PTL DEF Spec

\* While a run reads its upload, no purge takes the file away.
THEOREM SourceStaysHolds == Spec => []SourceStays
<1>1. RetentionInv => SourceStays
  BY DEF RetentionInv
<1>2. QED
  BY <1>1, RetentionInvariant, PTL

\* No upload and no finished run is purged before it is due.
THEOREM KeptUntilDueHolds == Spec => []KeptUntilDue
<1>1. RetentionInv => KeptUntilDue
  BY DEF RetentionInv
<1>2. QED
  BY <1>1, RetentionInvariant, PTL

\* report_purged_at is set only when the rows and named files are gone, over
\* any number of failures and restarts.
THEOREM PurgedMeansGoneHolds == Spec => []PurgedMeansGone
<1>1. RetentionInv => PurgedMeansGone
  BY DEF RetentionInv
<1>2. QED
  BY <1>1, RetentionInvariant, PTL

\* However often passes break off, a later pass still finds what is due.
THEOREM ReachableHolds == Spec => []Reachable
<1>1. RetentionInv => Reachable
  BY DEF RetentionInv
<1>2. QED
  BY <1>1, RetentionInvariant, PTL

\* The purge takes nothing from a run that reads it, and nothing early.
THEOREM NothingTakenEarlyHolds == Spec => []NothingTakenEarly
BY SourceStaysHolds, KeptUntilDueHolds, PTL DEF NothingTakenEarly

\* Wherever passes broke off, the marks are true and the rest is still named.
THEOREM NothingOutOfReachHolds == Spec => []NothingOutOfReach
BY PurgedMeansGoneHolds, ReachableHolds, PTL DEF NothingOutOfReach

\* Every variable keeps its type.
THEOREM RetentionTypes == Spec => []TypeOK
<1>1. RetentionInv => TypeOK
  BY DEF RetentionInv
<1>2. QED
  BY <1>1, RetentionInvariant, PTL
=============================================================================
