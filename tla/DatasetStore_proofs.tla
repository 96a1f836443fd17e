------------------------ MODULE DatasetStore_proofs ------------------------
(***************************************************************************)
(* Theorems about DatasetStore, for every set of workers, datasets,        *)
(* entries, inputs and every value of the switches InDB, Faults, Crashes.  *)
(***************************************************************************)
EXTENDS DatasetStore, FiniteSetTheorems, TLAPS

-----------------------------------------------------------------------------
(* Operators of the model.                                                 *)

LEMMA RowsOfType ==
  ASSUME NEW doc \in Stored
  PROVE  RowsOf(doc) \in Docs
BY DocsAssumption DEF RowsOf, Decodable, Docs

LEMMA ErrorCountType ==
  ASSUME NEW fs \in [Datasets -> Stored], NEW d \in Datasets
  PROVE  ErrorCount(fs, d) \in Nat
<1>1. Dangling(fs, d) \subseteq Entries
  BY RowsOfType DEF Dangling, Docs
<1>2. IsFiniteSet(Dangling(fs, d))
  BY <1>1, FS_Subset, DocsAssumption
<1>3. Cardinality(Dangling(fs, d)) \in Nat
  BY <1>2, FS_CardinalityType
<1> QED
  BY <1>3 DEF ErrorCount

LEMMA NoJobType == NoJob \in Job
BY DatasetsAssumption DEF NoJob, Job, AllOps, Stored, Docs, NoSnap

\* The store and the handlers' bookkeeping keep their types under the helpers.
LEMMA MaterializedType ==
  ASSUME NEW fs \in [Datasets -> Stored], NEW rs \in [Datasets -> Stored]
  PROVE  Materialized(fs, rs) \in [Datasets -> Stored]
BY DEF Materialized

LEMMA ImportedType ==
  ASSUME NEW fs \in [Datasets -> Stored], NEW rs \in [Datasets -> Stored]
  PROVE  Imported(fs, rs) \in [Datasets -> Stored]
BY DEF Imported

LEMMA BackupFileType ==
  ASSUME TypeOK, NEW d \in Datasets, BackupFile(d)
  PROVE  backups' \in [Datasets -> [Clock -> Stored]]
BY DEF TypeOK, BackupFile

LEMMA BackupAttemptType ==
  ASSUME TypeOK, NEW d \in Datasets, BackupAttempt(d)
  PROVE  backups' \in [Datasets -> [Clock -> Stored]]
<1>1. CASE files[d] # Absent /\ backups' = [backups EXCEPT ![d][clock] = Torn]
  BY <1>1 DEF TypeOK, Stored
<1>2. CASE UNCHANGED backups
  BY <1>2 DEF TypeOK
<1>3. CASE BackupFile(d)
  BY <1>3, BackupFileType
<1> QED
  BY <1>1, <1>2, <1>3 DEF BackupAttempt

\* A request that fails before it touches the file leaves its error, and what
\* its backup became; the lock was free and stays free.
LEMMA FailedBeginFacts ==
  ASSUME NEW w \in Workers, FailedBegin(w)
  PROVE  /\ pc[w] = "idle" /\ up /\ mutex = Free
         /\ Fault /\ Finish(w, "error")
         /\ UNCHANGED <<files, rows, active, holders, clock, staged, mutex, up>>
         /\ \E d \in Datasets : BackupAttempt(d)
BY DEF FailedBegin, BeginFails, Idle

LEMMA RestoredType ==
  ASSUME TypeOK, NEW w \in Workers
  PROVE  Restored(w) \in [Datasets -> Stored]
<1>1. job[w] \in Job
  BY DEF TypeOK
<1>2. /\ job[w].ds \in Datasets
      /\ job[w].stamp = NoBackup \/ job[w].stamp \in Clock
  BY <1>1 DEF Job
<1>3. Absent \in Stored
  BY DEF Stored
<1> QED
  BY <1>2, <1>3 DEF TypeOK, Restored

LEMMA PublishType ==
  ASSUME TypeOK, NEW fs \in [Datasets -> Stored], PublishIfCompiles(fs)
  PROVE  /\ active' \in [Datasets -> Stored]
         /\ holders' \subseteq Workers
BY DEF TypeOK, PublishIfCompiles, Publish, Keep

LEMMA ForgetType ==
  ASSUME NEW j \in Job
  PROVE  Forget(j) \in Job
BY NoJobType DEF Forget, Job

LEMMA FinishType ==
  ASSUME TypeOK, NEW w \in Workers, NEW res \in Outcomes, Finish(w, res)
  PROVE  /\ pc' \in [Workers -> Steps]
         /\ job' \in [Workers -> Job]
         /\ answer' \in {Silent} \cup (Workers \X Outcomes)
BY NoJobType DEF TypeOK, Finish, Go, Steps

-----------------------------------------------------------------------------
(* Type correctness.                                                       *)

LEMMA InitType == Init => TypeOK
<1> SUFFICES ASSUME Init PROVE TypeOK
  OBVIOUS
<1>1. files \in [Datasets -> Stored]
  BY DocsAssumption DEF Init, Stored
<1>2. Absent \in Stored
  BY DEF Stored
<1>3. clock \in Clock
  BY ValuesAssumption DEF Init, Clock
<1> QED
  BY <1>1, <1>2, <1>3, NoJobType DEF Init, TypeOK, Steps

LEMMA PutType ==
  ASSUME TypeOK, NEW w \in Workers, PutStep(w)
  PROVE  TypeOK'
<1> DEFINE j == job[w]
<1>j. /\ j \in Job
      /\ j.ds \in Datasets
      /\ j.doc \in Stored
  BY DEF TypeOK, Job
<1>v. /\ Torn \in Stored
      /\ {"applied", "rejected", "error"} \subseteq Outcomes
  BY DEF Stored, Outcomes
<1>1. CASE PutWrite(w)
  <2>1. Written(w) \subseteq Stored
    BY <1>j, <1>v DEF Written, TypeOK
  <2> QED
    BY <1>1, <1>j, <2>1 DEF PutWrite, TypeOK, Go, Quiet, Steps
<1>2. CASE PutWriteFails(w)
  BY <1>2, <1>v, FinishType
  DEF PutWriteFails, Fault, TypeOK, Unlock, store
<1>3. CASE PutAccept(w)
  <2>1. CASE InDB
    BY <1>3, <2>1 DEF PutAccept, TypeOK, Publish, Go, Quiet, Steps
  <2>2. CASE ~InDB
    BY <1>3, <1>v, <2>2, FinishType DEF PutAccept, TypeOK, Publish, Unlock
  <2> QED
    BY <2>1, <2>2
<1>4. CASE PutReject(w)
  BY <1>4 DEF PutReject, TypeOK, Go, Quiet, Steps, store
<1>5. CASE PutRollback(w)
  <2>1. /\ files' \in [Datasets -> Stored]
        /\ faulted' \in BOOLEAN
    BY <1>5, RestoredType DEF PutRollback, RolledBack, Fault, TypeOK
  <2> QED
    BY <1>5, <1>v, <2>1, FinishType, PublishType
    DEF PutRollback, TypeOK, Unlock
<1>6. CASE PutRollbackFails(w)
  BY <1>6, <1>j, <1>v, FinishType
  DEF PutRollbackFails, Fault, TypeOK, Unlock
<1>7. CASE PutPersist(w)
  BY <1>7, <1>j, <1>v, FinishType DEF PutPersist, TypeOK, Unlock
<1>8. CASE PutPersistFails(w)
  BY <1>8, <1>v, FinishType
  DEF PutPersistFails, Fault, TypeOK, Unlock, store
<1> QED
  BY <1>1, <1>2, <1>3, <1>4, <1>5, <1>6, <1>7, <1>8 DEF PutStep

LEMMA BackupStampType ==
  ASSUME TypeOK, NEW d \in Datasets
  PROVE  BackupStamp(d) \in Clock \cup {NoBackup}
BY DEF TypeOK, BackupStamp

LEMMA BeginWriteType ==
  ASSUME TypeOK, NEW w \in Workers, NEW o \in AllOps, NEW d \in Datasets,
         NEW doc \in Docs, NEW force \in BOOLEAN,
         BeginWrite(w, o, d, doc, force)
  PROVE  TypeOK'
<1> DEFINE r == [NoJob EXCEPT !.op = o, !.ds = d, !.doc = doc,
                   !.force = force, !.before = files[d],
                   !.stamp = BackupStamp(d), !.errs = ErrorCount(active, d)]
<1>1. r \in Job
  <2>1. ErrorCount(active, d) \in Nat
    BY ErrorCountType DEF TypeOK
  <2>2. files[d] \in Stored /\ doc \in Stored
    BY DEF TypeOK, Stored
  <2> QED
    BY <2>1, <2>2, NoJobType, BackupStampType DEF Job
<1>2. job' \in [Workers -> Job]
  BY <1>1 DEF BeginWrite, TypeOK
<1>3. backups' \in [Datasets -> [Clock -> Stored]]
  BY BackupFileType DEF BeginWrite
<1> QED
  BY <1>2, <1>3 DEF BeginWrite, TypeOK, Lock, Go, Quiet, Steps, Stored

LEMMA LockedBeginType ==
  ASSUME TypeOK, NEW w \in Workers, LockedBegin(w)
  PROVE  TypeOK'
<1>1. ASSUME NEW d \in Datasets, NEW force \in BOOLEAN, NEW doc \in Inputs[d],
             PutBegin(w, d, doc, force)
      PROVE  TypeOK'
  <2>1. doc \in Docs
    BY DocsAssumption
  <2> QED
    BY <1>1, <2>1, BeginWriteType DEF PutBegin, AllOps
<1>2. ASSUME NEW d \in Datasets, NEW t \in Clock, RestoreBegin(w, d, t)
      PROVE  TypeOK'
  BY <1>2, BeginWriteType DEF RestoreBegin, AllOps
<1>3. ASSUME NEW d \in Datasets, RemoveBegin(w, d)
      PROVE  TypeOK'
  <2> DEFINE r == [NoJob EXCEPT !.op = "remove", !.ds = d, !.before = files[d],
                                !.stamp = BackupStamp(d)]
  <2>1. r \in Job
    BY NoJobType, BackupStampType DEF Job, AllOps, TypeOK
  <2>2. job' \in [Workers -> Job]
    BY <1>3, <2>1 DEF RemoveBegin, TypeOK
  <2>3. backups' \in [Datasets -> [Clock -> Stored]]
    BY <1>3, BackupFileType DEF RemoveBegin
  <2> QED
    BY <1>3, <2>2, <2>3 DEF RemoveBegin, TypeOK, Lock, Go, Quiet, Steps, Stored
<1>4. CASE ReloadBegin(w)
  <2>1. [NoJob EXCEPT !.view = rows] \in Job
    BY NoJobType DEF Job, TypeOK
  <2> QED
    BY <1>4, <2>1
    DEF ReloadBegin, ReloadStart, TypeOK, Lock, Go, Quiet, Steps, store
<1>5. CASE RecompileBegin(w)
  <2>1. [NoJob EXCEPT !.op = "recompile"] \in Job
    BY NoJobType DEF Job, AllOps
  <2> QED
    BY <1>5, <2>1 DEF RecompileBegin, TypeOK, Lock, Go, Quiet, Steps, store
<1> QED
  BY <1>1, <1>2, <1>3, <1>4, <1>5 DEF LockedBegin

LEMMA RemoveType ==
  ASSUME TypeOK, NEW w \in Workers, RemoveStep(w)
  PROVE  TypeOK'
<1>v. /\ Absent \in Stored
      /\ {"applied", "rejected", "error"} \subseteq Outcomes
      /\ job[w].ds \in Datasets
  BY DEF Stored, Outcomes, TypeOK, Job
<1>1. CASE RemovePublish(w)
  <2>1. CASE InDB
    BY <1>1, <2>1 DEF RemovePublish, TypeOK, Publish, Go, Quiet, Steps
  <2>2. CASE ~InDB
    BY <1>1, <1>v, <2>2, FinishType DEF RemovePublish, TypeOK, Publish, Unlock
  <2> QED
    BY <2>1, <2>2
<1>2. CASE RemoveUndo(w)
  <2>1. files' \in [Datasets -> Stored]
    BY <1>2, <1>v, RestoredType DEF RemoveUndo, TypeOK, Stored
  <2> QED
    BY <1>2, <1>v, <2>1, FinishType, PublishType
    DEF RemoveUndo, Fault, TypeOK, Unlock
<1>3. CASE RemoveRow(w)
  BY <1>3, <1>v, FinishType DEF RemoveRow, Fault, TypeOK, Unlock
<1> QED
  BY <1>1, <1>2, <1>3 DEF RemoveStep

LEMMA ReloadType ==
  ASSUME TypeOK, NEW w \in Workers, ReloadStep(w)
  PROVE  TypeOK'
<1>v. {"applied", "rejected", "error"} \subseteq Outcomes
  BY DEF Outcomes
<1>1. CASE ReloadListFails(w)
  BY <1>1, <1>v, FinishType
  DEF ReloadListFails, Fault, TypeOK, Unlock, store
<1>2. CASE Materialize(w)
  <2>1. job[w].view \in [Datasets -> Stored] /\ Forget(job[w]) \in Job
    BY ForgetType DEF TypeOK, Job
  <2>2. files' \in [Datasets -> Stored]
    BY <1>2, <2>1, MaterializedType DEF Materialize, TypeOK
  <2> QED
    BY <1>2, <2>1, <2>2 DEF Materialize, TypeOK, Go, Quiet, Steps
<1>3. CASE LoadAndPublish(w)
  BY <1>3, <1>v, FinishType, PublishType DEF LoadAndPublish, TypeOK, Unlock
<1>4. CASE MaterializeFails(w)
  <2>1. job[w].view \in [Datasets -> Stored]
    BY DEF TypeOK, Job
  <2>2. Materialized(files, job[w].view) \in [Datasets -> Stored]
    BY <2>1, MaterializedType DEF TypeOK
  <2>3. files' \in [Datasets -> Stored]
    BY <1>4, <2>2 DEF MaterializeFails, TypeOK, Stored
  <2> QED
    BY <1>4, <1>v, <2>3, FinishType
    DEF MaterializeFails, Fault, TypeOK, Unlock
<1> QED
  BY <1>1, <1>2, <1>3, <1>4 DEF ReloadStep

LEMMA UnlockedBeginType ==
  ASSUME TypeOK, NEW w \in Workers, UnlockedBegin(w)
  PROVE  TypeOK'
<1>1. ASSUME NEW snap \in Snapshots, NEW prune \in BOOLEAN,
             SyncBegin(w, snap, prune)
      PROVE  TypeOK'
  <2> DEFINE r == [NoJob EXCEPT !.op = "sync", !.ds = Phys, !.snap = snap,
                                !.force = prune, !.view[Phys] = files[Phys]]
  <2>1. r \in Job
    BY NoJobType, DatasetsAssumption, DocsAssumption DEF Job, AllOps, TypeOK
  <2> QED
    BY <1>1, <2>1 DEF SyncBegin, TypeOK, Go, Quiet, Steps, store
<1>2. ASSUME NEW doc \in Inputs[Rules], LearnBegin(w, doc)
      PROVE  TypeOK'
  <2>1. [NoJob EXCEPT !.op = "learn", !.ds = Rules, !.doc = doc] \in Job
    BY NoJobType, DatasetsAssumption, DocsAssumption DEF Job, AllOps, Stored
  <2> QED
    BY <1>2, <2>1 DEF LearnBegin, TypeOK, Go, Quiet, Steps
<1> QED
  BY <1>1, <1>2 DEF UnlockedBegin

LEMMA FailedBeginType ==
  ASSUME TypeOK, NEW w \in Workers, FailedBegin(w)
  PROVE  TypeOK'
<1>1. backups' \in [Datasets -> [Clock -> Stored]]
  BY FailedBeginFacts, BackupAttemptType
<1>2. "error" \in Outcomes
  BY DEF Outcomes
<1>3. /\ Fault /\ Finish(w, "error")
      /\ UNCHANGED <<files, rows, active, holders, clock, staged, mutex, up>>
  BY FailedBeginFacts
<1> QED
  BY <1>1, <1>2, <1>3, FinishType DEF Fault, TypeOK

LEMMA MergedType ==
  ASSUME TypeOK, NEW w \in Workers, NEW d \in {Phys, Rel}
  PROVE  Merged(d, job[w]) \in Docs
<1>1. /\ job[w].view \in [Datasets -> Stored]
      /\ job[w].snap \in [phys: Docs, rel: Docs]
  BY DEF TypeOK, Job
<1>2. /\ RowsOf(job[w].view[Phys]) \in Docs
      /\ RowsOf(job[w].view[Rel]) \in Docs
  BY <1>1, RowsOfType, DatasetsAssumption
<1> QED
  BY <1>1, <1>2 DEF Merged, MergedPhys, MergedRel, Docs

LEMMA StageType ==
  ASSUME TypeOK, NEW w \in Workers, NEW d \in Datasets, NEW step \in Steps,
         Stage(w, d, step)
  PROVE  /\ backups' \in [Datasets -> [Clock -> Stored]]
         /\ staged' \in [Datasets -> SUBSET Workers]
         /\ pc' \in [Workers -> Steps]
         /\ job' \in [Workers -> Job]
BY BackupFileType DEF Stage, TypeOK, Go

\* A rename puts a merged document or a truncated one into the file.
LEMMA RenameType ==
  ASSUME TypeOK, NEW w \in Workers, NEW d \in {Phys, Rel},
         Renamed(w, d) \/ RenameLost(w, d)
  PROVE  /\ files' \in [Datasets -> Stored]
         /\ staged' \in [Datasets -> SUBSET Workers]
<1>1. d \in Datasets
  BY DatasetsAssumption
<1>2. staged[d] \subseteq Workers
  BY <1>1 DEF TypeOK
<1>3. \A v \in Workers : Merged(d, job[v]) \in Stored
  BY MergedType DEF Stored
<1>4. Torn \in Stored
  BY DEF Stored
<1>5. CASE Renamed(w, d)
  BY <1>1, <1>2, <1>3, <1>4, <1>5 DEF Renamed, TypeOK
<1>6. CASE RenameLost(w, d)
  BY <1>1, <1>3, <1>4, <1>6 DEF RenameLost, TypeOK
<1> QED
  BY <1>5, <1>6

LEMMA DoneType ==
  ASSUME TypeOK, NEW w \in Workers, PhysDone(w) \/ RelDone(w)
  PROVE  /\ pc' \in [Workers -> Steps]
         /\ job' \in [Workers -> Job]
<1>1. Forget(job[w]) \in Job
  BY ForgetType DEF TypeOK
<1>2. [Forget(job[w]) EXCEPT !.force = FALSE] \in Job
  BY <1>1 DEF Job
<1> QED
  BY <1>1, <1>2 DEF PhysDone, RelDone, Go, TypeOK, Steps

LEMMA SyncType ==
  ASSUME TypeOK, NEW w \in Workers, SyncStep(w)
  PROVE  TypeOK'
<1> DEFINE j == job[w]
<1>j. /\ j \in Job
      /\ j.ds \in Datasets
      /\ j.view \in [Datasets -> Stored]
  BY DEF TypeOK, Job
<1>d. /\ Phys \in Datasets
      /\ Rel \in Datasets
      /\ "error" \in Outcomes
  BY DatasetsAssumption DEF Outcomes
<1>s. {"syncRenamePhys", "syncRenameRel"} \subseteq Steps
  BY DEF Steps
<1>1. CASE SyncWritePhys(w)
  <2>1. CASE Changed(w, Phys)
    BY <1>1, <1>d, <1>s, <2>1, StageType DEF SyncWritePhys, TypeOK, Quiet
  <2>2. CASE ~Changed(w, Phys)
    BY <1>1, <2>2, DoneType DEF SyncWritePhys, TypeOK, Quiet
  <2> QED
    BY <2>1, <2>2
<1>2. CASE SyncReadRel(w)
  <2>1. CASE RelDone(w) /\ Quiet
    BY <1>2, <2>1, DoneType DEF SyncReadRel, TypeOK, Quiet, store
  <2>2. CASE /\ job' = [job EXCEPT ![w].view[Rel] = files[Rel]]
             /\ Go(w, "syncWriteRel")
             /\ Quiet
    <3>1. [j EXCEPT !.view[Rel] = files[Rel]] \in Job
      BY <1>j, <1>d DEF Job, TypeOK
    <3> QED
      BY <1>2, <2>2, <3>1 DEF SyncReadRel, TypeOK, Go, Quiet, Steps, store
  <2>3. CASE Finish(w, "error")
    BY <1>2, <1>d, <2>3, FinishType DEF SyncReadRel, TypeOK, store
  <2> QED
    BY <1>2, <2>1, <2>2, <2>3 DEF SyncReadRel
<1>3. CASE SyncWriteRel(w)
  <2>1. CASE Changed(w, Rel)
    BY <1>3, <1>d, <1>s, <2>1, StageType DEF SyncWriteRel, TypeOK, Quiet
  <2>2. CASE ~Changed(w, Rel)
    BY <1>3, <2>2, DoneType DEF SyncWriteRel, TypeOK, Quiet
  <2> QED
    BY <2>1, <2>2
<1>4. CASE PersistRead(w)
  <2>1. [j EXCEPT !.view[j.ds] = files[j.ds]] \in Job
    BY <1>j DEF Job, TypeOK
  <2> QED
    BY <1>4, <2>1 DEF PersistRead, TypeOK, Go, Quiet, Steps, store
<1>5. CASE PersistWrite(w)
  <2>1. [Forget(j) EXCEPT !.ds = Rel] \in Job
    BY <1>j, <1>d, ForgetType DEF Job
  <2>2. rows' \in [Datasets -> Stored]
    BY <1>5, <1>j DEF PersistWrite, TypeOK
  <2> QED
    BY <1>5, <2>1, <2>2 DEF PersistWrite, TypeOK, Go, Quiet, Steps
<1>6. CASE PersistFails(w)
  BY <1>6, <1>d, FinishType DEF PersistFails, Fault, TypeOK, store
<1>7. CASE SyncWriteFails(w)
  <2>1. backups' \in [Datasets -> [Clock -> Stored]]
    BY <1>7, <1>d, BackupAttemptType DEF SyncWriteFails, TypeOK
  <2>2. staged' \in [Datasets -> SUBSET Workers]
    BY <1>7 DEF SyncWriteFails, TypeOK
  <2> QED
    BY <1>7, <1>d, <2>1, <2>2, FinishType DEF SyncWriteFails, Fault, TypeOK
<1>8. ASSUME NEW d \in {Phys, Rel},
             \/ Renamed(w, d) /\ (PhysDone(w) \/ RelDone(w)) /\ Quiet
             \/ RenameLost(w, d),
             UNCHANGED <<rows, active, backups, holders, clock, mutex, up,
                         faulted>>
      PROVE  TypeOK'
  <2>1. /\ files' \in [Datasets -> Stored]
        /\ staged' \in [Datasets -> SUBSET Workers]
    BY <1>8, RenameType
  <2>2. CASE (PhysDone(w) \/ RelDone(w)) /\ Quiet
    BY <1>8, <2>1, <2>2, DoneType DEF TypeOK, Quiet
  <2>3. CASE Finish(w, "error")
    BY <1>8, <1>d, <2>1, <2>3, FinishType DEF TypeOK
  <2> QED
    BY <1>8, <2>2, <2>3 DEF RenameLost
<1>9. CASE SyncRenamePhys(w)
  BY <1>8, <1>9 DEF SyncRenamePhys
<1>10. CASE SyncRenameRel(w)
  BY <1>8, <1>10 DEF SyncRenameRel
<1> QED
  BY <1>1, <1>2, <1>3, <1>4, <1>5, <1>6, <1>7, <1>9, <1>10 DEF SyncStep

LEMMA LearnType ==
  ASSUME TypeOK, NEW w \in Workers, SyncReload(w) \/ LearnStep(w)
  PROVE  TypeOK'
<1>j. /\ job[w] \in Job
      /\ job[w].doc \in Stored
      /\ Rules \in Datasets
      /\ "applied" \in Outcomes
  BY DatasetsAssumption DEF TypeOK, Job, Outcomes
<1>1. CASE SyncReload(w)
  <2>1. [job[w] EXCEPT !.view = rows] \in Job
    BY <1>j DEF Job, TypeOK
  <2> QED
    BY <1>1, <2>1
    DEF SyncReload, ReloadStart, TypeOK, Lock, Go, Quiet, Steps, store
<1>2. CASE LearnOpen(w) \/ LearnWrite(w)
  <2>1. Written(w) \subseteq Stored /\ Torn \in Stored
    BY <1>j DEF Written, TypeOK, Job, Stored
  <2>2. files' \in [Datasets -> Stored]
    BY <1>2, <1>j, <2>1 DEF LearnOpen, LearnWrite, TypeOK
  <2> QED
    BY <1>2, <2>2 DEF LearnOpen, LearnWrite, TypeOK, Go, Quiet, Steps
<1>3. CASE LearnInstall(w)
  BY <1>3, <1>j, FinishType DEF LearnInstall, TypeOK
<1>4. CASE LearnWriteFails(w)
  BY <1>4, FinishType, DatasetsAssumption
  DEF LearnWriteFails, Fault, TypeOK, Stored, Outcomes
<1> QED
  BY <1>1, <1>2, <1>3, <1>4 DEF LearnStep

LEMMA ProcessType ==
  ASSUME TypeOK, Crash \/ Restart \/ Tick
  PROVE  TypeOK'
<1>1. CASE Crash
  BY <1>1, NoJobType DEF Crash, TypeOK, Quiet, Steps, Stored
<1>2. CASE Restart
  <2>1. Imported(files, rows) \in [Datasets -> Stored]
    BY ImportedType DEF TypeOK
  <2>2. Materialized(files, Imported(files, rows)) \in [Datasets -> Stored]
    BY <2>1, MaterializedType DEF TypeOK
  <2>3. Compiles(Materialized(files, Imported(files, rows))) \in BOOLEAN
    BY DEF Compiles
  <2>4. rows' \in [Datasets -> Stored] /\ files' \in [Datasets -> Stored]
    BY <1>2, <2>1, <2>2 DEF Restart
  <2>5. active' \in [Datasets -> Stored] /\ holders' \subseteq Workers
    BY <1>2, <2>2, PublishType DEF Restart
  <2>6. up' \in BOOLEAN
    BY <1>2, <2>3 DEF Restart
  <2> QED
    BY <1>2, <2>4, <2>5, <2>6 DEF Restart, TypeOK, Quiet
<1>3. CASE Tick
  BY <1>3, ValuesAssumption DEF Tick, TypeOK, Quiet, Clock, store
<1> QED
  BY <1>1, <1>2, <1>3

LEMMA StutterType == TypeOK /\ UNCHANGED vars => TypeOK'
BY DEF TypeOK, vars

\* In every behaviour of the server, faults and crashes included, every
\* variable keeps its type: no handler indexes a dataset, a backup second or a
\* job field that does not exist (DatasetStore as a whole).
THEOREM TypeCorrect == Spec => []TypeOK
<1>1. TypeOK /\ [Next]_vars => TypeOK'
  <2> SUFFICES ASSUME TypeOK, [Next]_vars PROVE TypeOK'
    OBVIOUS
  <2>1. CASE LockedNext
    BY <2>1, ProcessType, LockedBeginType, FailedBeginType, PutType, RemoveType,
       ReloadType
    DEF LockedNext, LockedStep
  <2>2. CASE \E w \in Workers : UnlockedBegin(w) \/ UnlockedStep(w)
    BY <2>2, UnlockedBeginType, SyncType, LearnType DEF UnlockedStep
  <2>3. CASE Crash \/ Restart
    BY <2>3, ProcessType
  <2>4. CASE UNCHANGED vars
    BY <2>4, StutterType
  <2> QED
    BY <2>1, <2>2, <2>3, <2>4 DEF Next
<1> QED
  BY <1>1, InitType, PTL DEF Spec

LEMMA LockedTypeCorrect == LockedSpec => []TypeOK
<1>1. TypeOK /\ [LockedNext]_vars => TypeOK'
  BY ProcessType, LockedBeginType, FailedBeginType, PutType, RemoveType,
     ReloadType, StutterType
  DEF LockedNext, LockedStep
<1> QED
  BY <1>1, InitType, PTL DEF LockedSpec

-----------------------------------------------------------------------------
(* The published catalog always compiles.                                  *)

\* What a step may do to the published catalog.
LEMMA ActiveSteps ==
  ASSUME [Next]_vars
  PROVE  \/ up' = up /\ active' = active
         \/ \E fs : Compiles(fs) /\ active' = fs
         \/ ~up'
         \/ up' = up /\ \E doc : active' = [active EXCEPT ![Rules] = doc]
<1> DEFINE P == \/ up' = up /\ active' = active
                \/ \E fs : Compiles(fs) /\ active' = fs
                \/ ~up'
                \/ up' = up /\ \E doc : active' = [active EXCEPT ![Rules] = doc]
<1>1. ASSUME NEW w \in Workers, LockedBegin(w) \/ UnlockedBegin(w)
      PROVE  P
  BY <1>1 DEF LockedBegin, UnlockedBegin, PutBegin, RestoreBegin, BeginWrite,
     RemoveBegin, ReloadBegin, ReloadStart, RecompileBegin, SyncBegin,
     LearnBegin, store
<1>0. ASSUME NEW w \in Workers, FailedBegin(w)
      PROVE  P
  BY <1>0, FailedBeginFacts
<1>2. ASSUME NEW w \in Workers, PutStep(w)
      PROVE  P
  BY <1>2 DEF PutStep, PutWrite, PutWriteFails, PutAccept, PutReject,
     PutRollback, PutRollbackFails, PutPersist, PutPersistFails, Acceptable,
     PublishIfCompiles, Publish, Keep, store
<1>3. ASSUME NEW w \in Workers, RemoveStep(w) \/ ReloadStep(w) \/ SyncReload(w)
      PROVE  P
  BY <1>3 DEF RemoveStep, RemovePublish, RemoveUndo, RemoveRow, ReloadStep,
     ReloadListFails, MaterializeFails, Materialize, LoadAndPublish,
     SyncReload, ReloadStart, PublishIfCompiles, Publish, Keep, store
<1>4. ASSUME NEW w \in Workers, SyncStep(w) \/ LearnStep(w)
      PROVE  P
  BY <1>4 DEF SyncStep, SyncWritePhys, SyncRenamePhys, SyncReadRel,
     SyncWriteRel, SyncRenameRel, SyncWriteFails, PersistRead, PersistWrite,
     PersistFails, LearnStep, LearnOpen, LearnWrite, LearnWriteFails,
     LearnInstall, store
<1>5. CASE Crash \/ Restart
  BY <1>5 DEF Crash, Restart, PublishIfCompiles, Publish
<1>6. CASE Tick \/ UNCHANGED vars
  BY <1>6 DEF Tick, vars, store
<1> QED
  BY <1>0, <1>1, <1>2, <1>3, <1>4, <1>5, <1>6
  DEF Next, LockedNext, LockedStep, UnlockedStep

\* Whatever interleaving, failing write or death of the process: a server that
\* is up serves a catalog made from decodable required files with at least one
\* table (setCatalog only ever gets the result of a successful Load).
THEOREM ActiveAlwaysCompiles == Spec => []ActiveCompiles
<1>1. Init => ActiveCompiles
  BY DEF Init, ActiveCompiles, Compiles
<1>2. ASSUME TypeOK, ActiveCompiles, [Next]_vars
      PROVE  ActiveCompiles'
  <2>1. CASE up' = up /\ active' = active
    BY <1>2, <2>1 DEF ActiveCompiles, Compiles
  <2>2. CASE \E fs : Compiles(fs) /\ active' = fs
    BY <2>2 DEF ActiveCompiles, Compiles
  <2>3. CASE ~up'
    BY <2>3 DEF ActiveCompiles
  <2>4. CASE up' = up /\ \E doc : active' = [active EXCEPT ![Rules] = doc]
    <3>1. PICK doc : active' = [active EXCEPT ![Rules] = doc]
      BY <2>4
    <3>2. \A d \in Required : active'[d] = active[d]
      BY <1>2, <3>1, DatasetsAssumption DEF TypeOK
    <3> QED
      BY <1>2, <2>4, <3>2 DEF ActiveCompiles, Compiles
  <2> QED
    BY <1>2, <2>1, <2>2, <2>3, <2>4, ActiveSteps
<1> QED
  BY <1>1, <1>2, TypeCorrect, PTL DEF Spec

\* A server that comes back serves what the meta DB held when it died, for any
\* half-done work it left in the data directory (InitDatasetStore).
THEOREM RestartServesDB == Spec => RestartFollowsDB
<1> DEFINE P == InDB /\ ~up /\ up'
                  => \A d \in Datasets : rows[d] # Absent => active'[d] = rows[d]
<1>1. ASSUME TypeOK, [Next]_vars
      PROVE  P
  <2>1. CASE Restart
    BY <2>1 DEF Restart, PublishIfCompiles, Publish, Materialized, Imported
  <2>2. CASE ~Restart
    <3>1. up' = up \/ ~up'
      BY <1>1, <2>2
      DEF Next, LockedNext, LockedBegin, LockedStep, UnlockedBegin,
          UnlockedStep, FailedBegin, BeginFails, PutBegin, RestoreBegin, BeginWrite, RemoveBegin,
          ReloadBegin, ReloadStart, RecompileBegin, SyncBegin, LearnBegin,
          PutStep, PutWrite, PutWriteFails, PutAccept, PutReject, PutRollback,
          PutRollbackFails, PutPersist, PutPersistFails, RemoveStep,
          RemovePublish, RemoveUndo, RemoveRow, ReloadStep, ReloadListFails,
          MaterializeFails, Materialize, LoadAndPublish, SyncReload, SyncStep,
          SyncWritePhys, SyncRenamePhys, SyncReadRel, SyncWriteRel,
          SyncRenameRel, SyncWriteFails, PersistRead, PersistWrite,
          PersistFails, LearnStep, LearnOpen, LearnWrite, LearnWriteFails, LearnInstall, Crash, Tick, vars
    <3> QED
      BY <3>1
  <2> QED
    BY <2>1, <2>2
<1> QED
  BY <1>1, TypeCorrect, PTL DEF Spec, RestartFollowsDB

-----------------------------------------------------------------------------
(* dataMu, with every operation of the server and with process deaths.     *)

\* A worker gets the free lock with its first critical step.
LEMMA TakingKeepsDiscipline ==
  ASSUME TypeOK, LockDiscipline, NEW w \in Workers, Lock(w),
         NEW step \in CriticalSteps, Go(w, step)
  PROVE  LockDiscipline'
BY ValuesAssumption DEF TypeOK, LockDiscipline, Lock, Go

\* Its later steps keep the lock, or end the handler and release it.
LEMMA HoldingKeepsDiscipline ==
  ASSUME TypeOK, LockDiscipline, NEW w \in Workers, pc[w] \in CriticalSteps,
         \/ mutex' = mutex /\ \E step \in CriticalSteps : Go(w, step)
         \/ Unlock(w) /\ Go(w, "idle")
  PROVE  LockDiscipline'
BY ValuesAssumption
DEF TypeOK, LockDiscipline, CriticalSteps, Unlock, Go

\* The handlers without dataMu stay away from it.
LEMMA AvoidingKeepsDiscipline ==
  ASSUME TypeOK, LockDiscipline, NEW w \in Workers, pc[w] \notin CriticalSteps,
         mutex' = mutex, NEW step, step \notin CriticalSteps, Go(w, step)
  PROVE  LockDiscipline'
BY DEF TypeOK, LockDiscipline, Go

LEMMA DisciplineNext ==
  ASSUME TypeOK, LockDiscipline, [Next]_vars
  PROVE  LockDiscipline'
<1>1. ASSUME NEW w \in Workers, LockedBegin(w) \/ SyncReload(w)
      PROVE  LockDiscipline'
  <2>1. Lock(w) /\ \E step \in CriticalSteps : Go(w, step)
    BY <1>1 DEF LockedBegin, PutBegin, RestoreBegin, BeginWrite, RemoveBegin,
       ReloadBegin, ReloadStart, RecompileBegin, SyncReload, CriticalSteps
  <2> QED
    BY <2>1, TakingKeepsDiscipline
<1>2. ASSUME NEW w \in Workers, LockedStep(w)
      PROVE  LockDiscipline'
  <2>1. pc[w] \in CriticalSteps
    BY <1>2 DEF LockedStep, PutStep, RemoveStep, ReloadStep, PutWrite,
       PutWriteFails, PutAccept, PutReject, PutRollback, PutRollbackFails,
       PutPersist, PutPersistFails, RemovePublish, RemoveUndo, RemoveRow,
       ReloadListFails, MaterializeFails, Materialize, LoadAndPublish,
       CriticalSteps
  <2>2. \/ mutex' = mutex /\ \E step \in CriticalSteps : Go(w, step)
        \/ Unlock(w) /\ Go(w, "idle")
    BY <1>2 DEF LockedStep, PutStep, RemoveStep, ReloadStep, PutWrite,
       PutWriteFails, PutAccept, PutReject, PutRollback, PutRollbackFails,
       PutPersist, PutPersistFails, RemovePublish, RemoveUndo, RemoveRow,
       ReloadListFails, MaterializeFails, Materialize, LoadAndPublish,
       CriticalSteps, Finish
  <2> QED
    BY <2>1, <2>2, HoldingKeepsDiscipline
<1>3. ASSUME NEW w \in Workers,
             UnlockedBegin(w) \/ FailedBegin(w) \/ SyncStep(w) \/ LearnStep(w)
      PROVE  LockDiscipline'
  <2>1. /\ pc[w] \notin CriticalSteps
        /\ mutex' = mutex
        /\ \E step : step \notin CriticalSteps /\ Go(w, step)
    BY <1>3 DEF UnlockedBegin, SyncBegin, LearnBegin, FailedBegin, BeginFails,
       Idle, SyncStep, SyncWritePhys, SyncRenamePhys, SyncReadRel, SyncWriteRel,
       SyncRenameRel, Stage, PhysDone, RelDone, RenameLost, SyncWriteFails,
       PersistRead, PersistWrite, PersistFails, LearnStep, LearnOpen,
       LearnWrite, LearnWriteFails, LearnInstall, Finish, CriticalSteps
  <2> QED
    BY <2>1, AvoidingKeepsDiscipline
<1>4. CASE Crash
  BY <1>4, ValuesAssumption DEF Crash, LockDiscipline, CriticalSteps
<1>5. CASE Restart \/ Tick \/ UNCHANGED vars
  BY <1>5 DEF Restart, Tick, vars, LockDiscipline
<1> QED
  BY <1>1, <1>2, <1>3, <1>4, <1>5
  DEF Next, LockedNext, UnlockedStep

\* dataMu is held by exactly the worker that is inside a locked handler, on
\* every success, rejection and error path (defer dataMu.Unlock), with syncs,
\* learn steps, failing writes and deaths of the process in between.
THEOREM LockIsDisciplined == Spec => []LockDiscipline
<1>1. Init => LockDiscipline
  BY ValuesAssumption DEF Init, LockDiscipline, CriticalSteps
<1> QED
  BY <1>1, DisciplineNext, TypeCorrect, PTL DEF Spec

-----------------------------------------------------------------------------
(* The handlers that hold dataMu, with failing writes.                     *)

ReloadSteps == {"materialize", "load"}

\* What is true of the request of worker w at the step it is about to take.
Phase(w) ==
  /\ pc[w] \in CriticalSteps \cup {"idle"}
  /\ pc[w] \in PutSteps => job[w].op \in {"put", "restore"}
  /\ pc[w] = "write" => files[job[w].ds] = Torn
  /\ pc[w] \in PutSteps \ {"write"} => files[job[w].ds] = job[w].doc
  /\ pc[w] = "persist" => Compiles(files)
  /\ pc[w] \in RemoveSteps => /\ job[w].op = "remove"
                              /\ job[w].ds \notin Required
  /\ pc[w] \in ReloadSteps => job[w].op \in {"reload", "recompile"}
  /\ pc[w] = "materialize" => job[w].view = rows
  /\ pc[w] = "load" /\ job[w].op = "reload" /\ InDB
       => \A d \in Datasets : rows[d] # Absent => files[d] = rows[d]

\* The inductive invariant of LockedSpec.
LInv ==
  /\ TypeOK
  /\ LockDiscipline
  /\ DBAlwaysDecodes
  /\ \A w \in Workers : Phase(w)

LEMMA LInvInit == Init => LInv
BY InitType, ValuesAssumption
DEF Init, LInv, LockDiscipline, CriticalSteps, DBAlwaysDecodes, Phase, Compiles,
    PutSteps, RemoveSteps, ReloadSteps

\* At most one worker is inside a locked handler.
LEMMA Exclusive ==
  ASSUME LInv, NEW w \in Workers, NEW v \in Workers \ {w},
         mutex = w \/ mutex = Free
  PROVE  pc[v] = "idle"
BY ValuesAssumption DEF LInv, LockDiscipline, Phase

LEMMA IdlePhase ==
  ASSUME NEW w \in Workers, pc'[w] = "idle"
  PROVE  Phase(w)'
BY DEF Phase, CriticalSteps, PutSteps, RemoveSteps, ReloadSteps

\* A worker that gets dataMu, or has it, is the only one whose step matters.
LEMMA OthersIdle ==
  ASSUME LInv, NEW w \in Workers, mutex \in {w, Free},
         NEW step, pc' = [pc EXCEPT ![w] = step]
  PROVE  \A v \in Workers \ {w} : pc'[v] = "idle" /\ Phase(v)'
<1> TAKE v \in Workers \ {w}
<1>1. pc[v] = "idle"
  BY Exclusive
<1>2. pc'[v] = "idle"
  BY <1>1 DEF LInv, TypeOK
<1> QED
  BY <1>2, IdlePhase

\* The step that ends a locked handler.
LEMMA FinishKeeps ==
  ASSUME LInv, NEW w \in Workers, mutex = w, NEW res \in Outcomes,
         Finish(w, res), Unlock(w)
  PROVE  /\ LockDiscipline'
         /\ \A v \in Workers : Phase(v)'
<1>1. \A v \in Workers \ {w} : pc'[v] = "idle" /\ Phase(v)'
  BY OthersIdle DEF Finish, Go
<1>2. pc'[w] = "idle"
  BY DEF LInv, TypeOK, Finish, Go
<1>3. Phase(w)'
  BY <1>2, IdlePhase
<1>4. LockDiscipline'
  BY <1>1, <1>2, ValuesAssumption DEF LockDiscipline, CriticalSteps, Unlock
<1> QED
  BY <1>1, <1>3, <1>4

\* A step inside a locked handler.
LEMMA HoldKeeps ==
  ASSUME LInv, NEW w \in Workers, mutex \in {w, Free}, mutex' = w,
         NEW step \in CriticalSteps, pc' = [pc EXCEPT ![w] = step]
  PROVE  /\ LockDiscipline'
         /\ pc'[w] = step
         /\ \A v \in Workers \ {w} : Phase(v)'
<1>1. \A v \in Workers \ {w} : pc'[v] = "idle" /\ Phase(v)'
  BY OthersIdle
<1>2. pc'[w] = step
  BY DEF LInv, TypeOK
<1>3. LockDiscipline'
  BY <1>1, <1>2 DEF LockDiscipline, CriticalSteps
<1> QED
  BY <1>1, <1>2, <1>3

LEMMA LockedBeginKeeps ==
  ASSUME LInv, NEW w \in Workers, LockedBegin(w)
  PROVE  LInv'
<1> USE DEF PutSteps, RemoveSteps, ReloadSteps, CriticalSteps
<1>t. TypeOK'
  BY LockedBeginType DEF LInv
<1>r. UNCHANGED rows
  BY DEF LockedBegin, PutBegin, RestoreBegin, BeginWrite, RemoveBegin,
     ReloadBegin, ReloadStart, RecompileBegin, store
<1>d. DBAlwaysDecodes'
  BY <1>r DEF LInv, DBAlwaysDecodes, Decodable
<1>1. ASSUME NEW d \in Datasets, NEW doc, NEW force, NEW o \in {"put", "restore"},
             BeginWrite(w, o, d, doc, force)
      PROVE  LInv'
  <2>1. /\ LockDiscipline'
        /\ pc'[w] = "write"
        /\ \A v \in Workers \ {w} : Phase(v)'
    BY <1>1, HoldKeeps DEF BeginWrite, Lock, Go
  <2>2. job'[w].op = o /\ job'[w].ds = d
    BY <1>1 DEF BeginWrite, LInv, TypeOK, NoJob
  <2>3. files'[d] = Torn
    BY <1>1 DEF BeginWrite, LInv, TypeOK
  <2>4. Phase(w)'
    BY <2>1, <2>2, <2>3 DEF Phase
  <2> QED
    BY <1>t, <1>d, <2>1, <2>4 DEF LInv
<1>2. ASSUME NEW d \in Datasets, RemoveBegin(w, d)
      PROVE  LInv'
  <2>1. /\ LockDiscipline'
        /\ pc'[w] = "removeLoad"
        /\ \A v \in Workers \ {w} : Phase(v)'
    BY <1>2, HoldKeeps DEF RemoveBegin, Lock, Go
  <2>2. job'[w].op = "remove" /\ job'[w].ds = d
    BY <1>2 DEF RemoveBegin, LInv, TypeOK, NoJob
  <2>3. Phase(w)'
    BY <1>2, <2>1, <2>2 DEF RemoveBegin, Phase
  <2> QED
    BY <1>t, <1>d, <2>1, <2>3 DEF LInv
<1>3. CASE ReloadBegin(w)
  <2>1. job'[w].op = "reload" /\ job'[w].view = rows
    BY <1>3 DEF ReloadBegin, ReloadStart, LInv, TypeOK, NoJob
  <2>2. CASE InDB
    <3>1. /\ LockDiscipline'
          /\ pc'[w] = "materialize"
          /\ \A v \in Workers \ {w} : Phase(v)'
      BY <1>3, <2>2, HoldKeeps DEF ReloadBegin, ReloadStart, Lock, Go
    <3>2. Phase(w)'
      BY <1>r, <2>1, <3>1 DEF Phase
    <3> QED
      BY <1>t, <1>d, <3>1, <3>2 DEF LInv
  <2>3. CASE ~InDB
    <3>1. /\ LockDiscipline'
          /\ pc'[w] = "load"
          /\ \A v \in Workers \ {w} : Phase(v)'
      BY <1>3, <2>3, HoldKeeps DEF ReloadBegin, ReloadStart, Lock, Go
    <3>2. Phase(w)'
      BY <2>1, <2>3, <3>1 DEF Phase
    <3> QED
      BY <1>t, <1>d, <3>1, <3>2 DEF LInv
  <2> QED
    BY <2>2, <2>3
<1>4. CASE RecompileBegin(w)
  <2>1. /\ LockDiscipline'
        /\ pc'[w] = "load"
        /\ \A v \in Workers \ {w} : Phase(v)'
    BY <1>4, HoldKeeps DEF RecompileBegin, Lock, Go
  <2>2. job'[w].op = "recompile"
    BY <1>4 DEF RecompileBegin, LInv, TypeOK, NoJob
  <2>3. Phase(w)'
    BY <2>1, <2>2 DEF Phase
  <2> QED
    BY <1>t, <1>d, <2>1, <2>3 DEF LInv
<1> QED
  BY <1>1, <1>2, <1>3, <1>4 DEF LockedBegin, PutBegin, RestoreBegin

LEMMA PutKeeps ==
  ASSUME LInv, NEW w \in Workers, PutStep(w)
  PROVE  LInv'
<1> USE DEF PutSteps, RemoveSteps, ReloadSteps, CriticalSteps
<1>t. TypeOK'
  BY PutType DEF LInv
<1>m. /\ mutex = w
      /\ job[w].ds \in Datasets
      /\ {"applied", "rejected", "error"} \subseteq Outcomes
  BY DEF LInv, LockDiscipline, PutStep, PutWrite, PutWriteFails, PutAccept,
     PutReject, PutRollback, PutRollbackFails, PutPersist, PutPersistFails,
     TypeOK, Job, Outcomes
<1>1. CASE PutWrite(w)
  <2>1. /\ LockDiscipline'
        /\ pc'[w] = "compile"
        /\ \A v \in Workers \ {w} : Phase(v)'
    BY <1>1, <1>m, HoldKeeps DEF PutWrite, Go
  <2>2. files[job[w].ds] = Torn
    BY <1>1 DEF LInv, Phase, PutWrite
  <2>3. files'[job[w].ds] = job[w].doc
    BY <1>1, <1>m, <2>2 DEF PutWrite, Written, LInv, TypeOK
  <2>4. Phase(w)'
    BY <1>1, <2>1, <2>3 DEF Phase, PutWrite, LInv
  <2>5. DBAlwaysDecodes'
    BY <1>1 DEF LInv, DBAlwaysDecodes, Decodable, PutWrite
  <2> QED
    BY <1>t, <2>1, <2>4, <2>5 DEF LInv
<1>2. CASE PutReject(w)
  <2>1. /\ LockDiscipline'
        /\ pc'[w] = "rollback"
        /\ \A v \in Workers \ {w} : Phase(v)'
    BY <1>2, <1>m, HoldKeeps DEF PutReject, Go
  <2>2. Phase(w)'
    BY <1>2, <2>1 DEF Phase, PutReject, LInv, store
  <2>3. DBAlwaysDecodes'
    BY <1>2 DEF LInv, DBAlwaysDecodes, Decodable, PutReject, store
  <2> QED
    BY <1>t, <2>1, <2>2, <2>3 DEF LInv
<1>3. CASE PutAccept(w) /\ InDB
  <2>1. /\ LockDiscipline'
        /\ pc'[w] = "persist"
        /\ \A v \in Workers \ {w} : Phase(v)'
    BY <1>3, <1>m, HoldKeeps DEF PutAccept, Go
  <2>2. Compiles(files)'
    BY <1>3 DEF PutAccept, Acceptable, Compiles
  <2>3. Phase(w)'
    BY <1>3, <2>1, <2>2 DEF Phase, PutAccept, LInv
  <2>4. DBAlwaysDecodes'
    BY <1>3 DEF LInv, DBAlwaysDecodes, Decodable, PutAccept
  <2> QED
    BY <1>t, <2>1, <2>3, <2>4 DEF LInv
<1>4. CASE PutPersist(w)
  <2>1. LockDiscipline' /\ \A v \in Workers : Phase(v)'
    BY <1>4, <1>m, FinishKeeps DEF PutPersist
  <2>2. Compiles(files) /\ files[job[w].ds] = job[w].doc
    BY <1>4 DEF LInv, Phase, PutPersist
  <2>3. job[w].ds \in Required => Decodable(job[w].doc)
    BY <2>2 DEF Compiles
  <2>4. \A d \in Datasets :
          rows'[d] = IF d = job[w].ds THEN job[w].doc ELSE rows[d]
    BY <1>4 DEF PutPersist, LInv, TypeOK
  <2>5. DBAlwaysDecodes'
    BY <2>3, <2>4, DatasetsAssumption DEF LInv, DBAlwaysDecodes, Decodable
  <2> QED
    BY <1>t, <2>1, <2>5 DEF LInv
<1>5. CASE \/ PutAccept(w) /\ ~InDB
           \/ PutWriteFails(w) \/ PutRollback(w)
           \/ PutRollbackFails(w) \/ PutPersistFails(w)
  <2>1. UNCHANGED rows /\ Unlock(w) /\ \E res \in Outcomes : Finish(w, res)
    BY <1>5, <1>m DEF PutWriteFails, PutAccept, PutRollback, PutRollbackFails,
       PutPersistFails, store
  <2>2. LockDiscipline' /\ \A v \in Workers : Phase(v)'
    BY <1>m, <2>1, FinishKeeps
  <2>3. DBAlwaysDecodes'
    BY <2>1 DEF LInv, DBAlwaysDecodes, Decodable
  <2> QED
    BY <1>t, <2>2, <2>3 DEF LInv
<1> QED
  BY <1>1, <1>2, <1>3, <1>4, <1>5 DEF PutStep

LEMMA RemoveKeeps ==
  ASSUME LInv, NEW w \in Workers, RemoveStep(w)
  PROVE  LInv'
<1> USE DEF PutSteps, RemoveSteps, ReloadSteps, CriticalSteps
<1>t. TypeOK'
  BY RemoveType DEF LInv
<1>m. /\ mutex = w
      /\ job[w].ds \in Datasets \ Required
      /\ {"applied", "rejected", "error"} \subseteq Outcomes
  BY DEF LInv, LockDiscipline, RemoveStep, RemovePublish, RemoveUndo,
     RemoveRow, TypeOK, Job, Outcomes, Phase
<1>d. DBAlwaysDecodes'
  <2>1. \A d \in Required : rows'[d] = rows[d]
    BY <1>m, DatasetsAssumption
    DEF RemoveStep, RemovePublish, RemoveUndo, RemoveRow, LInv, TypeOK
  <2> QED
    BY <2>1 DEF LInv, DBAlwaysDecodes, Decodable
<1>1. CASE RemovePublish(w) /\ InDB
  <2>1. /\ LockDiscipline'
        /\ pc'[w] = "removeRow"
        /\ \A v \in Workers \ {w} : Phase(v)'
    BY <1>1, <1>m, HoldKeeps DEF RemovePublish, Go
  <2>2. Phase(w)'
    BY <1>1, <2>1 DEF Phase, RemovePublish, LInv
  <2> QED
    BY <1>t, <1>d, <2>1, <2>2 DEF LInv
<1>2. CASE (RemovePublish(w) /\ ~InDB) \/ RemoveUndo(w) \/ RemoveRow(w)
  <2>1. Unlock(w) /\ \E res \in Outcomes : Finish(w, res)
    BY <1>2, <1>m DEF RemovePublish, RemoveUndo, RemoveRow
  <2>2. LockDiscipline' /\ \A v \in Workers : Phase(v)'
    BY <1>m, <2>1, FinishKeeps
  <2> QED
    BY <1>t, <1>d, <2>2 DEF LInv
<1> QED
  BY <1>1, <1>2 DEF RemoveStep

LEMMA ReloadKeeps ==
  ASSUME LInv, NEW w \in Workers, ReloadStep(w)
  PROVE  LInv'
<1> USE DEF PutSteps, RemoveSteps, ReloadSteps, CriticalSteps
<1>t. TypeOK'
  BY ReloadType DEF LInv
<1>m. /\ mutex = w
      /\ {"applied", "rejected", "error"} \subseteq Outcomes
  BY DEF LInv, LockDiscipline, ReloadStep, ReloadListFails, MaterializeFails,
     Materialize, LoadAndPublish, Outcomes
<1>r. UNCHANGED rows
  BY DEF ReloadStep, ReloadListFails, MaterializeFails, Materialize,
     LoadAndPublish, store
<1>d. DBAlwaysDecodes'
  BY <1>r DEF LInv, DBAlwaysDecodes, Decodable
<1>1. CASE Materialize(w)
  <2>1. /\ LockDiscipline'
        /\ pc'[w] = "load"
        /\ \A v \in Workers \ {w} : Phase(v)'
    BY <1>1, <1>m, HoldKeeps DEF Materialize, Go
  <2>2. job[w].view = rows /\ job[w].op \in {"reload", "recompile"}
    BY <1>1 DEF LInv, Phase, Materialize
  <2>3. job'[w].op = job[w].op
    BY <1>1 DEF Materialize, Forget, LInv, TypeOK, Job
  <2>4. \A d \in Datasets : rows'[d] # Absent => files'[d] = rows'[d]
    BY <1>1, <1>r, <2>2 DEF Materialize, Materialized
  <2>5. Phase(w)'
    BY <2>1, <2>2, <2>3, <2>4 DEF Phase
  <2> QED
    BY <1>t, <1>d, <2>1, <2>5 DEF LInv
<1>2. CASE ReloadListFails(w) \/ MaterializeFails(w) \/ LoadAndPublish(w)
  <2>1. Unlock(w) /\ \E res \in Outcomes : Finish(w, res)
    BY <1>2, <1>m DEF ReloadListFails, MaterializeFails, LoadAndPublish
  <2>2. LockDiscipline' /\ \A v \in Workers : Phase(v)'
    BY <1>m, <2>1, FinishKeeps
  <2> QED
    BY <1>t, <1>d, <2>2 DEF LInv
<1> QED
  BY <1>1, <1>2 DEF ReloadStep

LEMMA QuietKeeps ==
  ASSUME LInv, Tick \/ UNCHANGED vars
  PROVE  LInv'
<1>1. TypeOK'
  BY ProcessType, StutterType DEF LInv
<1>2. UNCHANGED <<files, rows, mutex, pc, job>>
  BY DEF Tick, vars, store
<1>3. DBAlwaysDecodes' /\ LockDiscipline'
  BY <1>2 DEF LInv, DBAlwaysDecodes, Decodable, LockDiscipline
<1>4. \A w \in Workers : Phase(w)'
  BY <1>2 DEF LInv, Phase, Compiles, Decodable
<1> QED
  BY <1>1, <1>3, <1>4 DEF LInv

LEMMA FailedBeginKeeps ==
  ASSUME LInv, NEW w \in Workers, FailedBegin(w)
  PROVE  LInv'
<1>1. TypeOK'
  BY FailedBeginType DEF LInv
<1>2. /\ mutex = Free
      /\ UNCHANGED <<files, rows, mutex>>
      /\ Finish(w, "error")
  BY FailedBeginFacts
<1>3. \A v \in Workers : pc'[v] = "idle"
  BY <1>2, Exclusive DEF LInv, TypeOK, Finish, Go
<1>4. DBAlwaysDecodes'
  BY <1>2 DEF LInv, DBAlwaysDecodes, Decodable
<1>5. LockDiscipline'
  BY <1>2, <1>3, ValuesAssumption DEF LockDiscipline, CriticalSteps
<1> QED
  BY <1>1, <1>3, <1>4, <1>5, IdlePhase DEF LInv

LEMMA LInvNext == LInv /\ [LockedNext]_vars => LInv'
BY LockedBeginKeeps, FailedBeginKeeps, PutKeeps, RemoveKeeps, ReloadKeeps, QuietKeeps
DEF LockedNext, LockedStep

LEMMA LInvInvariant == LockedSpec => []LInv
BY LInvInit, LInvNext, PTL DEF LockedSpec

\* Whatever writes fail, and with force too, the meta DB never holds an
\* undecodable required dataset (putDatasetLocked commits after the compile).
THEOREM DBStaysDecodable == LockedSpec => []DBAlwaysDecodes
<1>1. LInv => DBAlwaysDecodes
  BY DEF LInv
<1> QED
  BY <1>1, LInvInvariant, PTL

\* An answer other than an error is sent by the last step of the worker's own
\* handler.
LEMMA AnswerStep ==
  ASSUME LockedNext, NEW w \in Workers, NEW res, answer' = <<w, res>>,
         res # "error"
  PROVE  LockedStep(w) /\ Finish(w, res)
<1>1. ~Quiet
  BY DEF Quiet, Silent
<1>0. ASSUME NEW v \in Workers, FailedBegin(v)
      PROVE  FALSE
  BY <1>0, FailedBeginFacts DEF Finish
<1>2. PICK v \in Workers : LockedBegin(v) \/ LockedStep(v)
  BY <1>0, <1>1 DEF LockedNext, Tick
<1>3. LockedStep(v)
  BY <1>1, <1>2 DEF LockedBegin, PutBegin, RestoreBegin, BeginWrite,
     RemoveBegin, ReloadBegin, ReloadStart, RecompileBegin
<1>4. \E r : Finish(v, r)
  BY <1>1, <1>3
  DEF LockedStep, PutStep, RemoveStep, ReloadStep, PutWrite, PutWriteFails,
      PutAccept, PutReject, PutRollback, PutRollbackFails, PutPersist,
      PutPersistFails, RemovePublish, RemoveUndo, RemoveRow, ReloadListFails,
      MaterializeFails, Materialize, LoadAndPublish
<1> QED
  BY <1>3, <1>4 DEF Finish

\* A reload is answered with success by the step that publishes the files.
LEMMA ReloadLoads ==
  ASSUME LInv, LockedNext, NEW w \in Workers, Answers(w, "reload", "applied")
  PROVE  LoadAndPublish(w) /\ active' = files
<1>1. LockedStep(w) /\ Finish(w, "applied")
  BY AnswerStep DEF Answers
<1>2. ReloadStep(w)
  BY <1>1
  DEF Answers, LockedStep, LInv, Phase, PutStep, PutWrite, PutWriteFails,
      PutAccept, PutReject, PutRollback, PutRollbackFails, PutPersist,
      PutPersistFails, RemoveStep, RemovePublish, RemoveUndo, RemoveRow,
      PutSteps, RemoveSteps
<1>3. LoadAndPublish(w)
  BY <1>1, <1>2 DEF ReloadStep, ReloadListFails, MaterializeFails,
     Materialize, Finish, Quiet, Silent
<1>4. active' = files
  BY <1>3 DEF Answers, LoadAndPublish, Finish, PublishIfCompiles, Publish
<1> QED
  BY <1>3, <1>4

\* The files it publishes are the rows it has listed.
LEMMA ReloadedIsListed ==
  ASSUME LInv, LockedNext, NEW w \in Workers, InDB,
         Answers(w, "reload", "applied")
  PROVE  \A d \in Datasets : rows[d] # Absent => active'[d] = rows[d]
BY ReloadLoads DEF Answers, LInv, Phase, LoadAndPublish

\* The step that answers a reload publishes exactly the rows of the meta DB,
\* although earlier failures may have left files and rows apart: nobody gets
\* between listing the rows and publishing (reloadCatalog).
THEOREM ReloadPublishesRows == LockedSpec => ReloadFollowsDB
<1> DEFINE P == \A w \in Workers :
                  InDB /\ Answers(w, "reload", "applied")
                    => \A d \in Datasets :
                         rows[d] # Absent => active'[d] = rows[d]
<1>1. ASSUME LInv, [LockedNext]_vars
      PROVE  P \/ UNCHANGED vars
  BY <1>1, ReloadedIsListed
<1> QED
  BY <1>1, LInvInvariant, PTL DEF LockedSpec, ReloadFollowsDB

-----------------------------------------------------------------------------
(* The handlers that hold dataMu, until a write fails: files, rows and the *)
(* published catalog move together.                                        *)

RowsAgree(fs) == InDB => rows = fs

\* The backup named by the request's stamp holds what the request overwrote.
BackupHolds(w) ==
  LET j == job[w] IN
  IF j.stamp = NoBackup THEN j.before = Absent
  ELSE j.stamp \in Clock /\ backups[j.ds][j.stamp] = j.before

\* A request that may still need its backup has one, whatever failed.
HeldBackups ==
  \A w \in Workers : pc[w] \in PutSteps \cup RemoveSteps => BackupHolds(w)

\* The pre-image a handler records when it takes the lock is in its backup.
LEMMA BackupIsTaken ==
  ASSUME TypeOK, NEW w \in Workers, NEW d \in Datasets, BackupFile(d),
         job'[w].ds = d, job'[w].before = files[d],
         job'[w].stamp = BackupStamp(d)
  PROVE  BackupHolds(w)'
<1>1. CASE files[d] = Absent
  BY <1>1 DEF BackupHolds, BackupStamp
<1>2. CASE files[d] # Absent
  <2>1. clock \in Clock /\ clock # NoBackup
    BY ValuesAssumption DEF TypeOK, Clock, NoBackup
  <2>2. backups'[d][clock] = files[d]
    BY <1>2, <2>1 DEF BackupFile, TypeOK
  <2> QED
    BY <1>2, <2>1, <2>2 DEF BackupHolds, BackupStamp
<1> QED
  BY <1>1, <1>2

\* Nobody backs anything up between a locked handler's first and last step.
LEMMA BackupsStayHeld ==
  ASSUME LInv, LInv', HeldBackups, [LockedNext]_vars
  PROVE  HeldBackups'
<1> USE DEF PutSteps, RemoveSteps
<1>t. TypeOK
  BY DEF LInv
<1>1. CASE Tick \/ UNCHANGED vars
  BY <1>1 DEF HeldBackups, BackupHolds, Tick, vars, store
<1>0. ASSUME NEW w \in Workers, FailedBegin(w)
      PROVE  HeldBackups'
  <2>1. mutex' = Free
    BY <1>0, FailedBeginFacts
  <2> QED
    BY <2>1, ValuesAssumption
    DEF LInv, LockDiscipline, CriticalSteps, HeldBackups
<1>2. ASSUME NEW w \in Workers, LockedBegin(w)
      PROVE  HeldBackups'
  <2>1. mutex' = w
    BY <1>2 DEF LockedBegin, PutBegin, RestoreBegin, BeginWrite, RemoveBegin,
       ReloadBegin, ReloadStart, RecompileBegin, Lock
  <2>2. \A v \in Workers : pc'[v] \in CriticalSteps => v = w
    BY <2>1 DEF LInv, LockDiscipline
  <2>3. ASSUME NEW d \in Datasets, NEW doc, NEW force, NEW o,
               BeginWrite(w, o, d, doc, force)
        PROVE  BackupHolds(w)'
    <3>1. /\ job'[w].ds = d
          /\ job'[w].before = files[d]
          /\ job'[w].stamp = BackupStamp(d)
      BY <1>t, <2>3 DEF BeginWrite, TypeOK, NoJob
    <3> QED
      BY <1>t, <2>3, <3>1, BackupIsTaken DEF BeginWrite
  <2>4. ASSUME NEW d \in Datasets, RemoveBegin(w, d)
        PROVE  BackupHolds(w)'
    <3>1. /\ job'[w].ds = d
          /\ job'[w].before = files[d]
          /\ job'[w].stamp = BackupStamp(d)
      BY <1>t, <2>4 DEF RemoveBegin, TypeOK, NoJob
    <3> QED
      BY <1>t, <2>4, <3>1, BackupIsTaken DEF RemoveBegin
  <2>5. pc'[w] \in PutSteps \cup RemoveSteps => BackupHolds(w)'
    <3>1. ASSUME NEW d \in Datasets, NEW doc, NEW force, PutBegin(w, d, doc, force)
          PROVE  BackupHolds(w)'
      BY <2>3, <3>1 DEF PutBegin
    <3>2. ASSUME NEW d \in Datasets, NEW t, RestoreBegin(w, d, t)
          PROVE  BackupHolds(w)'
      BY <2>3, <3>2 DEF RestoreBegin
    <3>3. ASSUME ReloadBegin(w) \/ RecompileBegin(w)
          PROVE  pc'[w] \notin PutSteps \cup RemoveSteps
      BY <1>t, <3>3 DEF ReloadBegin, ReloadStart, RecompileBegin, TypeOK, Go
    <3> QED
      BY <1>2, <2>4, <3>1, <3>2, <3>3 DEF LockedBegin
  <2> QED
    BY <2>2, <2>5 DEF HeldBackups, CriticalSteps
<1>3. ASSUME NEW w \in Workers, LockedStep(w)
      PROVE  HeldBackups'
  <2>1. /\ backups' = backups
        /\ \E step : pc' = [pc EXCEPT ![w] = step]
        /\ pc'[w] \in PutSteps \cup RemoveSteps
             => job' = job /\ pc[w] \in PutSteps \cup RemoveSteps
    BY <1>3, <1>t
    DEF LockedStep, PutStep, RemoveStep, ReloadStep, PutWrite, PutWriteFails,
        PutAccept, PutReject, PutRollback, PutRollbackFails, PutPersist,
        PutPersistFails, RemovePublish, RemoveUndo, RemoveRow, ReloadListFails,
        MaterializeFails, Materialize, LoadAndPublish, Finish, Go, store,
        TypeOK
  <2>2. mutex = w
    BY <1>3
    DEF LInv, LockDiscipline, CriticalSteps, LockedStep, PutStep, RemoveStep,
        ReloadStep, PutWrite, PutWriteFails, PutAccept, PutReject, PutRollback,
        PutRollbackFails, PutPersist, PutPersistFails, RemovePublish,
        RemoveUndo, RemoveRow, ReloadListFails, MaterializeFails, Materialize,
        LoadAndPublish
  <2>3. \A v \in Workers \ {w} : pc'[v] \notin PutSteps \cup RemoveSteps
    BY <1>t, <2>1, <2>2 DEF LInv, LockDiscipline, CriticalSteps, TypeOK
  <2> QED
    BY <2>1, <2>3 DEF HeldBackups, BackupHolds
<1> QED
  BY <1>0, <1>1, <1>2, <1>3 DEF LockedNext

\* How far files, rows and catalog are apart at each step, and what the request
\* knows that brings them together again.
Distance(w) ==
  LET j == job[w] IN
  /\ pc[w] \in PutSteps \cup RemoveSteps => BackupHolds(w)
  /\ pc[w] = "write" => files = [active EXCEPT ![j.ds] = Torn]
  /\ pc[w] \in {"compile", "rollback"} => files = [active EXCEPT ![j.ds] = j.doc]
  /\ pc[w] = "removeLoad" => files = [active EXCEPT ![j.ds] = Absent]
  /\ pc[w] \in {"write", "compile", "rollback", "removeLoad"}
       => j.before = active[j.ds] /\ RowsAgree(active)
  /\ pc[w] \in {"persist", "removeRow"}
       => active = files /\ rows = [files EXCEPT ![j.ds] = j.before]
  /\ pc[w] = "removeRow" => files[j.ds] = Absent
  /\ pc[w] = "materialize" => active = files /\ rows = files
  /\ pc[w] = "load" => active = files /\ RowsAgree(files)

\* The inductive invariant of LockedSpec as long as nothing has failed.
SInv ==
  /\ LInv
  /\ mutex = Free => active = files /\ RowsAgree(files)
  /\ \A w \in Workers : Distance(w)

LEMMA SInvInit == Init => SInv
BY LInvInit DEF Init, SInv, RowsAgree, Distance, PutSteps, RemoveSteps

LEMMA IdleDistance ==
  ASSUME NEW w \in Workers, pc'[w] = "idle"
  PROVE  Distance(w)'
BY DEF Distance, PutSteps, RemoveSteps

LEMMA OthersDistance ==
  ASSUME LInv, NEW w \in Workers, mutex \in {w, Free},
         NEW step, pc' = [pc EXCEPT ![w] = step]
  PROVE  \A v \in Workers \ {w} : Distance(v)'
BY OthersIdle, IdleDistance

\* The step that ends a handler leaves files, rows and catalog together.
LEMMA FinishAgrees ==
  ASSUME LInv, LInv', NEW w \in Workers, mutex = w, NEW res, Finish(w, res),
         active' = files', RowsAgree(files)'
  PROVE  SInv'
<1>1. \A v \in Workers \ {w} : Distance(v)'
  BY OthersDistance DEF Finish, Go
<1>2. pc'[w] = "idle"
  BY DEF LInv, TypeOK, Finish, Go
<1>3. Distance(w)'
  BY <1>2, IdleDistance
<1> QED
  BY <1>1, <1>3 DEF SInv

\* What a rollback puts back is what the catalog was compiled from.
LEMMA RestoredIsActive ==
  ASSUME SInv, NEW w \in Workers, pc[w] \in {"rollback", "removeLoad"}
  PROVE  Restored(w) = active
<1>1. /\ job[w].ds \in Datasets
      /\ files \in [Datasets -> Stored]
      /\ active \in [Datasets -> Stored]
  BY DEF SInv, LInv, TypeOK, Job
<1>2. /\ BackupHolds(w)
      /\ job[w].before = active[job[w].ds]
      /\ \E x : files = [active EXCEPT ![job[w].ds] = x]
  BY DEF SInv, Distance, PutSteps, RemoveSteps
<1>3. Restored(w) = [files EXCEPT ![job[w].ds] = job[w].before]
  BY <1>2, ValuesAssumption DEF BackupHolds, Restored, NoBackup, Clock
<1> QED
  BY <1>1, <1>2, <1>3

LEMMA LockedBeginAgrees ==
  ASSUME SInv, NEW w \in Workers, LockedBegin(w)
  PROVE  SInv'
<1> USE DEF PutSteps, RemoveSteps
<1>l. LInv'
  BY LockedBeginKeeps DEF SInv
<1>m. /\ mutex = Free /\ mutex' = w
      /\ active = files /\ RowsAgree(files)
      /\ active' = active /\ rows' = rows
  BY DEF LockedBegin, PutBegin, RestoreBegin, BeginWrite, RemoveBegin,
     ReloadBegin, ReloadStart, RecompileBegin, Lock, SInv, store
<1>o. \A v \in Workers \ {w} : Distance(v)'
  <2>1. \E step : pc' = [pc EXCEPT ![w] = step]
    BY DEF LockedBegin, PutBegin, RestoreBegin, BeginWrite, RemoveBegin,
       ReloadBegin, ReloadStart, RecompileBegin, Go
  <2> QED
    BY <1>m, <2>1, OthersDistance DEF SInv
<1>t. TypeOK
  BY DEF SInv, LInv
<1>f. mutex' # Free
  BY <1>m, ValuesAssumption
<1>1. ASSUME NEW d \in Datasets, NEW doc, NEW force, NEW o,
             BeginWrite(w, o, d, doc, force)
      PROVE  Distance(w)'
  <2>1. /\ job'[w].ds = d
        /\ job'[w].before = files[d]
        /\ job'[w].stamp = BackupStamp(d)
        /\ pc'[w] = "write"
    BY <1>1, <1>t DEF BeginWrite, TypeOK, NoJob, Go
  <2>2. BackupHolds(w)'
    BY <1>1, <1>t, <2>1, BackupIsTaken DEF BeginWrite
  <2>3. files' = [active' EXCEPT ![d] = Torn]
    BY <1>1, <1>m DEF BeginWrite
  <2> QED
    BY <1>m, <2>1, <2>2, <2>3 DEF Distance, RowsAgree
<1>2. ASSUME NEW d \in Datasets, RemoveBegin(w, d)
      PROVE  Distance(w)'
  <2>1. /\ job'[w].ds = d
        /\ job'[w].before = files[d]
        /\ job'[w].stamp = BackupStamp(d)
        /\ pc'[w] = "removeLoad"
    BY <1>2, <1>t DEF RemoveBegin, TypeOK, NoJob, Go
  <2>2. BackupHolds(w)'
    BY <1>2, <1>t, <2>1, BackupIsTaken DEF RemoveBegin
  <2>3. files' = [active' EXCEPT ![d] = Absent]
    BY <1>2, <1>m DEF RemoveBegin
  <2> QED
    BY <1>m, <2>1, <2>2, <2>3 DEF Distance, RowsAgree
<1>3. ASSUME ReloadBegin(w) \/ RecompileBegin(w)
      PROVE  Distance(w)'
  <2>1. /\ files' = files
        /\ \/ pc'[w] = "load"
           \/ InDB /\ pc'[w] = "materialize"
    BY <1>3, <1>t DEF ReloadBegin, ReloadStart, RecompileBegin, store, TypeOK,
       Go
  <2>2. active' = files' /\ RowsAgree(files)'
    BY <1>m, <2>1 DEF RowsAgree
  <2>3. CASE pc'[w] = "load"
    BY <2>2, <2>3 DEF Distance
  <2>4. CASE InDB /\ pc'[w] = "materialize"
    BY <2>2, <2>4 DEF Distance, RowsAgree
  <2> QED
    BY <2>1, <2>3, <2>4
<1>4. Distance(w)'
  <2>1. ASSUME NEW d \in Datasets, NEW doc, NEW force, PutBegin(w, d, doc, force)
        PROVE  Distance(w)'
    BY <1>1, <2>1 DEF PutBegin
  <2>2. ASSUME NEW d \in Datasets, NEW t, RestoreBegin(w, d, t)
        PROVE  Distance(w)'
    BY <1>1, <2>2 DEF RestoreBegin
  <2> QED
    BY <1>2, <1>3, <2>1, <2>2 DEF LockedBegin
<1> QED
  BY <1>l, <1>o, <1>f, <1>4 DEF SInv

\* A step inside a handler: the others stay idle, w must restore its distance.
LEMMA HoldAgrees ==
  ASSUME SInv, LInv', NEW w \in Workers, mutex = w, mutex' = w,
         NEW step, pc' = [pc EXCEPT ![w] = step], Distance(w)'
  PROVE  SInv'
<1>1. \A v \in Workers \ {w} : Distance(v)'
  BY OthersDistance DEF SInv
<1> QED
  BY <1>1, ValuesAssumption DEF SInv

LEMMA PutAgrees ==
  ASSUME ~faulted', SInv, NEW w \in Workers, PutStep(w)
  PROVE  SInv'
<1> USE DEF PutSteps, RemoveSteps
<1>l. LInv /\ LInv' /\ TypeOK /\ Distance(w) /\ Phase(w)
  BY PutKeeps DEF SInv, LInv
<1>m. /\ mutex = w
      /\ job[w].ds \in Datasets
      /\ BackupHolds(w)
  BY <1>l DEF LInv, LockDiscipline, CriticalSteps, PutStep, PutWrite,
     PutWriteFails, PutAccept, PutReject, PutRollback, PutRollbackFails,
     PutPersist, PutPersistFails, TypeOK, Job, Distance
<1>1. CASE PutWrite(w)
  <2>1. /\ files = [active EXCEPT ![job[w].ds] = Torn]
        /\ files[job[w].ds] = Torn
        /\ job[w].before = active[job[w].ds]
        /\ RowsAgree(active)
    BY <1>1, <1>l DEF PutWrite, Distance, Phase
  <2>2. files' = [active EXCEPT ![job[w].ds] = job[w].doc]
    BY <1>1, <1>l, <1>m, <2>1 DEF PutWrite, Written, TypeOK
  <2>3. Distance(w)'
    BY <1>1, <1>l, <1>m, <2>1, <2>2
    DEF PutWrite, Go, Distance, TypeOK, RowsAgree, BackupHolds
  <2> QED
    BY <1>1, <1>l, <1>m, <2>3, HoldAgrees DEF PutWrite, Go
<1>2. CASE PutReject(w)
  <2>1. Distance(w)'
    BY <1>2, <1>l, <1>m
    DEF PutReject, Go, Distance, TypeOK, RowsAgree, BackupHolds, store
  <2> QED
    BY <1>2, <1>l, <1>m, <2>1, HoldAgrees DEF PutReject, Go
<1>3. CASE PutAccept(w)
  <2>1. /\ files = [active EXCEPT ![job[w].ds] = job[w].doc]
        /\ job[w].before = active[job[w].ds]
        /\ RowsAgree(active)
    BY <1>3, <1>l DEF PutAccept, Distance
  <2>2. active' = files'
    BY <1>3 DEF PutAccept, Publish
  <2>3. CASE InDB
    <3>1. rows' = [files' EXCEPT ![job[w].ds] = job[w].before]
      BY <1>3, <1>l, <1>m, <2>1, <2>3 DEF PutAccept, RowsAgree, TypeOK
    <3>2. Distance(w)'
      BY <1>3, <1>l, <1>m, <2>2, <2>3, <3>1
      DEF PutAccept, Go, Distance, TypeOK, BackupHolds
    <3> QED
      BY <1>3, <1>l, <1>m, <2>3, <3>2, HoldAgrees DEF PutAccept, Go
  <2>4. CASE ~InDB
    BY <1>3, <1>l, <1>m, <2>2, <2>4, FinishAgrees DEF PutAccept, RowsAgree
  <2> QED
    BY <2>3, <2>4
<1>4. CASE PutRollback(w)
  <2>1. Restored(w) = active /\ RowsAgree(active)
    BY <1>4, <1>l, RestoredIsActive DEF PutRollback, Distance
  <2>2. files' = Restored(w)
    BY <1>4 DEF PutRollback, RolledBack, Fault
  <2>3. active' = files' /\ RowsAgree(files)'
    BY <1>4, <2>1, <2>2
    DEF PutRollback, PublishIfCompiles, Publish, Keep, RowsAgree
  <2> QED
    BY <1>4, <1>l, <1>m, <2>3, FinishAgrees DEF PutRollback
<1>5. CASE PutPersist(w)
  <2>1. /\ active = files
        /\ rows = [files EXCEPT ![job[w].ds] = job[w].before]
        /\ files[job[w].ds] = job[w].doc
    BY <1>5, <1>l DEF PutPersist, Distance, Phase
  <2>2. rows' = files
    BY <1>5, <1>l, <1>m, <2>1 DEF PutPersist, TypeOK
  <2> QED
    BY <1>5, <1>l, <1>m, <2>1, <2>2, FinishAgrees DEF PutPersist, RowsAgree
<1> QED
  BY <1>1, <1>2, <1>3, <1>4, <1>5
  DEF PutStep, PutWriteFails, PutRollbackFails, PutPersistFails, Fault

LEMMA RemoveAgrees ==
  ASSUME ~faulted', SInv, NEW w \in Workers, RemoveStep(w)
  PROVE  SInv'
<1> USE DEF PutSteps, RemoveSteps
<1>l. LInv /\ LInv' /\ TypeOK /\ Distance(w)
  BY RemoveKeeps DEF SInv, LInv
<1>m. /\ mutex = w
      /\ job[w].ds \in Datasets
      /\ BackupHolds(w)
  BY <1>l DEF LInv, LockDiscipline, CriticalSteps, RemoveStep, RemovePublish,
     RemoveUndo, RemoveRow, TypeOK, Job, Distance
<1>1. CASE RemovePublish(w)
  <2>1. /\ files = [active EXCEPT ![job[w].ds] = Absent]
        /\ job[w].before = active[job[w].ds]
        /\ RowsAgree(active)
    BY <1>1, <1>l DEF RemovePublish, Distance
  <2>2. active' = files' /\ files' = files /\ rows' = rows
    BY <1>1 DEF RemovePublish, Publish
  <2>3. CASE InDB
    <3>1. /\ rows' = [files' EXCEPT ![job[w].ds] = job[w].before]
          /\ files'[job[w].ds] = Absent
      BY <1>l, <1>m, <2>1, <2>2, <2>3 DEF RowsAgree, TypeOK
    <3>2. Distance(w)'
      BY <1>1, <1>l, <1>m, <2>2, <2>3, <3>1
      DEF RemovePublish, Go, Distance, TypeOK, BackupHolds
    <3> QED
      BY <1>1, <1>l, <1>m, <2>3, <3>2, HoldAgrees DEF RemovePublish, Go
  <2>4. CASE ~InDB
    BY <1>1, <1>l, <1>m, <2>2, <2>4, FinishAgrees DEF RemovePublish, RowsAgree
  <2> QED
    BY <2>3, <2>4
<1>2. CASE RemoveUndo(w)
  <2>1. Restored(w) = active /\ RowsAgree(active)
    BY <1>2, <1>l, RestoredIsActive DEF RemoveUndo, Distance
  <2>2. files' = active
    BY <1>2, <2>1 DEF RemoveUndo, Fault
  <2>3. active' = files' /\ RowsAgree(files)'
    BY <1>2, <2>1, <2>2
    DEF RemoveUndo, PublishIfCompiles, Publish, Keep, RowsAgree
  <2> QED
    BY <1>2, <1>l, <1>m, <2>3, FinishAgrees DEF RemoveUndo
<1>3. CASE RemoveRow(w)
  <2>1. /\ active = files
        /\ rows = [files EXCEPT ![job[w].ds] = job[w].before]
        /\ files[job[w].ds] = Absent
    BY <1>3, <1>l DEF RemoveRow, Distance
  <2>2. rows' = files
    BY <1>3, <1>l, <1>m, <2>1 DEF RemoveRow, Fault, TypeOK
  <2> QED
    BY <1>3, <1>l, <1>m, <2>1, <2>2, FinishAgrees DEF RemoveRow, RowsAgree
<1> QED
  BY <1>1, <1>2, <1>3 DEF RemoveStep

LEMMA ReloadAgrees ==
  ASSUME ~faulted', SInv, NEW w \in Workers, ReloadStep(w)
  PROVE  SInv'
<1> USE DEF PutSteps, RemoveSteps
<1>l. LInv /\ LInv' /\ TypeOK /\ Distance(w) /\ Phase(w)
  BY ReloadKeeps DEF SInv, LInv
<1>m. mutex = w
  BY <1>l DEF LInv, LockDiscipline, CriticalSteps, ReloadStep, ReloadListFails,
     MaterializeFails, Materialize, LoadAndPublish
<1>1. CASE Materialize(w)
  <2>1. active = files /\ rows = files /\ job[w].view = rows
    BY <1>1, <1>l DEF Materialize, Distance, Phase
  <2>2. Materialized(files, files) = files
    BY <1>l DEF Materialized, TypeOK
  <2>3. files' = files /\ active' = active /\ rows' = rows
    BY <1>1, <2>1, <2>2 DEF Materialize
  <2>4. pc'[w] = "load"
    BY <1>1, <1>l DEF Materialize, Go, TypeOK
  <2>5. Distance(w)'
    BY <2>1, <2>3, <2>4 DEF Distance, RowsAgree
  <2> QED
    BY <1>1, <1>l, <1>m, <2>5, HoldAgrees DEF Materialize, Go
<1>2. CASE LoadAndPublish(w)
  <2>1. active = files /\ RowsAgree(files)
    BY <1>2, <1>l DEF LoadAndPublish, Distance
  <2>2. active' = files' /\ RowsAgree(files)'
    BY <1>2, <2>1
    DEF LoadAndPublish, PublishIfCompiles, Publish, Keep, RowsAgree
  <2> QED
    BY <1>2, <1>l, <1>m, <2>2, FinishAgrees DEF LoadAndPublish
<1> QED
  BY <1>1, <1>2 DEF ReloadStep, ReloadListFails, MaterializeFails, Fault

LEMMA QuietAgrees ==
  ASSUME SInv, Tick \/ UNCHANGED vars
  PROVE  SInv'
<1>1. LInv'
  BY QuietKeeps DEF SInv
<1>2. UNCHANGED <<files, rows, active, backups, mutex, pc, job>>
  BY DEF Tick, vars, store
<1> QED
  BY <1>1, <1>2 DEF SInv, Distance, RowsAgree, BackupHolds

\* A failure is never forgotten.
LEMMA FaultedStays ==
  ASSUME [LockedNext]_vars, ~faulted'
  PROVE  ~faulted
BY FailedBeginFacts
DEF vars, LockedNext, Tick, LockedBegin, PutBegin, RestoreBegin, BeginWrite,
   RemoveBegin, ReloadBegin, ReloadStart, RecompileBegin, LockedStep, PutStep,
   RemoveStep, ReloadStep, PutWrite, PutWriteFails, PutAccept, PutReject,
   PutRollback, RolledBack, PutRollbackFails, PutPersist, PutPersistFails,
   RemovePublish, RemoveUndo, RemoveRow, ReloadListFails, MaterializeFails,
   Materialize, LoadAndPublish, Fault

\* Until something fails the three stores move together; afterwards the lock
\* and the backups still hold.
FInv ==
  /\ LInv
  /\ ~faulted => SInv
  /\ HeldBackups

LEMMA FInvInvariant == LockedSpec => []FInv
<1>1. Init => FInv
  BY SInvInit, LInvInit DEF FInv, HeldBackups, Init, PutSteps, RemoveSteps
<1>2. FInv /\ [LockedNext]_vars => FInv'
  <2> SUFFICES ASSUME FInv, [LockedNext]_vars PROVE FInv'
    OBVIOUS
  <2>1. LInv'
    BY LInvNext DEF FInv
  <2>2. HeldBackups'
    BY <2>1, BackupsStayHeld DEF FInv
  <2>3. ~faulted' => SInv'
    BY FaultedStays, FailedBeginFacts, LockedBeginAgrees, PutAgrees, RemoveAgrees, ReloadAgrees,
       QuietAgrees
    DEF FInv, LockedNext, LockedStep, Fault
  <2> QED
    BY <2>1, <2>2, <2>3 DEF FInv
<1> QED
  BY <1>1, <1>2, PTL DEF LockedSpec

\* When every dataset change goes through the handlers that hold dataMu and no
\* write has failed, files, meta DB and published catalog agree whenever the
\* lock is free (putDatasetLocked, removeDataset, reloadCatalog).
THEOREM IdleStoresAgree == LockedSpec => []IdleAgreement
<1>1. FInv => IdleAgreement
  BY DEF FInv, SInv, RowsAgree, IdleAgreement
<1> QED
  BY <1>1, FInvInvariant, PTL

LEMMA RejectedIsRestored ==
  ASSUME FInv, LockedNext, ~faulted', NEW w \in Workers,
         answer' = <<w, "rejected">>
  PROVE  files'[job[w].ds] = job[w].before /\ active' = active
<1>1. LockedStep(w) /\ Finish(w, "rejected")
  BY AnswerStep
<1>2. PutRollback(w)
  BY <1>1
  DEF LockedStep, PutStep, RemoveStep, ReloadStep, PutWrite, PutWriteFails,
      PutAccept, PutReject, PutRollbackFails, PutPersist, PutPersistFails,
      RemovePublish, RemoveUndo, RemoveRow, ReloadListFails,
      MaterializeFails, Materialize, LoadAndPublish, Finish, Quiet, Silent
<1>3. Restored(w) = active /\ job[w].before = active[job[w].ds]
  BY <1>2, FaultedStays, RestoredIsActive DEF PutRollback, FInv, SInv, Distance
<1>4. files' = Restored(w)
  BY <1>2 DEF PutRollback, RolledBack, Fault
<1> QED
  BY <1>2, <1>3, <1>4 DEF PutRollback, PublishIfCompiles, Publish, Keep

\* A put or restore that is answered "rejected" leaves the file it wrote and
\* the published catalog as it found them, unless a write failed before or its
\* own rollback did (the rollback of putDatasetLocked).
THEOREM RejectionRestores == LockedSpec => RejectedPutRestores
<1> DEFINE P == \A w \in Workers, o \in {"put", "restore"} :
                  ~faulted' /\ Answers(w, o, "rejected")
                    => /\ files'[job[w].ds] = job[w].before
                       /\ active' = active
<1>1. ASSUME FInv, [LockedNext]_vars
      PROVE  P \/ UNCHANGED vars
  BY <1>1, RejectedIsRestored DEF Answers
<1> QED
  BY <1>1, FInvInvariant, PTL DEF LockedSpec, RejectedPutRestores

LEMMA AppliedIsBackedUp ==
  ASSUME LInv, HeldBackups, LockedNext, NEW w \in Workers,
         answer' = <<w, "applied">>, job[w].op \in {"put", "restore", "remove"}
  PROVE  \/ job[w].before = Absent
         \/ \E t \in Clock : backups'[job[w].ds][t] = job[w].before
<1>1. LockedStep(w) /\ Finish(w, "applied")
  BY AnswerStep
<1>2. PutStep(w) \/ RemoveStep(w)
  BY <1>1
  DEF LockedStep, ReloadStep, ReloadListFails, MaterializeFails, Materialize,
      LoadAndPublish, LInv, Phase, ReloadSteps
<1>3. backups' = backups /\ pc[w] \in {"compile", "persist"} \cup RemoveSteps
  BY <1>1, <1>2
  DEF PutStep, PutWrite, PutWriteFails, PutAccept, PutReject, PutRollback,
      PutRollbackFails, PutPersist, PutPersistFails, RemoveStep,
      RemovePublish, RemoveUndo, RemoveRow, RemoveSteps, Finish, Quiet,
      Silent
<1>4. BackupHolds(w)
  BY <1>3 DEF HeldBackups, PutSteps, RemoveSteps
<1> QED
  BY <1>3, <1>4 DEF BackupHolds

\* A change that was applied left a backup of what it overwrote or removed,
\* whatever failed before (backupDatasetFile, which a restore goes through as
\* well).
THEOREM AppliedIsReversible == LockedSpec => ChangeIsReversible
<1> DEFINE P == \A w \in Workers, o \in {"put", "restore", "remove"} :
                  Answers(w, o, "applied")
                    => \/ job[w].before = Absent
                       \/ \E t \in Clock :
                            backups'[job[w].ds][t] = job[w].before
<1>1. ASSUME FInv, [LockedNext]_vars
      PROVE  P \/ UNCHANGED vars
  BY <1>1, AppliedIsBackedUp DEF Answers, FInv
<1> QED
  BY <1>1, FInvInvariant, PTL DEF LockedSpec, ChangeIsReversible

-----------------------------------------------------------------------------
(* The locked handlers implement AtomicStore.                              *)

\* What a change was judged by, and what it leaves, while nothing has failed.
Judged(w) ==
  LET j == job[w] IN
  /\ pc[w] \in {"write", "compile"} => j.errs = ErrorCount(active, j.ds)
  /\ pc[w] \in PutSteps => j.doc \in Docs
  /\ pc[w] \in RemoveSteps => j.op = "remove" /\ j.doc = Absent

\* A server that does not crash stays up, and serves what compiled.
AInv ==
  /\ FInv
  /\ up /\ ActiveCompiles
  /\ ~faulted => \A w \in Workers : Judged(w)

\* At most one change is under way, that of the worker with the lock.
LEMMA AskedIs ==
  ASSUME LInv
  PROVE  /\ mutex = Free => Asked = {}
         /\ \A w \in Workers : mutex = w
              => Asked = IF pc[w] \in PutSteps \cup RemoveSteps THEN {AskedOf(w)}
                         ELSE {}
<1>1. \A w \in Workers : pc[w] \in PutSteps \cup RemoveSteps => mutex = w
  BY DEF LInv, LockDiscipline, CriticalSteps, PutSteps, RemoveSteps
<1> QED
  BY <1>1, ValuesAssumption DEF Asked

LEMMA AskedIsNext ==
  ASSUME LInv'
  PROVE  /\ mutex' = Free => Asked' = {}
         /\ \A w \in Workers : mutex' = w
              => Asked' = IF pc'[w] \in PutSteps \cup RemoveSteps
                            THEN {AskedOf(w)'} ELSE {}
<1>1. \A w \in Workers : pc'[w] \in PutSteps \cup RemoveSteps => mutex' = w
  BY DEF LInv, LockDiscipline, CriticalSteps, PutSteps, RemoveSteps
<1> QED
  BY <1>1, ValuesAssumption DEF Asked

\* The first step of a locked handler.
LEMMA BeginTakesLock ==
  ASSUME NEW w \in Workers, LockedBegin(w)
  PROVE  /\ mutex = Free /\ mutex' = w
         /\ UNCHANGED <<rows, active, up, faulted>>
         /\ answer' = Silent
<1>1. ASSUME NEW d, NEW doc, NEW force, NEW o, BeginWrite(w, o, d, doc, force)
      PROVE  /\ mutex = Free /\ mutex' = w
             /\ UNCHANGED <<rows, active, up, faulted>>
             /\ answer' = Silent
  BY <1>1 DEF BeginWrite, Lock, Quiet
<1>2. ASSUME NEW d, RemoveBegin(w, d)
      PROVE  /\ mutex = Free /\ mutex' = w
             /\ UNCHANGED <<rows, active, up, faulted>>
             /\ answer' = Silent
  BY <1>2 DEF RemoveBegin, Lock, Quiet
<1>3. ASSUME ReloadBegin(w) \/ RecompileBegin(w)
      PROVE  /\ mutex = Free /\ mutex' = w
             /\ UNCHANGED <<rows, active, up, faulted>>
             /\ answer' = Silent
  BY <1>3 DEF ReloadBegin, ReloadStart, RecompileBegin, Lock, Quiet, store
<1> QED
  BY <1>1, <1>2, <1>3 DEF LockedBegin, PutBegin, RestoreBegin

LEMMA JudgedNext ==
  ASSUME AInv, ~faulted', LInv', [LockedNext]_vars
  PROVE  \A w \in Workers : Judged(w)'
<1> USE DEF PutSteps, RemoveSteps
<1>0. ASSUME NEW w \in Workers, FailedBegin(w)
      PROVE  FALSE
  BY <1>0, FailedBeginFacts DEF Fault
<1>f. ~faulted /\ SInv /\ TypeOK /\ \A w \in Workers : Judged(w)
  BY FaultedStays DEF AInv, FInv, SInv, LInv
<1>o. ASSUME NEW w \in Workers, pc'[w] \notin PutSteps \cup RemoveSteps
      PROVE  Judged(w)'
  BY <1>o DEF Judged
<1>1. CASE Tick \/ UNCHANGED vars
  BY <1>1, <1>f DEF Judged, Tick, vars, store
<1>2. ASSUME NEW w \in Workers, LockedBegin(w)
      PROVE  \A v \in Workers : Judged(v)'
  <2>1. /\ mutex' = w /\ active' = active
        /\ \A v \in Workers \ {w} : Judged(v)'
    <3>1. mutex' = w /\ active' = active
      BY <1>2, BeginTakesLock
    <3>2. \A v \in Workers \ {w} : pc'[v] \notin PutSteps \cup RemoveSteps
      BY <3>1 DEF LInv, LockDiscipline, CriticalSteps
    <3> QED
      BY <3>1, <3>2, <1>o
  <2>2. ASSUME NEW d \in Datasets, NEW doc \in Docs, NEW force, NEW o,
               BeginWrite(w, o, d, doc, force)
        PROVE  Judged(w)'
    <3>1. /\ job'[w].ds = d /\ job'[w].doc = doc
          /\ job'[w].errs = ErrorCount(active, d)
          /\ pc'[w] = "write"
      BY <2>2, <1>f DEF BeginWrite, TypeOK, NoJob, Go
    <3> QED
      BY <2>1, <3>1 DEF Judged, ErrorCount, Dangling
  <2>3. ASSUME NEW d \in Datasets, RemoveBegin(w, d)
        PROVE  Judged(w)'
    <3>1. /\ job'[w].op = "remove" /\ job'[w].doc = Absent
          /\ pc'[w] = "removeLoad"
      BY <2>3, <1>f DEF RemoveBegin, TypeOK, NoJob, Go
    <3> QED
      BY <3>1 DEF Judged
  <2>4. ASSUME ReloadBegin(w) \/ RecompileBegin(w)
        PROVE  Judged(w)'
    <3>1. pc'[w] \notin PutSteps \cup RemoveSteps
      BY <1>f, <2>4 DEF ReloadBegin, ReloadStart, RecompileBegin, TypeOK, Go
    <3> QED
      BY <3>1, <1>o
  <2>5. ASSUME NEW d \in Datasets, NEW force, NEW doc \in Inputs[d],
               PutBegin(w, d, doc, force)
        PROVE  Judged(w)'
    BY <2>2, <2>5, DocsAssumption DEF PutBegin
  <2>6. ASSUME NEW d \in Datasets, NEW t, RestoreBegin(w, d, t)
        PROVE  Judged(w)'
    BY <2>2, <2>6 DEF RestoreBegin
  <2> QED
    BY <1>2, <2>1, <2>3, <2>4, <2>5, <2>6 DEF LockedBegin
<1>3. ASSUME NEW w \in Workers, LockedStep(w)
      PROVE  \A v \in Workers : Judged(v)'
  <2>1. /\ \E step : pc' = [pc EXCEPT ![w] = step]
        /\ pc'[w] \in PutSteps \cup RemoveSteps => job' = job
        /\ pc'[w] = "write" => FALSE
        /\ pc'[w] = "compile" => pc[w] = "write" /\ active' = active
        /\ pc'[w] \in PutSteps => pc[w] \in PutSteps
        /\ pc'[w] \in RemoveSteps => pc[w] \in RemoveSteps
    BY <1>3, <1>f
    DEF LockedStep, PutStep, RemoveStep, ReloadStep, PutWrite, PutWriteFails,
        PutAccept, PutReject, PutRollback, PutRollbackFails, PutPersist,
        PutPersistFails, RemovePublish, RemoveUndo, RemoveRow, ReloadListFails,
        MaterializeFails, Materialize, LoadAndPublish, Finish, Go, store,
        TypeOK
  <2>2. mutex = w
    BY <1>3
    DEF AInv, FInv, LInv, LockDiscipline, CriticalSteps, LockedStep, PutStep,
        RemoveStep, ReloadStep, PutWrite, PutWriteFails, PutAccept, PutReject,
        PutRollback, PutRollbackFails, PutPersist, PutPersistFails,
        RemovePublish, RemoveUndo, RemoveRow, ReloadListFails,
        MaterializeFails, Materialize, LoadAndPublish
  <2>3. \A v \in Workers \ {w} : pc'[v] \notin PutSteps \cup RemoveSteps
    BY <1>f, <2>1, <2>2
    DEF AInv, FInv, LInv, LockDiscipline, CriticalSteps, TypeOK
  <2>4. Judged(w)'
    BY <1>f, <2>1 DEF Judged, ErrorCount, Dangling
  <2> QED
    BY <2>3, <2>4, <1>o
<1> QED
  BY <1>0, <1>1, <1>2, <1>3 DEF LockedNext

LEMMA LockedIsSpec == LockedSpec => Spec
<1>1. [LockedNext]_vars => [Next]_vars
  BY DEF Next
<1> QED
  BY <1>1, PTL DEF LockedSpec, Spec

LEMMA StaysUp ==
  ASSUME [LockedNext]_vars
  PROVE  up' = up
<1>1. ASSUME NEW w \in Workers, LockedBegin(w)
      PROVE  up' = up
  BY <1>1, BeginTakesLock
<1>2. ASSUME NEW w \in Workers, LockedStep(w)
      PROVE  up' = up
  BY <1>2
  DEF LockedStep, PutStep, RemoveStep, ReloadStep, PutWrite, PutWriteFails,
      PutAccept, PutReject, PutRollback, PutRollbackFails, PutPersist,
      PutPersistFails, RemovePublish, RemoveUndo, RemoveRow, ReloadListFails,
      MaterializeFails, Materialize, LoadAndPublish
<1> QED
  BY <1>1, <1>2, FailedBeginFacts DEF LockedNext, Tick, vars

LEMMA AInvInvariant == LockedSpec => []AInv
<1> DEFINE J == up /\ (~faulted => \A w \in Workers : Judged(w))
<1>1. Init => J
  BY DEF Init, Judged, PutSteps, RemoveSteps
<1>2. FInv /\ FInv' /\ ActiveCompiles /\ J /\ [LockedNext]_vars => J'
  <2> SUFFICES ASSUME FInv, FInv', ActiveCompiles, J, [LockedNext]_vars
               PROVE  J'
    OBVIOUS
  <2>1. up'
    BY StaysUp
  <2>2. ~faulted' => \A w \in Workers : Judged(w)'
    BY JudgedNext DEF AInv, FInv
  <2> QED
    BY <2>1, <2>2
<1>3. AInv <=> FInv /\ ActiveCompiles /\ J
  BY DEF AInv
<1> QED
  BY <1>1, <1>2, <1>3, LockedIsSpec, FInvInvariant, ActiveAlwaysCompiles, PTL
  DEF LockedSpec

\* The backup of a handler's first step is a document the promise keeps.
LEMMA KeptGrows ==
  ASSUME TypeOK, NEW d \in Datasets, BackupFile(d), active = files
  PROVE  /\ Kept' = [Kept EXCEPT ![d] = Kept'[d]]
         /\ Kept'[d] \in SUBSET ((Kept[d] \cup {active[d]}) \ {Absent})
         /\ active[d] \in Kept'[d] \cup {Absent}
<1>t. /\ backups \in [Datasets -> [Clock -> Stored]]
      /\ clock \in Clock
  BY DEF TypeOK
<1>1. CASE files[d] = Absent
  <2>1. Kept' = Kept
    BY <1>1 DEF BackupFile, Kept
  <2> QED
    BY <1>1, <2>1 DEF Kept
<1>2. CASE files[d] # Absent
  <2>1. backups' = [backups EXCEPT ![d][clock] = files[d]]
    BY <1>2 DEF BackupFile
  <2>2. /\ backups'[d][clock] = files[d]
        /\ \A t \in Clock \ {clock} : backups'[d][t] = backups[d][t]
        /\ \A e \in Datasets \ {d} : backups'[e] = backups[e]
    BY <1>t, <2>1
  <2>3. \A e \in Datasets \ {d} : Kept'[e] = Kept[e]
    BY <2>2 DEF Kept
  <2>4. Kept' = [Kept EXCEPT ![d] = Kept'[d]]
    BY <2>3 DEF Kept
  <2>5. Kept'[d] \subseteq Kept[d] \cup {files[d]}
    BY <2>2 DEF Kept
  <2>6. Absent \notin Kept'[d]
    BY DEF Kept
  <2>7. files[d] \in Kept'[d]
    BY <1>t, <1>2, <2>2 DEF Kept
  <2> QED
    BY <2>4, <2>5, <2>6, <2>7
<1> QED
  BY <1>1, <1>2

\* The first step of a change is the abstract call.
LEMMA ChangeIsAsked ==
  ASSUME AInv, LInv', ~faulted', NEW w \in Workers, LockedBegin(w),
         NEW d \in Datasets, BackupFile(d), NEW doc, NEW force \in BOOLEAN,
         pc'[w] \in {"write", "removeLoad"},
         AskedOf(w)' = [by |-> w, ds |-> d, doc |-> doc, force |-> force,
                        fate |-> "open"],
         \/ doc \in Inputs[d]
         \/ doc \in Kept[d] /\ force
         \/ doc = Absent /\ active[d] # Absent /\ force
  PROVE  Atomic!AtomicNext
<1>1. /\ mutex = Free /\ mutex' = w
      /\ UNCHANGED <<rows, active, faulted>>
      /\ answer' = Silent
  BY BeginTakesLock
<1>2. active = files /\ TypeOK
  BY <1>1 DEF AInv, FInv, SInv, LInv
<1>3. Asked = {} /\ Asked' = {AskedOf(w)'}
  BY <1>1, AskedIs, AskedIsNext DEF AInv, FInv, PutSteps, RemoveSteps
<1>4. Atomic!Ask(w, d, doc, force)
  BY <1>1, <1>2, <1>3, KeptGrows DEF Atomic!Ask, Atomic!Busy
<1> QED
  BY <1>4 DEF Atomic!AtomicNext

LEMMA BeginIsAtomic ==
  ASSUME AInv, LInv', ~faulted', NEW w \in Workers, LockedBegin(w)
  PROVE  Atomic!AtomicNext
<1>t. /\ TypeOK /\ LInv
      /\ mutex = Free /\ mutex' = w
      /\ UNCHANGED <<rows, active, faulted>>
      /\ answer' = Silent
      /\ active = files
  BY BeginTakesLock DEF AInv, FInv, SInv, LInv
<1>1. ASSUME NEW d \in Datasets, NEW doc, NEW force \in BOOLEAN,
             NEW o \in {"put", "restore"}, BeginWrite(w, o, d, doc, force),
             doc \in Inputs[d] \/ (doc \in Kept[d] /\ force)
      PROVE  Atomic!AtomicNext
  <2>1. /\ pc'[w] = "write"
        /\ job'[w].op = o /\ job'[w].ds = d /\ job'[w].doc = doc
        /\ job'[w].force = force
        /\ BackupFile(d)
    BY <1>1, <1>t DEF BeginWrite, TypeOK, NoJob, Go
  <2>2. AskedOf(w)' = [by |-> w, ds |-> d, doc |-> doc, force |-> force,
                       fate |-> "open"]
    BY <1>1, <2>1 DEF AskedOf, Fate
  <2> QED
    BY <1>1, <2>1, <2>2, ChangeIsAsked
<1>2. ASSUME NEW d \in Datasets, RemoveBegin(w, d)
      PROVE  Atomic!AtomicNext
  <2>1. /\ pc'[w] = "removeLoad"
        /\ job'[w].op = "remove" /\ job'[w].ds = d /\ job'[w].doc = Absent
        /\ BackupFile(d) /\ active[d] # Absent
    BY <1>2, <1>t DEF RemoveBegin, TypeOK, NoJob, Go
  <2>2. AskedOf(w)' = [by |-> w, ds |-> d, doc |-> Absent, force |-> TRUE,
                       fate |-> "open"]
    BY <2>1 DEF AskedOf, Fate
  <2> QED
    BY <2>1, <2>2, ChangeIsAsked
<1>3. CASE ReloadBegin(w) \/ RecompileBegin(w)
  <2>1. pc'[w] \in {"materialize", "load"} /\ backups' = backups
    BY <1>3, <1>t DEF ReloadBegin, ReloadStart, RecompileBegin, TypeOK, Go, store
  <2>2. Asked = {} /\ Asked' = {} /\ Kept' = Kept
    BY <1>t, <2>1, AskedIs, AskedIsNext DEF PutSteps, RemoveSteps, Kept
  <2> QED
    BY <1>t, <2>2 DEF Atomic!AtomicNext, Atomic!Pass
<1>4. ASSUME NEW d \in Datasets, NEW force \in BOOLEAN, NEW doc \in Inputs[d],
             PutBegin(w, d, doc, force)
      PROVE  Atomic!AtomicNext
  BY <1>1, <1>4 DEF PutBegin
<1>5. ASSUME NEW d \in Datasets, NEW t \in Clock, RestoreBegin(w, d, t)
      PROVE  Atomic!AtomicNext
  <2>1. backups[d][t] \in Kept[d]
    BY <1>5, ValuesAssumption DEF RestoreBegin, Kept
  <2> QED
    BY <1>1, <1>5, <2>1 DEF RestoreBegin
<1> QED
  BY <1>2, <1>3, <1>4, <1>5 DEF LockedBegin

\* The handler's judgement is the abstract one.
LEMMA ValidIs ==
  ASSUME AInv, ~faulted, NEW w \in Workers, pc[w] \in {"compile", "removeLoad"}
  PROVE  /\ Atomic!After(AskedOf(w)) = files
         /\ pc[w] = "compile" => (Atomic!Valid(AskedOf(w)) <=> Acceptable(w))
         /\ pc[w] = "removeLoad" => (Atomic!Valid(AskedOf(w)) <=> Compiles(files))
<1> DEFINE r == AskedOf(w)
<1>1. /\ files \in [Datasets -> Stored] /\ active \in [Datasets -> Stored]
      /\ r.ds = job[w].ds /\ r.ds \in Datasets /\ r.doc = job[w].doc
      /\ r.force = (job[w].force \/ job[w].op = "remove")
  BY DEF AInv, FInv, LInv, TypeOK, Job, AskedOf
<1>2. Distance(w) /\ Judged(w) /\ Phase(w)
  BY DEF AInv, FInv, SInv, LInv
<1>3. Atomic!After(r) = files
  BY <1>1, <1>2 DEF Distance, Judged, RemoveSteps, Atomic!After
<1>4. Errors[files][r.ds] = ErrorCount(files, job[w].ds)
  BY <1>1 DEF Errors
<1>5. Errors[active][r.ds] = ErrorCount(active, job[w].ds)
  BY <1>1 DEF Errors
<1>6. files \in Catalogs <=> Compiles(files)
  BY <1>1 DEF Catalogs
<1>7. CASE pc[w] = "compile"
  <2>1. r.force = job[w].force
    BY <1>1, <1>2, <1>7 DEF Phase, PutSteps, TypeOK, AInv, FInv, LInv, Job
  <2>2. job[w].errs = ErrorCount(active, job[w].ds)
    BY <1>2, <1>7 DEF Judged
  <2> QED
    BY <1>3, <1>4, <1>5, <1>6, <1>7, <2>1, <2>2 DEF Atomic!Valid, Acceptable
<1>8. CASE pc[w] = "removeLoad"
  <2>1. r.force
    BY <1>1, <1>2, <1>8 DEF Judged, RemoveSteps
  <2> QED
    BY <1>3, <1>6, <1>8, <2>1 DEF Atomic!Valid
<1> QED
  BY <1>3, <1>7, <1>8

\* What a change replaces is kept until it takes effect.
LEMMA ReplacedIsKept ==
  ASSUME AInv, ~faulted, NEW w \in Workers, pc[w] \in {"compile", "removeLoad"}
  PROVE  active[job[w].ds] \in Kept[job[w].ds] \cup {Absent}
<1>1. /\ BackupHolds(w) /\ job[w].before = active[job[w].ds]
      /\ job[w].ds \in Datasets
  BY DEF AInv, FInv, SInv, LInv, Distance, PutSteps, RemoveSteps, TypeOK, Job
<1> QED
  BY <1>1 DEF BackupHolds, Kept

\* A step of the worker that holds the lock: what is asked before and after.
LEMMA HolderAsks ==
  ASSUME AInv, LInv', NEW w \in Workers, mutex = w, backups' = backups
  PROVE  /\ Kept' = Kept
         /\ pc[w] \in PutSteps \cup RemoveSteps => Asked = {AskedOf(w)}
         /\ pc[w] \notin PutSteps \cup RemoveSteps => Asked = {}
         /\ mutex' = w /\ pc'[w] \in PutSteps \cup RemoveSteps
              => Asked' = {AskedOf(w)'}
         /\ mutex' = w /\ pc'[w] \notin PutSteps \cup RemoveSteps => Asked' = {}
         /\ mutex' = Free => Asked' = {}
BY AskedIs, AskedIsNext DEF AInv, FInv, Kept

LEMMA PutIsAtomic ==
  ASSUME AInv, LInv', ~faulted, ~faulted', NEW w \in Workers, PutStep(w)
  PROVE  Atomic!AtomicNext
<1> USE DEF PutSteps, RemoveSteps
<1> DEFINE r == AskedOf(w)
<1>1. /\ TypeOK /\ mutex = w /\ pc[w] \in PutSteps
      /\ backups' = backups
      /\ SInv /\ LInv /\ Distance(w) /\ Phase(w) /\ Judged(w)
  BY DEF AInv, FInv, SInv, LInv, LockDiscipline, CriticalSteps, PutStep,
     PutWrite, PutWriteFails, PutAccept, PutReject, PutRollback,
     PutRollbackFails, PutPersist, PutPersistFails, store
<1>2. /\ Kept' = Kept /\ Asked = {r}
      /\ mutex' = w /\ pc'[w] \in PutSteps => Asked' = {AskedOf(w)'}
      /\ mutex' = Free => Asked' = {}
  BY <1>1, HolderAsks
<1>3. /\ r.by = w /\ r.ds = job[w].ds /\ r.doc = job[w].doc
      /\ r.fate = Fate(pc[w])
      /\ \A f : [r EXCEPT !.fate = f] =
           [by |-> w, ds |-> job[w].ds, doc |-> job[w].doc,
            force |-> job[w].force \/ job[w].op = "remove", fate |-> f]
  BY DEF AskedOf
<1>4. ASSUME Atomic!Apply(r) \/ Atomic!Store(r) \/ Atomic!Refuse(r) \/ Atomic!Reject(r)
      PROVE  Atomic!AtomicNext
  BY <1>2, <1>4 DEF Atomic!AtomicNext
<1>5. CASE PutWrite(w)
  <2>1. /\ mutex' = w /\ pc'[w] = "compile" /\ job' = job /\ pc[w] = "write"
        /\ answer' = Silent /\ UNCHANGED <<active, rows, faulted>>
    BY <1>1, <1>5 DEF PutWrite, Go, TypeOK, Quiet
  <2>2. AskedOf(w)' = r
    BY <2>1 DEF AskedOf, Fate
  <2> QED
    BY <1>2, <2>1, <2>2 DEF Atomic!AtomicNext, Atomic!Pass
<1>6. CASE PutAccept(w)
  <2>1. /\ pc[w] = "compile" /\ r.fate = "open" /\ Atomic!Valid(r)
        /\ active[r.ds] \in Kept[r.ds] \cup {Absent}
        /\ active' = Atomic!After(r)
        /\ UNCHANGED <<rows, faulted>>
    BY <1>3, <1>6, ValidIs, ReplacedIsKept DEF PutAccept, Publish, Fate
  <2>2. CASE InDB
    <3>1. /\ mutex' = w /\ pc'[w] = "persist" /\ job' = job /\ answer' = Silent
      BY <1>1, <1>6, <2>2 DEF PutAccept, Go, TypeOK, Quiet
    <3>2. AskedOf(w)' = [r EXCEPT !.fate = "applied"]
      BY <1>3, <3>1 DEF AskedOf, Fate
    <3>3. Atomic!Meets(r, "applied")
      BY <1>2, <3>1, <3>2 DEF Atomic!Meets
    <3> QED
      BY <1>2, <1>4, <2>1, <2>2, <3>1, <3>3 DEF Atomic!Apply
  <2>3. CASE ~InDB
    <3>1. mutex' = Free /\ answer' = <<w, "applied">>
      BY <1>6, <2>3 DEF PutAccept, Unlock, Finish
    <3>2. Atomic!Answer(r, "applied")
      BY <1>2, <1>3, <3>1 DEF Atomic!Answer
    <3> QED
      BY <1>2, <1>4, <2>1, <2>3, <3>2 DEF Atomic!Apply
  <2> QED
    BY <2>2, <2>3
<1>7. CASE PutReject(w)
  <2>1. /\ r.fate = "open" /\ ~Atomic!Valid(r)
        /\ UNCHANGED <<active, rows, faulted>>
        /\ mutex' = w /\ pc'[w] = "rollback" /\ job' = job /\ answer' = Silent
    BY <1>1, <1>3, <1>7, ValidIs DEF PutReject, Fate, Go, Quiet, TypeOK, store
  <2>2. r.doc # Absent
    BY <1>1, <1>3, ValuesAssumption DEF Judged
  <2>3. AskedOf(w)' = [r EXCEPT !.fate = "refused"]
    BY <1>3, <2>1 DEF AskedOf, Fate
  <2>4. Atomic!Meets(r, "refused")
    BY <1>2, <2>1, <2>3 DEF Atomic!Meets
  <2> QED
    BY <1>2, <1>4, <2>1, <2>2, <2>4 DEF Atomic!Refuse
<1>8. CASE PutRollback(w)
  <2>1. /\ r.fate = "refused" /\ mutex' = Free /\ answer' = <<w, "rejected">>
        /\ UNCHANGED <<rows, faulted>>
        /\ files' = Restored(w)
    BY <1>3, <1>8 DEF PutRollback, RolledBack, Fault, Fate, Unlock, Finish
  <2>2. active' = active
    BY <1>1, <1>8, <2>1, RestoredIsActive
    DEF PutRollback, PublishIfCompiles, Publish, Keep
  <2>3. Atomic!Answer(r, "rejected")
    BY <1>2, <1>3, <2>1 DEF Atomic!Answer
  <2> QED
    BY <1>2, <1>4, <2>1, <2>2, <2>3 DEF Atomic!Reject
<1>9. CASE PutPersist(w)
  <2>1. /\ r.fate = "applied" /\ mutex' = Free /\ answer' = <<w, "applied">>
        /\ UNCHANGED <<active, faulted>>
    BY <1>3, <1>9 DEF PutPersist, Fate, Unlock, Finish
  <2>2. rows' = [rows EXCEPT ![r.ds] = active[r.ds]]
    BY <1>1, <1>3, <1>9 DEF PutPersist, Distance, Phase
  <2>3. Atomic!Answer(r, "applied")
    BY <1>2, <1>3, <2>1 DEF Atomic!Answer
  <2> QED
    BY <1>2, <1>4, <2>1, <2>2, <2>3 DEF Atomic!Store
<1> QED
  BY <1>5, <1>6, <1>7, <1>8, <1>9
  DEF PutStep, PutWriteFails, PutRollbackFails, PutPersistFails, Fault

LEMMA RemoveIsAtomic ==
  ASSUME AInv, LInv', ~faulted, ~faulted', NEW w \in Workers, RemoveStep(w)
  PROVE  Atomic!AtomicNext
<1> USE DEF PutSteps, RemoveSteps
<1> DEFINE r == AskedOf(w)
<1>1. /\ TypeOK /\ mutex = w /\ pc[w] \in RemoveSteps
      /\ backups' = backups
      /\ SInv /\ LInv /\ Distance(w) /\ Judged(w)
  BY DEF AInv, FInv, SInv, LInv, LockDiscipline, CriticalSteps, RemoveStep,
     RemovePublish, RemoveUndo, RemoveRow
<1>2. /\ Kept' = Kept /\ Asked = {r}
      /\ mutex' = w /\ pc'[w] \in RemoveSteps => Asked' = {AskedOf(w)'}
      /\ mutex' = Free => Asked' = {}
  BY <1>1, HolderAsks
<1>3. /\ r.by = w /\ r.ds = job[w].ds /\ r.doc = Absent
      /\ r.fate = Fate(pc[w])
      /\ \A f : [r EXCEPT !.fate = f] =
           [by |-> w, ds |-> job[w].ds, doc |-> job[w].doc,
            force |-> job[w].force \/ job[w].op = "remove", fate |-> f]
  BY <1>1 DEF AskedOf, Judged
<1>4. ASSUME Atomic!Apply(r) \/ Atomic!Store(r) \/ Atomic!Refuse(r)
      PROVE  Atomic!AtomicNext
  BY <1>2, <1>4 DEF Atomic!AtomicNext
<1>5. CASE RemovePublish(w)
  <2>1. /\ r.fate = "open" /\ Atomic!Valid(r)
        /\ active[r.ds] \in Kept[r.ds] \cup {Absent}
        /\ active' = Atomic!After(r)
        /\ UNCHANGED <<rows, faulted>>
    BY <1>3, <1>5, ValidIs, ReplacedIsKept DEF RemovePublish, Publish, Fate
  <2>2. CASE InDB
    <3>1. /\ mutex' = w /\ pc'[w] = "removeRow" /\ job' = job /\ answer' = Silent
      BY <1>1, <1>5, <2>2 DEF RemovePublish, Go, TypeOK, Quiet
    <3>2. AskedOf(w)' = [r EXCEPT !.fate = "applied"]
      BY <1>3, <3>1 DEF AskedOf, Fate
    <3>3. Atomic!Meets(r, "applied")
      BY <1>2, <3>1, <3>2 DEF Atomic!Meets
    <3> QED
      BY <1>2, <1>4, <2>1, <2>2, <3>1, <3>3 DEF Atomic!Apply
  <2>3. CASE ~InDB
    <3>1. mutex' = Free /\ answer' = <<w, "applied">>
      BY <1>5, <2>3 DEF RemovePublish, Unlock, Finish
    <3>2. Atomic!Answer(r, "applied")
      BY <1>2, <1>3, <3>1 DEF Atomic!Answer
    <3> QED
      BY <1>2, <1>4, <2>1, <2>3, <3>2 DEF Atomic!Apply
  <2> QED
    BY <2>2, <2>3
<1>6. CASE RemoveUndo(w)
  <2>1. /\ r.fate = "open" /\ ~Atomic!Valid(r)
        /\ mutex' = Free /\ answer' = <<w, "error">>
        /\ UNCHANGED <<rows, faulted>>
    BY <1>3, <1>6, ValidIs DEF RemoveUndo, Fate, Unlock, Finish, Fault
  <2>2. active' = active
    BY <1>1, <1>6, RestoredIsActive
    DEF RemoveUndo, PublishIfCompiles, Publish, Keep, Fault
  <2>3. Atomic!Answer(r, "error")
    BY <1>2, <1>3, <2>1 DEF Atomic!Answer
  <2> QED
    BY <1>2, <1>3, <1>4, <2>1, <2>2, <2>3 DEF Atomic!Refuse
<1>7. CASE RemoveRow(w)
  <2>1. /\ r.fate = "applied" /\ mutex' = Free /\ answer' = <<w, "applied">>
        /\ UNCHANGED <<active, faulted>>
    BY <1>3, <1>7 DEF RemoveRow, Fate, Unlock, Finish, Fault
  <2>2. rows' = [rows EXCEPT ![r.ds] = active[r.ds]]
    BY <1>1, <1>3, <1>7 DEF RemoveRow, Distance, Fault
  <2>3. Atomic!Answer(r, "applied")
    BY <1>2, <1>3, <2>1 DEF Atomic!Answer
  <2> QED
    BY <1>2, <1>4, <2>1, <2>2, <2>3 DEF Atomic!Store
<1> QED
  BY <1>5, <1>6, <1>7 DEF RemoveStep

\* A reload of files that agree publishes what is published.
LEMMA ReloadIsAtomic ==
  ASSUME AInv, LInv', ~faulted, ~faulted', NEW w \in Workers, ReloadStep(w)
  PROVE  Atomic!AtomicNext
<1> USE DEF PutSteps, RemoveSteps
<1>1. /\ TypeOK /\ mutex = w /\ pc[w] \in {"materialize", "load"}
      /\ backups' = backups /\ rows' = rows
      /\ SInv /\ LInv /\ Distance(w)
  BY DEF AInv, FInv, SInv, LInv, LockDiscipline, CriticalSteps, ReloadStep,
     ReloadListFails, MaterializeFails, Materialize, LoadAndPublish, store
<1>2. /\ Kept' = Kept /\ Asked = {}
      /\ mutex' = w /\ pc'[w] \notin PutSteps \cup RemoveSteps => Asked' = {}
      /\ mutex' = Free => Asked' = {}
  BY <1>1, HolderAsks
<1>3. CASE Materialize(w)
  <2>1. /\ mutex' = w /\ pc'[w] = "load" /\ answer' = Silent
        /\ UNCHANGED <<active, faulted>>
    BY <1>1, <1>3 DEF Materialize, Go, TypeOK, Quiet
  <2> QED
    BY <1>1, <1>2, <2>1 DEF Atomic!AtomicNext, Atomic!Pass
<1>4. CASE LoadAndPublish(w)
  <2>1. active = files /\ Compiles(files)
    BY <1>1, <1>4 DEF LoadAndPublish, Distance, AInv, ActiveCompiles
  <2>2. /\ mutex' = Free /\ answer' = <<w, "applied">>
        /\ UNCHANGED <<active, faulted>>
    BY <1>4, <2>1
    DEF LoadAndPublish, PublishIfCompiles, Publish, Unlock, Finish
  <2>3. Atomic!Confirm(w)
    BY <1>1, <1>2, <2>2 DEF Atomic!Confirm, Atomic!Busy
  <2> QED
    BY <2>3 DEF Atomic!AtomicNext
<1> QED
  BY <1>3, <1>4 DEF ReloadStep, ReloadListFails, MaterializeFails, Fault

\* The handlers under dataMu keep the promise of AtomicStore to their callers:
\* every change is one step, for readers, backups and rows alike, its answer
\* says what became of it, and overlapping requests do not mix
\* (putDatasetLocked, removeDataset, reloadCatalog, until a write fails).
THEOREM StoreIsAtomic == LockedSpec => ImplementsAtomicStore
<1>1. Init => Atomic!AtomicInit
  <2> SUFFICES ASSUME Init PROVE Atomic!AtomicInit
    OBVIOUS
  <2>1. active \in [Datasets -> Stored] /\ active \in Catalogs
    BY InitType DEF Init, TypeOK, Catalogs
  <2>2. Asked = {}
    BY DEF Init, Asked, PutSteps, RemoveSteps
  <2>3. Kept = [d \in Datasets |-> {}]
    BY DEF Init, Kept
  <2> QED
    BY <2>1, <2>2, <2>3 DEF Init, Atomic!AtomicInit
<1>2. AInv /\ AInv' /\ [LockedNext]_vars => [Atomic!AtomicNext]_Atomic!promised
  <2> SUFFICES ASSUME AInv, LInv', [LockedNext]_vars
               PROVE  Atomic!AtomicNext \/ UNCHANGED Atomic!promised
    BY DEF AInv, FInv
  <2>1. CASE faulted'
    BY <2>1 DEF Atomic!AtomicNext
  <2>2. CASE ~faulted'
    <3>1. ~faulted
      BY <2>2, FaultedStays
    <3>2. CASE UNCHANGED vars
      BY <3>2 DEF vars, Atomic!promised, Kept, Asked, AskedOf
    <3>3. CASE Tick
      <4>1. /\ answer' = Silent /\ UNCHANGED <<active, rows, faulted>>
            /\ Kept' = Kept /\ Asked' = Asked
        BY <3>3 DEF Tick, Quiet, store, Kept, Asked, AskedOf
      <4> QED
        BY <4>1 DEF Atomic!AtomicNext, Atomic!Pass
    <3> QED
      BY <2>2, <3>1, <3>2, <3>3, BeginIsAtomic, PutIsAtomic, RemoveIsAtomic,
         ReloadIsAtomic, FailedBeginFacts
      DEF LockedNext, LockedStep, Fault
  <2> QED
    BY <2>1, <2>2
<1> QED
  BY <1>1, <1>2, AInvInvariant, PTL
  DEF LockedSpec, ImplementsAtomicStore, Atomic!AtomicSpec

-----------------------------------------------------------------------------
(* The locked handlers on a server that dies and is started again.         *)

\* Nobody applies a metadata sync or learns from feedback.
OnlyLocked == Ops \cap {"sync", "learn"} = {}

\* The inductive invariant: a server that is down has no request under way,
\* one that is up and whose writes all succeeded has its stores together.
CInv ==
  /\ LInv
  /\ HeldBackups
  /\ up \/ mutex = Free
  /\ up /\ ~faulted => SInv
  /\ InDB /\ ~faulted => Compiles(rows)

LEMMA OnlyLockedSteps ==
  ASSUME OnlyLocked, LInv, Next
  PROVE  LockedNext \/ Crash \/ Restart
<1> SUFFICES ASSUME NEW w \in Workers, UnlockedBegin(w) \/ UnlockedStep(w)
             PROVE  FALSE
  BY DEF Next
<1>1. pc[w] \in CriticalSteps \cup {"idle"}
  BY DEF LInv, Phase
<1>2. ~UnlockedBegin(w)
  BY DEF OnlyLocked, UnlockedBegin, SyncBegin, LearnBegin, Idle
<1>3. ~UnlockedStep(w)
  BY <1>1
  DEF CriticalSteps, UnlockedStep, SyncStep, SyncReload, LearnStep,
      SyncWritePhys, SyncRenamePhys, SyncReadRel, SyncWriteRel, SyncRenameRel,
      SyncWriteFails, PersistRead, PersistWrite, PersistFails, LearnOpen,
      LearnWrite, LearnWriteFails, LearnInstall
<1> QED
  BY <1>2, <1>3

\* Whoever takes a step finds the server running.
LEMMA StepsNeedServer ==
  ASSUME LInv, up \/ mutex = Free, NEW w \in Workers,
         LockedBegin(w) \/ FailedBegin(w) \/ LockedStep(w)
  PROVE  up
<1>1. CASE LockedBegin(w)
  BY <1>1 DEF LockedBegin, PutBegin, RestoreBegin, RemoveBegin, ReloadBegin,
     RecompileBegin, Idle
<1>2. CASE LockedStep(w)
  <2>1. pc[w] \in CriticalSteps
    BY <1>2 DEF LockedStep, PutStep, RemoveStep, ReloadStep, PutWrite,
       PutWriteFails, PutAccept, PutReject, PutRollback, PutRollbackFails,
       PutPersist, PutPersistFails, RemovePublish, RemoveUndo, RemoveRow,
       ReloadListFails, MaterializeFails, Materialize, LoadAndPublish,
       CriticalSteps
  <2> QED
    BY <2>1, ValuesAssumption DEF LInv, LockDiscipline
<1> QED
  BY <1>1, <1>2, FailedBeginFacts

\* Only the last step of a put or a remove changes a row.
LEMMA RowsMove ==
  ASSUME [LockedNext]_vars
  PROVE  \/ rows' = rows
         \/ \E w \in Workers : PutPersist(w) \/ RemoveRow(w)
<1>1. ASSUME NEW w \in Workers, LockedBegin(w) PROVE rows' = rows
  BY <1>1 DEF LockedBegin, PutBegin, RestoreBegin, BeginWrite, RemoveBegin,
     ReloadBegin, ReloadStart, RecompileBegin, store
<1>2. ASSUME NEW w \in Workers, LockedStep(w), ~PutPersist(w), ~RemoveRow(w)
      PROVE  rows' = rows
  BY <1>2 DEF LockedStep, PutStep, RemoveStep, ReloadStep, PutWrite,
     PutWriteFails, PutAccept, PutReject, PutRollback, PutRollbackFails,
     PutPersistFails, RemovePublish, RemoveUndo, ReloadListFails,
     MaterializeFails, Materialize, LoadAndPublish, store
<1> QED
  BY <1>1, <1>2, FailedBeginFacts DEF LockedNext, Tick, vars, store

\* What is committed compiles with the rows that are there.
LEMMA CommitCompiles ==
  ASSUME SInv, [LockedNext]_vars, Compiles(rows)
  PROVE  Compiles(rows')
<1>t. TypeOK
  BY DEF SInv, LInv
<1>1. ASSUME NEW w \in Workers, PutPersist(w) PROVE Compiles(rows')
  <2>1. /\ rows = [files EXCEPT ![job[w].ds] = job[w].before]
        /\ files[job[w].ds] = job[w].doc
        /\ Compiles(files)
    BY <1>1 DEF PutPersist, SInv, LInv, Phase, Distance, PutSteps
  <2>2. rows' = files
    BY <1>1, <1>t, <2>1 DEF PutPersist, TypeOK
  <2> QED
    BY <2>1, <2>2
<1>2. ASSUME NEW w \in Workers, RemoveRow(w) PROVE Compiles(rows')
  <2>1. job[w].ds \notin Required
    BY <1>2 DEF RemoveRow, SInv, LInv, Phase, RemoveSteps
  <2>2. \A d \in Required : rows'[d] = rows[d]
    BY <1>2, <1>t, <2>1, DatasetsAssumption DEF RemoveRow, TypeOK
  <2> QED
    BY <2>2 DEF Compiles
<1> QED
  BY <1>1, <1>2, RowsMove

LEMMA CrashKeeps ==
  ASSUME CInv, Crash
  PROVE  CInv'
<1>1. TypeOK'
  BY ProcessType DEF CInv, LInv
<1>2. \A w \in Workers : pc'[w] = "idle"
  BY DEF Crash
<1>3. mutex' = Free /\ ~up' /\ rows' = rows /\ faulted' = faulted
  BY DEF Crash
<1>4. LockDiscipline'
  BY <1>2, <1>3, ValuesAssumption DEF LockDiscipline, CriticalSteps
<1>5. DBAlwaysDecodes'
  BY <1>3 DEF CInv, LInv, DBAlwaysDecodes, Decodable
<1>6. LInv'
  BY <1>1, <1>2, <1>4, <1>5, IdlePhase DEF LInv
<1>7. HeldBackups'
  BY <1>2 DEF HeldBackups, PutSteps, RemoveSteps
<1> QED
  BY <1>3, <1>6, <1>7 DEF CInv, Compiles, Decodable

\* main and InitDatasetStore bring the three stores together.
LEMMA RestartAgrees ==
  ASSUME TypeOK, Restart, up'
  PROVE  active' = files' /\ RowsAgree(files)'
<1>1. files' = Materialized(files, rows') /\ active' = files'
  BY DEF Restart, PublishIfCompiles, Publish
<1>2. ASSUME InDB PROVE rows' = files'
  <2>1. \A d \in Datasets : rows'[d] = Absent => files[d] = Absent
    BY <1>2 DEF Restart, Imported
  <2>2. \A d \in Datasets : files'[d] = rows'[d]
    BY <1>1, <2>1 DEF Materialized
  <2>3. /\ rows' = [d \in Datasets |-> rows'[d]]
        /\ files' = [d \in Datasets |-> files'[d]]
    BY <1>1, <1>2 DEF Restart, Imported, Materialized
  <2> QED
    BY <2>2, <2>3
<1> QED
  BY <1>1, <1>2 DEF RowsAgree

LEMMA RestartKeeps ==
  ASSUME CInv, Restart
  PROVE  CInv'
<1>t. TypeOK /\ TypeOK'
  BY ProcessType DEF CInv, LInv
<1>1. mutex' = Free /\ mutex = Free /\ pc' = pc /\ faulted' = faulted
  BY DEF Restart, CInv
<1>2. \A w \in Workers : pc'[w] = "idle"
  BY <1>1, ValuesAssumption DEF CInv, LInv, LockDiscipline, Phase
<1>3. ASSUME InDB
      PROVE  \A d \in Required : rows'[d] = rows[d] /\ Decodable(rows[d])
  <2> TAKE d \in Required
  <2>1. Decodable(rows[d])
    BY <1>3 DEF CInv, LInv, DBAlwaysDecodes
  <2>2. rows[d] # Absent
    BY <2>1, ValuesAssumption DEF Decodable
  <2> QED
    BY <2>1, <2>2, <1>3, DatasetsAssumption DEF Restart, Imported
<1>4. DBAlwaysDecodes'
  BY <1>3 DEF DBAlwaysDecodes, Decodable
<1>5. LockDiscipline'
  BY <1>1 DEF CInv, LInv, LockDiscipline
<1>6. LInv'
  BY <1>t, <1>2, <1>4, <1>5, IdlePhase DEF LInv
<1>7. HeldBackups'
  BY <1>2 DEF HeldBackups, PutSteps, RemoveSteps
<1>8. up' => SInv'
  BY <1>t, <1>2, <1>6, RestartAgrees, IdleDistance DEF SInv
<1>9. InDB /\ ~faulted' => Compiles(rows')
  BY <1>1, <1>3 DEF CInv, Compiles
<1> QED
  BY <1>1, <1>6, <1>7, <1>8, <1>9 DEF CInv, Compiles, Decodable

LEMMA LockedKeeps ==
  ASSUME CInv, [LockedNext]_vars
  PROVE  CInv'
<1>1. LInv' /\ HeldBackups'
  BY LInvNext, BackupsStayHeld DEF CInv
<1>2. up' = up
  BY StaysUp
<1>3. CASE up
  <2>1. ~faulted' => SInv'
    BY <1>3, FaultedStays, FailedBeginFacts, LockedBeginAgrees, PutAgrees,
       RemoveAgrees, ReloadAgrees, QuietAgrees
    DEF CInv, LockedNext, LockedStep, Fault
  <2>2. InDB /\ ~faulted' => Compiles(rows')
    BY <1>3, FaultedStays, CommitCompiles DEF CInv
  <2> QED
    BY <1>1, <1>2, <1>3, <2>1, <2>2 DEF CInv, Compiles, Decodable
<1>4. CASE ~up
  <2>1. Tick \/ UNCHANGED vars
    BY <1>4, StepsNeedServer DEF CInv, LockedNext
  <2>2. UNCHANGED <<rows, mutex, faulted>>
    BY <2>1 DEF Tick, vars, store
  <2> QED
    BY <1>1, <1>2, <1>4, <2>2 DEF CInv, Compiles, Decodable
<1> QED
  BY <1>3, <1>4

LEMMA CInvInvariant ==
  ASSUME OnlyLocked
  PROVE  Spec => []CInv
<1>1. Init => CInv
  <2> SUFFICES ASSUME Init PROVE CInv
    OBVIOUS
  <2>1. SInv /\ LInv
    BY SInvInit, LInvInit
  <2>2. HeldBackups
    BY DEF Init, HeldBackups, PutSteps, RemoveSteps
  <2>3. up /\ (InDB => Compiles(rows))
    BY DEF Init, Compiles
  <2> QED
    BY <2>1, <2>2, <2>3 DEF CInv
<1>2. CInv /\ [Next]_vars => CInv'
  BY OnlyLockedSteps, LockedKeeps, CrashKeeps, RestartKeeps DEF CInv
<1> QED
  BY <1>1, <1>2, PTL DEF Spec

\* Where every change goes through the handlers that hold dataMu and no write
\* has failed, the rows of the meta DB make a catalog at every moment, whenever
\* the process dies and is started again: rows that do not fit together come
\* from a metadata sync or a failed write (putDatasetLocked commits last,
\* remove_dataset refuses the core datasets).
THEOREM CommittedAlwaysCompile ==
  ASSUME OnlyLocked
  PROVE  Spec => [](faulted \/ DBAlwaysCompiles)
<1>1. CInv => faulted \/ DBAlwaysCompiles
  BY DEF CInv, DBAlwaysCompiles
<1> QED
  BY <1>1, CInvInvariant, PTL

\* What the locked handlers keep, they keep on a server that dies in the middle
\* of any of them and is started again (InitDatasetStore imports, materializes
\* and compiles again before the first request).
THEOREM CrashesKeepPromises ==
  ASSUME OnlyLocked
  PROVE  Spec => /\ []DBAlwaysDecodes
                 /\ []IdleAgreement
                 /\ RejectedPutRestores
                 /\ ChangeIsReversible
                 /\ ReloadFollowsDB
<1> DEFINE Rejected == \A w \in Workers, o \in {"put", "restore"} :
                         ~faulted' /\ Answers(w, o, "rejected")
                           => /\ files'[job[w].ds] = job[w].before
                              /\ active' = active
           Reversible == \A w \in Workers, o \in {"put", "restore", "remove"} :
                           Answers(w, o, "applied")
                             => \/ job[w].before = Absent
                                \/ \E t \in Clock :
                                     backups'[job[w].ds][t] = job[w].before
           Reloaded == \A w \in Workers :
                         InDB /\ Answers(w, "reload", "applied")
                           => \A d \in Datasets :
                                rows[d] # Absent => active'[d] = rows[d]
<1>1. CInv => DBAlwaysDecodes /\ IdleAgreement
  BY DEF CInv, LInv, SInv, RowsAgree, IdleAgreement
<1>2. ASSUME CInv, Next, NEW w \in Workers, NEW res \in {"applied", "rejected"},
             answer' = <<w, res>>
      PROVE  LockedNext /\ FInv
  <2>1. LockedNext
    BY <1>2, OnlyLockedSteps DEF CInv, Crash, Restart, Quiet, Silent
  <2>2. up
    BY <1>2, <2>1, AnswerStep, StepsNeedServer DEF CInv
  <2> QED
    BY <1>2, <2>1, <2>2 DEF CInv, FInv
<1>3. ASSUME CInv, [Next]_vars
      PROVE  (Rejected /\ Reversible /\ Reloaded) \/ UNCHANGED vars
  <2> SUFFICES ASSUME Next PROVE Rejected /\ Reversible /\ Reloaded
    BY <1>3
  <2>1. Rejected
    BY <1>2, <1>3, RejectedIsRestored DEF Answers
  <2>2. Reversible
    BY <1>2, <1>3, AppliedIsBackedUp DEF Answers, FInv
  <2>3. Reloaded
    BY <1>2, <1>3, ReloadedIsListed DEF Answers, FInv
  <2> QED
    BY <2>1, <2>2, <2>3
<1> QED
  BY <1>1, <1>3, CInvInvariant, PTL
  DEF Spec, RejectedPutRestores, ChangeIsReversible, ReloadFollowsDB

\* Where every change goes through the handlers that hold dataMu and no write
\* has failed, a reload that succeeds moves nothing: it publishes what is
\* published.  The learned rules that the run `learn' sees replaced are the doing
\* of a writer without dataMu and a row (reloadCatalog, LearnFromFeedback).
THEOREM ReloadsMoveNothing ==
  ASSUME OnlyLocked
  PROVE  Spec => [][\A w \in Workers :
                      ~faulted /\ Answers(w, "reload", "applied")
                        => active' = active]_vars
<1> DEFINE Unmoved == \A w \in Workers :
                        ~faulted /\ Answers(w, "reload", "applied")
                          => active' = active
<1>1. ASSUME CInv, Next, NEW w \in Workers, ~faulted, Answers(w, "reload", "applied")
      PROVE  active' = active
  <2>1. LockedNext
    BY <1>1, OnlyLockedSteps DEF CInv, Crash, Restart, Quiet, Silent, Answers
  <2>2. up
    BY <1>1, <2>1, AnswerStep, StepsNeedServer DEF CInv, Answers
  <2>3. LInv /\ SInv
    BY <1>1, <2>2 DEF CInv
  <2>4. LoadAndPublish(w) /\ active' = files
    BY <1>1, <2>1, <2>3, ReloadLoads
  <2>5. active = files
    BY <2>3, <2>4 DEF LoadAndPublish, SInv, Distance
  <2> QED
    BY <2>4, <2>5
<1>2. CInv /\ [Next]_vars => [Unmoved]_vars
  BY <1>1
<1> HIDE DEF Unmoved
<1> QED
  BY <1>2, CInvInvariant, PTL DEF Spec, Unmoved

-----------------------------------------------------------------------------
(* The rows of the required datasets, with learn steps and process deaths. *)

SyncSteps == {"syncPhys", "syncRenamePhys", "syncRel", "syncWriteRel",
              "syncRenameRel", "persistRead", "persistWrite", "reload"}

\* What is about to be committed to a required dataset was compiled before.
Vetted(w) ==
  LET j == job[w] IN
  /\ pc[w] \notin SyncSteps
  /\ pc[w] \in RemoveSteps => j.ds \notin Required
  /\ j.ds \in Required => /\ pc[w] = "write" => files[j.ds] = Torn
                          /\ pc[w] = "compile" => files[j.ds] = j.doc
                          /\ pc[w] = "persist" => Decodable(j.doc)

\* The inductive invariant of a server where nobody applies a metadata sync.
VInv ==
  /\ TypeOK
  /\ LockDiscipline
  /\ DBAlwaysDecodes
  /\ up \/ \A w \in Workers : pc[w] = "idle"
  /\ \A w \in Workers : Vetted(w)

\* A step of w that holds or takes the lock, or writes no required file.
LEMMA OthersStayVetted ==
  ASSUME VInv, NEW w \in Workers, NEW step, pc' = [pc EXCEPT ![w] = step],
         \A v \in Workers \ {w} : job'[v] = job[v],
         \/ mutex \in {w, Free}
         \/ \A d \in Required : files'[d] = files[d]
  PROVE  \A v \in Workers \ {w} : Vetted(v)'
<1> TAKE v \in Workers \ {w}
<1>1. pc'[v] = pc[v] /\ job'[v] = job[v] /\ Vetted(v)
  BY DEF VInv, TypeOK
<1>2. CASE mutex \in {w, Free}
  <2>1. pc[v] \notin CriticalSteps
    BY <1>2, ValuesAssumption DEF VInv, LockDiscipline
  <2> QED
    BY <1>1, <2>1 DEF Vetted, CriticalSteps, RemoveSteps
<1>3. CASE \A d \in Required : files'[d] = files[d]
  BY <1>1, <1>3 DEF Vetted
<1> QED
  BY <1>2, <1>3

LEMMA BeginsVetted ==
  ASSUME VInv, NEW w \in Workers, LockedBegin(w)
  PROVE  Vetted(w)' /\ rows' = rows /\ mutex = Free
         /\ (\E step : pc' = [pc EXCEPT ![w] = step])
         /\ (\A v \in Workers \ {w} : job'[v] = job[v])
<1> USE DEF VInv, TypeOK
<1>1. ASSUME NEW o, NEW d \in Datasets, NEW doc, NEW force,
             BeginWrite(w, o, d, doc, force)
      PROVE  /\ pc'[w] = "write" /\ job'[w].ds = d /\ files'[d] = Torn
             /\ \A v \in Workers \ {w} : job'[v] = job[v]
  BY <1>1 DEF BeginWrite, Go, NoJob
<1>2. ASSUME NEW d \in Datasets, RemoveBegin(w, d)
      PROVE  /\ pc'[w] = "removeLoad" /\ job'[w].ds = d /\ d \notin Required
             /\ \A v \in Workers \ {w} : job'[v] = job[v]
  BY <1>2 DEF RemoveBegin, Go, NoJob
<1>3. ASSUME ReloadBegin(w) \/ RecompileBegin(w)
      PROVE  /\ pc'[w] \in {"materialize", "load"}
             /\ \A v \in Workers \ {w} : job'[v] = job[v]
  BY <1>3 DEF ReloadBegin, ReloadStart, RecompileBegin, Go
<1>4. /\ rows' = rows /\ mutex = Free
      /\ \E step : pc' = [pc EXCEPT ![w] = step]
  BY DEF LockedBegin, PutBegin, RestoreBegin, BeginWrite, RemoveBegin,
     ReloadBegin, ReloadStart, RecompileBegin, Lock, Go, store
<1>5. ASSUME NEW d \in Datasets, NEW doc, NEW force, PutBegin(w, d, doc, force)
      PROVE  Vetted(w)' /\ \A v \in Workers \ {w} : job'[v] = job[v]
  BY <1>1, <1>5 DEF PutBegin, Vetted, SyncSteps, RemoveSteps
<1>6. ASSUME NEW d \in Datasets, NEW t, RestoreBegin(w, d, t)
      PROVE  Vetted(w)' /\ \A v \in Workers \ {w} : job'[v] = job[v]
  BY <1>1, <1>6 DEF RestoreBegin, Vetted, SyncSteps, RemoveSteps
<1>7. ASSUME NEW d \in Datasets, RemoveBegin(w, d)
      PROVE  Vetted(w)' /\ \A v \in Workers \ {w} : job'[v] = job[v]
  BY <1>2, <1>7 DEF Vetted, SyncSteps, RemoveSteps
<1>8. ASSUME ReloadBegin(w) \/ RecompileBegin(w)
      PROVE  Vetted(w)' /\ \A v \in Workers \ {w} : job'[v] = job[v]
  BY <1>3, <1>8 DEF Vetted, SyncSteps, RemoveSteps
<1> QED
  BY <1>4, <1>5, <1>6, <1>7, <1>8 DEF LockedBegin

LEMMA StepsStayVetted ==
  ASSUME VInv, NEW w \in Workers, LockedStep(w)
  PROVE  Vetted(w)' /\ DBAlwaysDecodes' /\ mutex = w
         /\ (\E step : pc' = [pc EXCEPT ![w] = step])
         /\ (\A v \in Workers \ {w} : job'[v] = job[v])
<1> USE DEF VInv, TypeOK
<1>j. job[w] \in Job /\ job[w].ds \in Datasets
  BY DEF Job
<1>0. ASSUME pc'[w] \in {"idle", "rollback", "load"} PROVE Vetted(w)'
  BY <1>0 DEF Vetted, SyncSteps, RemoveSteps
<1>1. /\ pc[w] \in CriticalSteps
      /\ \E step : pc' = [pc EXCEPT ![w] = step]
      /\ \A v \in Workers \ {w} : job'[v] = job[v]
  BY DEF LockedStep, PutStep, RemoveStep, ReloadStep, PutWrite, PutWriteFails,
     PutAccept, PutReject, PutRollback, PutRollbackFails, PutPersist,
     PutPersistFails, RemovePublish, RemoveUndo, RemoveRow, ReloadListFails,
     MaterializeFails, Materialize, LoadAndPublish, Finish, Go, CriticalSteps
<1>2. mutex = w
  BY <1>1 DEF LockDiscipline
<1>3. CASE PutWrite(w)
  <2>1. pc'[w] = "compile" /\ job' = job /\ rows' = rows /\ pc[w] = "write"
    BY <1>3 DEF PutWrite, Go
  <2>2. files[job[w].ds] = Torn => files'[job[w].ds] = job[w].doc
    BY <1>3, <1>j DEF PutWrite, Written
  <2> QED
    BY <1>1, <1>2, <2>1, <2>2
    DEF Vetted, SyncSteps, RemoveSteps, DBAlwaysDecodes
<1>4. CASE PutAccept(w)
  <2>1. /\ pc[w] = "compile" /\ Compiles(files) /\ rows' = rows
        /\ \/ pc'[w] = "idle"
           \/ pc'[w] = "persist" /\ job' = job
    BY <1>4 DEF PutAccept, Acceptable, Go, Finish
  <2>2. job[w].ds \in Required => Decodable(job[w].doc)
    BY <2>1 DEF Compiles, Vetted
  <2> QED
    BY <1>0, <1>1, <1>2, <2>1, <2>2
    DEF Vetted, SyncSteps, RemoveSteps, DBAlwaysDecodes
<1>5. CASE PutPersist(w)
  <2>1. /\ pc[w] = "persist" /\ pc'[w] = "idle"
        /\ rows' = [rows EXCEPT ![job[w].ds] = job[w].doc]
    BY <1>5 DEF PutPersist, Go, Finish
  <2>2. DBAlwaysDecodes'
    BY <1>j, <2>1, DatasetsAssumption DEF DBAlwaysDecodes, Decodable, Vetted
  <2> QED
    BY <1>0, <1>1, <1>2, <2>1, <2>2
<1>6. CASE RemovePublish(w)
  <2>1. /\ pc[w] = "removeLoad" /\ rows' = rows
        /\ \/ pc'[w] = "idle"
           \/ pc'[w] = "removeRow" /\ job' = job
    BY <1>6 DEF RemovePublish, Go, Finish
  <2> QED
    BY <1>0, <1>1, <1>2, <2>1
    DEF Vetted, SyncSteps, RemoveSteps, DBAlwaysDecodes
<1>7. CASE RemoveRow(w)
  <2>1. /\ pc[w] = "removeRow" /\ pc'[w] = "idle"
        /\ rows' = rows \/ rows' = [rows EXCEPT ![job[w].ds] = Absent]
    BY <1>7 DEF RemoveRow, Go, Finish
  <2>2. DBAlwaysDecodes'
    BY <1>j, <2>1, DatasetsAssumption
    DEF DBAlwaysDecodes, Decodable, Vetted, RemoveSteps
  <2> QED
    BY <1>0, <1>1, <1>2, <2>1, <2>2
<1>8. CASE \/ PutWriteFails(w) \/ PutReject(w) \/ PutRollback(w)
           \/ PutRollbackFails(w) \/ PutPersistFails(w) \/ RemoveUndo(w)
           \/ ReloadStep(w)
  <2>1. rows' = rows /\ pc'[w] \in {"idle", "rollback", "load"}
    BY <1>8 DEF PutWriteFails, PutReject, PutRollback, PutRollbackFails,
       PutPersistFails, RemoveUndo, ReloadStep, ReloadListFails,
       MaterializeFails, Materialize, LoadAndPublish, Finish, Go, store
  <2> QED
    BY <1>0, <1>1, <1>2, <2>1 DEF DBAlwaysDecodes
<1> QED
  BY <1>3, <1>4, <1>5, <1>6, <1>7, <1>8 DEF LockedStep, PutStep, RemoveStep

LEMMA LearnStaysVetted ==
  ASSUME VInv, NEW w \in Workers,
         LearnStep(w) \/ \E doc \in Inputs[Rules] : LearnBegin(w, doc)
  PROVE  Vetted(w)' /\ rows' = rows
         /\ (\A d \in Required : files'[d] = files[d])
         /\ (\E step : pc' = [pc EXCEPT ![w] = step])
         /\ (\A v \in Workers \ {w} : job'[v] = job[v])
<1> USE DEF VInv, TypeOK
<1>1. /\ rows' = rows
      /\ files' = files \/ \E doc : files' = [files EXCEPT ![Rules] = doc]
      /\ pc'[w] \in {"learnOpen", "learnWrite", "learnInstall", "idle"}
      /\ \E step : pc' = [pc EXCEPT ![w] = step]
      /\ \A v \in Workers \ {w} : job'[v] = job[v]
  BY DEF LearnStep, LearnBegin, LearnOpen, LearnWrite, LearnWriteFails,
     LearnInstall, Finish, Go
<1>2. \A d \in Required : files'[d] = files[d]
  BY <1>1, DatasetsAssumption
<1>3. Vetted(w)'
  BY <1>1 DEF Vetted, SyncSteps, RemoveSteps
<1> QED
  BY <1>1, <1>2, <1>3

\* Only a server that is up serves requests.
LEMMA ServingIsUp ==
  ASSUME VInv, NEW w \in Workers,
         LockedBegin(w) \/ LockedStep(w) \/ UnlockedBegin(w) \/ UnlockedStep(w)
  PROVE  up'
<1>1. CASE LockedBegin(w)
  <2>1. up
    BY <1>1 DEF LockedBegin, PutBegin, RestoreBegin, RemoveBegin, ReloadBegin,
       RecompileBegin, Idle
  <2>2. up' = up
    BY <1>1 DEF LockedBegin, PutBegin, RestoreBegin, BeginWrite, RemoveBegin,
       ReloadBegin, ReloadStart, RecompileBegin
  <2> QED
    BY <2>1, <2>2
<1>2. CASE UnlockedBegin(w)
  <2>1. up
    BY <1>2 DEF UnlockedBegin, SyncBegin, LearnBegin, Idle
  <2>2. up' = up
    BY <1>2 DEF UnlockedBegin, SyncBegin, LearnBegin
  <2> QED
    BY <2>1, <2>2
<1>3. CASE LockedStep(w)
  <2>1. pc[w] # "idle" /\ up' = up
    BY <1>3 DEF LockedStep, PutStep, RemoveStep, ReloadStep, PutWrite,
       PutWriteFails, PutAccept, PutReject, PutRollback, PutRollbackFails,
       PutPersist, PutPersistFails, RemovePublish, RemoveUndo, RemoveRow,
       ReloadListFails, MaterializeFails, Materialize, LoadAndPublish
  <2> QED
    BY <2>1 DEF VInv
<1>4. CASE UnlockedStep(w)
  <2>1. pc[w] # "idle" /\ up' = up
    BY <1>4 DEF UnlockedStep, SyncStep, SyncReload, ReloadStart, SyncWritePhys,
       SyncRenamePhys, SyncReadRel, SyncWriteRel, SyncRenameRel,
       SyncWriteFails, PersistRead, PersistWrite, PersistFails, LearnStep,
       LearnOpen, LearnWrite, LearnWriteFails, LearnInstall
  <2> QED
    BY <2>1 DEF VInv
<1> QED
  BY <1>1, <1>2, <1>3, <1>4

\* A request that fails before it touches the file changes nothing that counts.
LEMMA FailedStaysVetted ==
  ASSUME VInv, TypeOK', LockDiscipline', NEW w \in Workers, FailedBegin(w)
  PROVE  VInv'
<1>1. /\ mutex = Free /\ up
      /\ Finish(w, "error")
      /\ UNCHANGED <<files, rows, mutex, up>>
  BY FailedBeginFacts
<1>2. pc'[w] = "idle" /\ Vetted(w)'
  BY <1>1 DEF VInv, TypeOK, Finish, Go, Vetted, SyncSteps, RemoveSteps
<1>3. \A v \in Workers \ {w} : Vetted(v)'
  BY <1>1, OthersStayVetted DEF VInv, TypeOK, Finish, Go
<1> QED
  BY <1>1, <1>2, <1>3 DEF VInv, DBAlwaysDecodes, Decodable

LEMMA VInvNext ==
  ASSUME "sync" \notin Ops, VInv, TypeOK', LockDiscipline', [Next]_vars
  PROVE  VInv'
<1>1. ASSUME NEW w \in Workers, LockedBegin(w) PROVE VInv'
  <2>1. /\ Vetted(w)' /\ rows' = rows /\ mutex = Free
        /\ \E step : pc' = [pc EXCEPT ![w] = step]
        /\ \A v \in Workers \ {w} : job'[v] = job[v]
    BY <1>1, BeginsVetted
  <2>2. up'
    BY <1>1, ServingIsUp
  <2>3. \A v \in Workers \ {w} : Vetted(v)'
    BY <2>1, OthersStayVetted
  <2> QED
    BY <2>1, <2>2, <2>3 DEF VInv, DBAlwaysDecodes, Decodable
<1>2. ASSUME NEW w \in Workers, LockedStep(w) PROVE VInv'
  <2>1. /\ Vetted(w)' /\ DBAlwaysDecodes' /\ mutex = w
        /\ \E step : pc' = [pc EXCEPT ![w] = step]
        /\ \A v \in Workers \ {w} : job'[v] = job[v]
    BY <1>2, StepsStayVetted
  <2>2. up'
    BY <1>2, ServingIsUp
  <2>3. \A v \in Workers \ {w} : Vetted(v)'
    BY <2>1, OthersStayVetted
  <2> QED
    BY <2>1, <2>2, <2>3 DEF VInv
<1>3. ASSUME NEW w \in Workers, UnlockedBegin(w) \/ UnlockedStep(w) PROVE VInv'
  <2>1. \A snap, prune : ~SyncBegin(w, snap, prune)
    BY DEF SyncBegin, Idle
  <2>2. ~SyncStep(w) /\ ~SyncReload(w)
    BY DEF VInv, Vetted, SyncSteps, SyncStep, SyncWritePhys, SyncRenamePhys,
       SyncReadRel, SyncWriteRel, SyncRenameRel, SyncWriteFails, PersistRead,
       PersistWrite, PersistFails, SyncReload
  <2>3. LearnStep(w) \/ \E doc \in Inputs[Rules] : LearnBegin(w, doc)
    BY <1>3, <2>1, <2>2 DEF UnlockedBegin, UnlockedStep
  <2> QED
    BY <1>3, <2>3, LearnStaysVetted, OthersStayVetted, ServingIsUp
    DEF VInv, DBAlwaysDecodes, Decodable
<1>4. CASE Crash
  BY <1>4 DEF Crash, VInv, Vetted, SyncSteps, RemoveSteps, DBAlwaysDecodes,
     Decodable
<1>5. CASE Restart
  <2>1. ASSUME NEW d \in Required, InDB PROVE rows'[d] = rows[d]
    <3>1. Decodable(rows[d]) /\ rows[d] # Absent
      BY <2>1, ValuesAssumption DEF VInv, DBAlwaysDecodes, Decodable
    <3> QED
      BY <1>5, <2>1, <3>1, DatasetsAssumption DEF Restart, Imported
  <2>2. \A w \in Workers : pc'[w] = "idle"
    BY <1>5 DEF Restart, VInv
  <2> QED
    BY <2>1, <2>2
    DEF VInv, Vetted, SyncSteps, RemoveSteps, DBAlwaysDecodes, Decodable
<1>6. CASE Tick \/ UNCHANGED vars
  BY <1>6 DEF Tick, vars, store, VInv, Vetted, DBAlwaysDecodes, Decodable
<1> QED
  BY <1>1, <1>2, <1>3, <1>4, <1>5, <1>6, FailedStaysVetted
  DEF Next, LockedNext

\* Whatever fails, whenever the process dies, and with learn steps that write
\* without the lock: a row of a required dataset always decodes.  An unusable
\* one can only come from apply_metadata_sync, which reads back what another
\* handler may be in the middle of writing, and renames its own file over it
\* (persistDatasetsToDB, writeJSONFile).
THEOREM OnlySyncSpoilsRows ==
  ASSUME "sync" \notin Ops
  PROVE  Spec => []DBAlwaysDecodes
<1>1. Init /\ TypeOK /\ LockDiscipline => VInv
  BY DEF Init, VInv, Vetted, SyncSteps, RemoveSteps, DBAlwaysDecodes, Compiles
<1>2. VInv /\ TypeOK' /\ LockDiscipline' /\ [Next]_vars => VInv'
  BY VInvNext
<1>3. VInv => DBAlwaysDecodes
  BY DEF VInv
<1> QED
  BY <1>1, <1>2, <1>3, TypeCorrect, LockIsDisciplined, PTL DEF Spec
=============================================================================
