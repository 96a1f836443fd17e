---------------------------- MODULE DatasetStore ----------------------------
(***************************************************************************)
(* The dataset store of the jamypg server: the JSON dataset files of the   *)
(* data directory, their backups, the rows of the meta DB that own them in *)
(* auth mode, and the compiled catalog that every request reads through an *)
(* atomic pointer.                                                         *)
(*                                                                         *)
(* A worker is a goroutine that serves one mutation request at a time.     *)
(* Handlers that take Server.dataMu (put, restore, remove, reload, the     *)
(* recompile of review_feedback) keep `mutex' from their first step to     *)
(* their last.  apply_metadata_sync and learn_from_feedback write the same *)
(* files without it and only take it in the reload they end with.          *)
(*                                                                         *)
(* A document is the set of its rows.  Of a row the model keeps what it    *)
(* needs to resolve (the tables a relation names) and whether the loader   *)
(* can decode it at all.                                                   *)
(***************************************************************************)
EXTENDS Integers, FiniteSets

CONSTANTS
  Workers,       \* goroutines serving mutation requests
  Datasets,      \* names of the dataset registry
  Required,      \* the datasets Load cannot do without
  Lenient,       \* the datasets whose decoding errors Load reports as warnings
  Phys, Rel,     \* physical_models and relations, written by a metadata sync
  Rules,         \* learned_rules, written by learn_from_feedback
  Entries,       \* rows a document can hold
  Malformed,     \* a row that does not decode into the loader's row type
  Needs,         \* Needs[e]: rows that must exist somewhere for e to resolve
  SchemaOf,      \* SchemaOf[e]: the database schema of a physical row
  Inputs,        \* Inputs[d]: the documents callers send for dataset d
  Snapshots,     \* collected metadata snapshots: [phys, rel]
  InitFiles,     \* possible contents of the data directory at start
  InDB,          \* datasetsInDB(): a meta DB owns the datasets
  Faults,        \* may file writes and meta DB calls fail
  Crashes,       \* may the process die and be restarted
  Ops,           \* the operations callers use
  MaxClock,      \* bound: seconds the backup clock can tick through
  Absent, Torn,  \* a file that does not exist; a file cut short by a write
  Free           \* the value of `mutex' when nobody holds dataMu

Docs   == SUBSET Entries
Stored == Docs \cup {Absent, Torn}
Clock  == 0 .. MaxClock
NoBackup == -1

AllOps == {"put", "restore", "remove", "reload", "recompile", "sync", "learn"}

ASSUME DatasetsAssumption ==
  /\ Phys \in Required
  /\ Required \subseteq Datasets
  /\ {Rel, Rules} \subseteq Datasets \ Required
  /\ Lenient \subseteq Datasets
ASSUME DocsAssumption ==
  /\ IsFiniteSet(Entries)
  /\ Malformed \in Entries
  /\ Needs \in [Entries -> SUBSET Entries]
  /\ DOMAIN SchemaOf = Entries
  /\ Inputs \in [Datasets -> SUBSET Docs]
  /\ Snapshots \subseteq [phys: Docs, rel: Docs]
  /\ InitFiles \subseteq [Datasets -> Docs \cup {Absent}]
ASSUME ValuesAssumption ==
  /\ Absent # Torn
  /\ Absent \notin Docs
  /\ Torn \notin Docs
  /\ Free \notin Workers
  /\ MaxClock \in Nat
  /\ Ops \subseteq AllOps
  /\ {InDB, Faults, Crashes} \subseteq BOOLEAN

VARIABLES
  files,    \* files[d]: what the data directory holds for dataset d
  rows,     \* rows[d]: what jamypg_datasets holds for dataset d
  active,   \* active[d]: the document the published catalog was compiled from
  backups,  \* backups[d][t]: the backup of d's file named with second t
  staged,   \* staged[d]: the workers that opened the temporary file of d's file
  clock,    \* the second time.Now() formats into a backup name
  mutex,    \* the worker that holds dataMu, or Free
  up,       \* is the server process running
  pc,       \* pc[w]: the step worker w takes next
  job,      \* job[w]: the request w serves and its local variables
  answer,   \* the response the last step sent: <<worker, outcome>>, or Silent
  holders,  \* workers whose captured *Catalog is still the published one
  faulted   \* history: has a file write or a meta DB call failed

vars == <<files, rows, active, backups, staged, clock, mutex, up, pc, job,
          answer, holders, faulted>>
store == <<files, rows, active, backups, holders>>

Steps == {"idle", "write", "compile", "rollback", "persist",
          "removeLoad", "removeRow", "materialize", "load", "reload",
          "syncPhys", "syncRenamePhys", "syncRel", "syncWriteRel",
          "syncRenameRel", "persistRead", "persistWrite",
          "learnOpen", "learnWrite", "learnInstall"}
Outcomes == {"applied", "rejected", "error"}
Silent   == <<>>

\* A request: `force' is also the prune flag of a sync, `before' and `stamp'
\* the pre-image of the file and the name of its backup, `errs' the error
\* count before the put, `view' what the handler read.
Job == [op: AllOps, ds: Datasets, doc: Stored, force: BOOLEAN,
        before: Stored, errs: Nat, stamp: Clock \cup {NoBackup},
        view: [Datasets -> Stored], snap: [phys: Docs, rel: Docs]]

NoSnap == [phys |-> {}, rel |-> {}]
NoJob  == [op |-> "reload", ds |-> Phys, doc |-> Absent, force |-> FALSE,
           before |-> Absent, errs |-> 0, stamp |-> NoBackup,
           view |-> [d \in Datasets |-> Absent], snap |-> NoSnap]

\* What a handler read is kept until its last use, and not longer.
Forget(j) == [j EXCEPT !.view = NoJob.view]

-----------------------------------------------------------------------------
(* Compilation.                                                            *)

Decodable(doc) == doc \in Docs /\ Malformed \notin doc

RowsOf(doc) == IF Decodable(doc) THEN doc ELSE {}

\* Load succeeds: the required files decode and give at least one table.
Compiles(fs) ==
  /\ \A d \in Required : Decodable(fs[d])
  /\ \E d \in Required : fs[d] # {}

\* The rows of d that name something no loaded row provides.
Dangling(fs, d) ==
  {e \in RowsOf(fs[d]) :
     \E n \in Needs[e] : \A o \in Datasets : n \notin RowsOf(fs[o])}

\* The number of error-level LoadIssues of the catalog attributed to d's file.
ErrorCount(fs, d) ==
  IF fs[d] = Absent \/ Decodable(fs[d])
    THEN Cardinality(Dangling(fs, d))
    ELSE IF d \in Lenient THEN 0 ELSE 1

-----------------------------------------------------------------------------
(* Helpers shared by the handlers.                                         *)

\* Mutated form: a backup of the same second is not overwritten.
BackupFileKeepsFirst(d) ==
  backups' = IF files[d] = Absent \/ backups[d][clock] # Absent THEN backups
             ELSE [backups EXCEPT ![d][clock] = files[d]]

\* backupDatasetFile: a copy named with the current second; nothing to copy
\* when the file does not exist.
BackupFile(d) ==
  backups' = IF files[d] = Absent THEN backups
             ELSE [backups EXCEPT ![d][clock] = files[d]]

\* Mutated form: the stamp is taken after the copy was written.
BackupStampLate(d) == IF files[d] = Absent THEN NoBackup ELSE clock + 1

BackupStamp(d) == IF files[d] = Absent THEN NoBackup ELSE clock

\* setCatalog: the published pointer moves, whatever a worker captured is old.
Publish(cat) ==
  /\ active' = cat
  /\ holders' = {}

Keep == UNCHANGED <<active, holders>>

\* Mutated form: the result of a failed Load is published as well.
PublishAnyway(fs) == Publish(fs)

\* The catalog a file set compiles to replaces the published one, if it does.
PublishIfCompiles(fs) == IF Compiles(fs) THEN Publish(fs) ELSE Keep

Go(w, step) == pc' = [pc EXCEPT ![w] = step]

\* The handler returns: its local variables are gone, the caller is answered.
Finish(w, res) ==
  /\ Go(w, "idle")
  /\ job' = [job EXCEPT ![w] = NoJob]
  /\ answer' = <<w, res>>

Quiet == answer' = Silent

Lock(w)   == mutex = Free /\ mutex' = w
Unlock(w) == mutex' = Free

\* A file write or a meta DB call fails.
Fault == Faults /\ faulted' = TRUE

Idle(w, o) == up /\ pc[w] = "idle" /\ o \in Ops

-----------------------------------------------------------------------------
Init ==
  /\ files \in {f \in InitFiles : Compiles(f)}
  /\ rows = IF InDB THEN files ELSE [d \in Datasets |-> Absent]
  /\ active = files
  /\ backups = [d \in Datasets |-> [t \in Clock |-> Absent]]
  /\ staged = [d \in Datasets |-> {}]
  /\ clock = 0
  /\ mutex = Free
  /\ up = TRUE
  /\ pc = [w \in Workers |-> "idle"]
  /\ job = [w \in Workers |-> NoJob]
  /\ answer = Silent
  /\ holders = {}
  /\ faulted = FALSE

-----------------------------------------------------------------------------
(* put_dataset and restore.                                                *)

\* The lock is taken, the current file backed up, and the write begins by
\* truncating the file.
BeginWrite(w, o, d, doc, force) ==
  /\ Lock(w)
  /\ BackupFile(d)
  /\ job' = [job EXCEPT ![w] =
       [NoJob EXCEPT !.op = o, !.ds = d, !.doc = doc, !.force = force,
                     !.before = files[d], !.stamp = BackupStamp(d),
                     !.errs = ErrorCount(active, d)]]
  /\ files' = [files EXCEPT ![d] = Torn]
  /\ Go(w, "write")
  /\ Quiet
  /\ UNCHANGED <<rows, active, holders, clock, staged, up, faulted>>

PutBegin(w, d, doc, force) ==
  /\ Idle(w, "put")
  /\ doc \in Inputs[d]
  /\ BeginWrite(w, "put", d, doc, force)

\* restoreDataset reads the backup under the lock and puts it with force;
\* a backup of a torn file is not valid JSON and is refused unchanged.
RestoreBegin(w, d, t) ==
  /\ Idle(w, "restore")
  /\ backups[d][t] \in Docs
  /\ BeginWrite(w, "restore", d, backups[d][t], TRUE)

\* What a failing backup leaves behind: no copy, one cut short, or a copy of a
\* file that then can be neither opened for writing nor removed.
BackupAttempt(d) ==
  \/ UNCHANGED backups
  \/ files[d] # Absent /\ backups' = [backups EXCEPT ![d][clock] = Torn]
  \/ BackupFile(d)

\* A put, restore or removal that fails before it touches the file: the error
\* is returned and dataMu released, the catalog is not compiled again.
BeginFails(w, d) ==
  /\ Fault
  /\ mutex = Free
  /\ files[d] # Absent
  /\ \/ Idle(w, "put") /\ Inputs[d] # {}
     \/ Idle(w, "restore") /\ \E t \in Clock : backups[d][t] \in Docs
     \/ Idle(w, "remove") /\ d \notin Required
  /\ BackupAttempt(d)
  /\ Finish(w, "error")
  /\ UNCHANGED <<files, rows, active, holders, clock, staged, mutex, up>>

\* What the file holds after the write.  A sync that renamed its file over
\* the truncated one keeps its document: the write goes to the unlinked file.
\* Of a learn step and a put that write the same file either may win, or both
\* leave a mixture.
Written(w) ==
  LET d == job[w].ds IN
  IF files[d] = Torn THEN {job[w].doc}
  ELSE {files[d]} \cup
       (IF d = Rules /\ files[d] # Absent THEN {job[w].doc, Torn} ELSE {})

PutWrite(w) ==
  /\ pc[w] = "write"
  /\ \E doc \in Written(w) : files' = [files EXCEPT ![job[w].ds] = doc]
  /\ Go(w, "compile")
  /\ Quiet
  /\ UNCHANGED <<rows, active, backups, holders, clock, staged, mutex, up, job,
                 faulted>>

\* Mutated form: the early return forgets to release dataMu.
PutWriteFailsLocked(w) ==
  /\ Fault
  /\ pc[w] = "write"
  /\ UNCHANGED mutex
  /\ Finish(w, "error")
  /\ UNCHANGED <<store, clock, staged, up>>

\* os.WriteFile fails: ReplaceDataset returns the error with no rollback.
PutWriteFails(w) ==
  /\ Fault
  /\ pc[w] = "write"
  /\ Unlock(w)
  /\ Finish(w, "error")
  /\ UNCHANGED <<store, clock, staged, up>>

\* Mutated form: force also skips the compilation.
AcceptableByForce(w) ==
  \/ job[w].force
  \/ Compiles(files) /\ ErrorCount(files, job[w].ds) <= job[w].errs

Acceptable(w) ==
  /\ Compiles(files)
  /\ job[w].force \/ ErrorCount(files, job[w].ds) <= job[w].errs

\* Mutated form: dataMu is released before the row is written.
PutAcceptUnlocked(w) ==
  /\ pc[w] = "compile"
  /\ Acceptable(w)
  /\ Publish(files)
  /\ Unlock(w)
  /\ Go(w, "persist")
  /\ Quiet
  /\ UNCHANGED <<files, rows, backups, clock, staged, up, job, faulted>>

PutAccept(w) ==
  /\ pc[w] = "compile"
  /\ Acceptable(w)
  /\ Publish(files)
  /\ IF InDB THEN /\ Go(w, "persist")
                  /\ UNCHANGED <<mutex, job>>
                  /\ Quiet
             ELSE /\ Unlock(w)
                  /\ Finish(w, "applied")
  /\ UNCHANGED <<files, rows, backups, clock, staged, up, faulted>>

PutReject(w) ==
  /\ pc[w] = "compile"
  /\ ~Acceptable(w)
  /\ Go(w, "rollback")
  /\ Quiet
  /\ UNCHANGED <<store, clock, staged, mutex, up, job, faulted>>

\* Mutated form: a file the put created is not removed again.
RestoredOnlyBackups(w) ==
  LET j == job[w] IN
  IF j.stamp = NoBackup THEN files
  ELSE [files EXCEPT ![j.ds] = backups[j.ds][j.stamp]]

\* The document a rollback puts back: the named backup, or no file at all.
Restored(w) ==
  LET j == job[w] IN
  [files EXCEPT ![j.ds] = IF j.stamp = NoBackup THEN Absent
                          ELSE backups[j.ds][j.stamp]]

\* The file a put created is removed; the error of os.Remove is dropped.
RolledBack(w) ==
  \/ files' = Restored(w) /\ UNCHANGED faulted
  \/ job[w].stamp = NoBackup /\ Fault /\ UNCHANGED files

\* Mutated form: the rollback path forgets to release dataMu.
PutRollbackLocked(w) ==
  /\ pc[w] = "rollback"
  /\ RolledBack(w)
  /\ PublishIfCompiles(files')
  /\ UNCHANGED mutex
  /\ Finish(w, "rejected")
  /\ UNCHANGED <<rows, backups, clock, staged, up>>

\* The catalog is compiled from what is there, the put answered as rejected.
PutRollback(w) ==
  /\ pc[w] = "rollback"
  /\ RolledBack(w)
  /\ PublishIfCompiles(files')
  /\ Unlock(w)
  /\ Finish(w, "rejected")
  /\ UNCHANGED <<rows, backups, clock, staged, up>>

\* The restore itself fails ("ROLLBACK ALSO FAILED"), perhaps half-way.
PutRollbackFails(w) ==
  /\ Fault
  /\ pc[w] = "rollback"
  /\ job[w].stamp # NoBackup
  /\ \/ UNCHANGED files
     \/ files' = [files EXCEPT ![job[w].ds] = Torn]
  /\ Unlock(w)
  /\ Finish(w, "error")
  /\ UNCHANGED <<rows, active, backups, holders, clock, staged, up>>

PutPersist(w) ==
  /\ pc[w] = "persist"
  /\ rows' = [rows EXCEPT ![job[w].ds] = job[w].doc]
  /\ Unlock(w)
  /\ Finish(w, "applied")
  /\ UNCHANGED <<files, active, backups, holders, clock, staged, up, faulted>>

\* The DB write fails after the hot swap: an error is returned, nothing undone.
PutPersistFails(w) ==
  /\ Fault
  /\ pc[w] = "persist"
  /\ Unlock(w)
  /\ Finish(w, "error")
  /\ UNCHANGED <<store, clock, staged, up>>

-----------------------------------------------------------------------------
(* remove_dataset.                                                         *)

RemoveBegin(w, d) ==
  /\ Idle(w, "remove")
  /\ d \notin Required
  /\ files[d] # Absent
  /\ Lock(w)
  /\ BackupFile(d)
  /\ job' = [job EXCEPT ![w] =
       [NoJob EXCEPT !.op = "remove", !.ds = d, !.before = files[d],
                     !.stamp = BackupStamp(d)]]
  /\ files' = [files EXCEPT ![d] = Absent]
  /\ Go(w, "removeLoad")
  /\ Quiet
  /\ UNCHANGED <<rows, active, holders, clock, staged, up, faulted>>

RemovePublish(w) ==
  /\ pc[w] = "removeLoad"
  /\ Compiles(files)
  /\ Publish(files)
  /\ IF InDB THEN /\ Go(w, "removeRow")
                  /\ UNCHANGED <<mutex, job>>
                  /\ Quiet
             ELSE /\ Unlock(w)
                  /\ Finish(w, "applied")
  /\ UNCHANGED <<files, rows, backups, clock, staged, up, faulted>>

\* The error of the restore is dropped, even when it failed half-way.
RemoveUndo(w) ==
  /\ pc[w] = "removeLoad"
  /\ ~Compiles(files)
  /\ \/ files' = Restored(w) /\ UNCHANGED faulted
     \/ Fault /\ \/ UNCHANGED files
                 \/ files' = [files EXCEPT ![job[w].ds] = Torn]
  /\ PublishIfCompiles(files')
  /\ Unlock(w)
  /\ Finish(w, "error")
  /\ UNCHANGED <<rows, backups, clock, staged, up>>

\* Mutated form: the row outlives the file.
RemoveRowKept(w) ==
  /\ pc[w] = "removeRow"
  /\ Unlock(w)
  /\ Finish(w, "applied")
  /\ UNCHANGED <<store, clock, staged, up, faulted>>

\* The error of the DB delete is dropped, the caller is told it was removed.
RemoveRow(w) ==
  /\ pc[w] = "removeRow"
  /\ \/ rows' = [rows EXCEPT ![job[w].ds] = Absent] /\ UNCHANGED faulted
     \/ Fault /\ UNCHANGED rows
  /\ Unlock(w)
  /\ Finish(w, "applied")
  /\ UNCHANGED <<files, active, backups, holders, clock, staged, up>>

-----------------------------------------------------------------------------
(* reload_catalog, and the recompile of review_feedback.                   *)

\* With a meta DB the reload starts by listing the rows.
ReloadStart(w, j) ==
  /\ Lock(w)
  /\ job' = [job EXCEPT ![w] = [j EXCEPT !.view = rows]]
  /\ Go(w, IF InDB THEN "materialize" ELSE "load")
  /\ Quiet
  /\ UNCHANGED <<store, clock, staged, up, faulted>>

ReloadBegin(w) ==
  /\ Idle(w, "reload")
  /\ ReloadStart(w, NoJob)

\* The reload a metadata sync ends with.
SyncReload(w) ==
  /\ pc[w] = "reload"
  /\ ReloadStart(w, job[w])

\* Mutated form: the error return forgets to release dataMu.
ReloadListFailsLocked(w) ==
  /\ Fault /\ InDB
  /\ pc[w] = "materialize"
  /\ UNCHANGED mutex
  /\ Finish(w, "error")
  /\ UNCHANGED <<store, clock, staged, up>>

\* ListDatasets fails: the previous catalog stays.
ReloadListFails(w) ==
  /\ Fault /\ InDB
  /\ pc[w] = "materialize"
  /\ Unlock(w)
  /\ Finish(w, "error")
  /\ UNCHANGED <<store, clock, staged, up>>

\* Mutated form: only files that are missing are written.
MaterializedMissing(fs, rs) ==
  [d \in Datasets |-> IF fs[d] = Absent THEN rs[d] ELSE fs[d]]

Materialized(fs, rs) ==
  [d \in Datasets |-> IF rs[d] = Absent THEN fs[d] ELSE rs[d]]

Materialize(w) ==
  /\ pc[w] = "materialize"
  /\ files' = Materialized(files, job[w].view)
  /\ job' = [job EXCEPT ![w] = Forget(@)]
  /\ Go(w, "load")
  /\ Quiet
  /\ UNCHANGED <<rows, active, backups, holders, clock, staged, mutex, up,
                 faulted>>

\* Writing the files fails: some are refreshed, one may be cut short.
MaterializeFails(w) ==
  /\ Fault
  /\ pc[w] = "materialize"
  /\ \E done \in SUBSET Datasets, cut \in Datasets :
       files' = [d \in Datasets |->
                   IF d = cut /\ job[w].view[d] # Absent THEN Torn
                   ELSE IF d \in done THEN Materialized(files, job[w].view)[d]
                   ELSE files[d]]
  /\ Unlock(w)
  /\ Finish(w, "error")
  /\ UNCHANGED <<rows, active, backups, holders, clock, staged, up>>

RecompileBegin(w) ==
  /\ Idle(w, "recompile")
  /\ Lock(w)
  /\ job' = [job EXCEPT ![w] = [NoJob EXCEPT !.op = "recompile"]]
  /\ Go(w, "load")
  /\ Quiet
  /\ UNCHANGED <<store, clock, staged, up, faulted>>

LoadAndPublish(w) ==
  /\ pc[w] = "load"
  /\ PublishIfCompiles(files)
  /\ Unlock(w)
  /\ Finish(w, IF Compiles(files) THEN "applied" ELSE "error")
  /\ UNCHANGED <<files, rows, backups, clock, staged, up, faulted>>

-----------------------------------------------------------------------------
(* apply_metadata_sync: ApplyPhysicalSnapshot, then persistDatasetsToDB,   *)
(* then reloadCatalog.  The first two hold no lock.                        *)

\* readJSONFileAs: a missing file is an empty document.
Readable(doc) == doc = Absent \/ Decodable(doc)

SyncBegin(w, snap, prune) ==
  /\ Idle(w, "sync")
  /\ Readable(files[Phys])
  /\ job' = [job EXCEPT ![w] =
       [NoJob EXCEPT !.op = "sync", !.ds = Phys, !.snap = snap,
                     !.force = prune, !.view[Phys] = files[Phys]]]
  /\ Go(w, "syncPhys")
  /\ Quiet
  /\ UNCHANGED <<store, clock, staged, mutex, up, faulted>>

\* Rows of the schemas that were collected, but not collected themselves.
Retired(j) ==
  {e \in RowsOf(j.view[Phys]) \ j.snap.phys :
     \E c \in j.snap.phys : SchemaOf[c] = SchemaOf[e]}

\* Collected columns are added; prune also drops the retired ones.
MergedPhys(j) ==
  (RowsOf(j.view[Phys]) \cup j.snap.phys) \ (IF j.force THEN Retired(j) ELSE {})

MergedRel(j) == RowsOf(j.view[Rel]) \cup j.snap.rel

Merged(d, j) == IF d = Phys THEN MergedPhys(j) ELSE MergedRel(j)

\* Is there anything to write?
Changed(w, d) == Merged(d, job[w]) # RowsOf(job[w].view[d])

\* writeJSONFile starts: a backup, then the temporary file is truncated.
Stage(w, d, step) ==
  /\ BackupFile(d)
  /\ staged' = [staged EXCEPT ![d] = @ \cup {w}]
  /\ Go(w, step)
  /\ UNCHANGED job

\* The temporary file has one name for all writers: with a second sync at work
\* the rename may move what that one wrote, or has half written.
Renamed(w, d) ==
  /\ staged[d] # {}
  /\ \E doc \in {Merged(d, job[v]) : v \in staged[d]} \cup {Torn} :
       /\ staged[d] = {w} => doc = Merged(d, job[w])
       /\ files' = [files EXCEPT ![d] = doc]
  /\ staged' = [staged EXCEPT ![d] = {}]

\* Somebody else renamed it first: what was written since went into the live
\* file, if that is still there, and the rename fails.
RenameLost(w, d) ==
  /\ staged[d] = {}
  /\ UNCHANGED staged
  /\ \/ UNCHANGED files
     \/ /\ files[d] # Absent
        /\ \E doc \in {Merged(d, job[w]), Torn} :
             files' = [files EXCEPT ![d] = doc]
  /\ Finish(w, "error")

PhysDone(w) ==
  /\ job' = [job EXCEPT ![w] = [Forget(@) EXCEPT !.force = FALSE]]
  /\ Go(w, "syncRel")

RelDone(w) ==
  /\ job' = [job EXCEPT ![w] = Forget(@)]
  /\ Go(w, IF InDB THEN "persistRead" ELSE "reload")

SyncWritePhys(w) ==
  /\ pc[w] = "syncPhys"
  /\ IF Changed(w, Phys) THEN Stage(w, Phys, "syncRenamePhys")
                         ELSE PhysDone(w) /\ UNCHANGED <<backups, staged>>
  /\ Quiet
  /\ UNCHANGED <<files, rows, active, holders, clock, mutex, up, faulted>>

SyncRenamePhys(w) ==
  /\ pc[w] = "syncRenamePhys"
  /\ \/ Renamed(w, Phys) /\ PhysDone(w) /\ Quiet
     \/ RenameLost(w, Phys)
  /\ UNCHANGED <<rows, active, backups, holders, clock, mutex, up, faulted>>

\* upsertRelations has nothing to do without relations.  Otherwise it reads its
\* file after the physical model was written; when it cannot, the handler
\* returns the error and skips persist and reload.
SyncReadRel(w) ==
  /\ pc[w] = "syncRel"
  /\ \/ job[w].snap.rel = {} /\ RelDone(w) /\ Quiet
     \/ /\ job[w].snap.rel # {} /\ Readable(files[Rel])
        /\ job' = [job EXCEPT ![w].view[Rel] = files[Rel]]
        /\ Go(w, "syncWriteRel")
        /\ Quiet
     \/ job[w].snap.rel # {} /\ ~Readable(files[Rel]) /\ Finish(w, "error")
  /\ UNCHANGED <<store, clock, staged, mutex, up, faulted>>

SyncWriteRel(w) ==
  /\ pc[w] = "syncWriteRel"
  /\ IF Changed(w, Rel) THEN Stage(w, Rel, "syncRenameRel")
                        ELSE RelDone(w) /\ UNCHANGED <<backups, staged>>
  /\ Quiet
  /\ UNCHANGED <<files, rows, active, holders, clock, mutex, up, faulted>>

SyncRenameRel(w) ==
  /\ pc[w] = "syncRenameRel"
  /\ \/ Renamed(w, Rel) /\ RelDone(w) /\ Quiet
     \/ RenameLost(w, Rel)
  /\ UNCHANGED <<rows, active, backups, holders, clock, mutex, up, faulted>>

\* The backup or the temporary file cannot be written, or not renamed; what is
\* left of the temporary file is truncated by the next sync.
SyncWriteFails(w) ==
  /\ Fault
  /\ \/ pc[w] = "syncPhys" /\ Changed(w, Phys) /\ BackupAttempt(Phys)
     \/ pc[w] = "syncWriteRel" /\ Changed(w, Rel) /\ BackupAttempt(Rel)
     \/ pc[w] \in {"syncRenamePhys", "syncRenameRel"} /\ UNCHANGED backups
  /\ staged' = [d \in Datasets |-> staged[d] \ {w}]
  /\ Finish(w, "error")
  /\ UNCHANGED <<files, rows, active, holders, clock, mutex, up>>

\* persistDatasetsToDB reads each file back and stores what it finds there.
PersistRead(w) ==
  /\ pc[w] = "persistRead"
  /\ job' = [job EXCEPT ![w].view[job[w].ds] = files[job[w].ds]]
  /\ Go(w, "persistWrite")
  /\ Quiet
  /\ UNCHANGED <<store, clock, staged, mutex, up, faulted>>

\* Physical models first, then relations, then the reload.
PersistWrite(w) ==
  LET d == job[w].ds IN
  /\ pc[w] = "persistWrite"
  /\ rows' = IF job[w].view[d] = Absent THEN rows
             ELSE [rows EXCEPT ![d] = job[w].view[d]]
  /\ job' = [job EXCEPT ![w] = [Forget(@) EXCEPT !.ds = Rel]]
  /\ Go(w, IF d = Phys THEN "persistRead" ELSE "reload")
  /\ Quiet
  /\ UNCHANGED <<files, active, backups, holders, clock, staged, mutex, up,
                 faulted>>

PersistFails(w) ==
  /\ Fault
  /\ pc[w] = "persistWrite"
  /\ Finish(w, "error")
  /\ UNCHANGED <<store, clock, staged, mutex, up>>

-----------------------------------------------------------------------------
(* learn_from_feedback: runs on the catalog it captured, writes the file,  *)
(* then installs the rules in that catalog.  No lock, no DB row.           *)

LearnBegin(w, doc) ==
  /\ Idle(w, "learn")
  /\ doc \in Inputs[Rules]
  /\ job' = [job EXCEPT ![w] = [NoJob EXCEPT !.op = "learn", !.ds = Rules,
                                             !.doc = doc]]
  /\ holders' = holders \cup {w}
  /\ Go(w, "learnOpen")
  /\ Quiet
  /\ UNCHANGED <<files, rows, active, backups, clock, staged, mutex, up,
                 faulted>>

\* os.WriteFile truncates the file, then writes it.
LearnOpen(w) ==
  /\ pc[w] = "learnOpen"
  /\ files' = [files EXCEPT ![Rules] = Torn]
  /\ Go(w, "learnWrite")
  /\ Quiet
  /\ UNCHANGED <<rows, active, backups, holders, clock, staged, mutex, up, job,
                 faulted>>

LearnWrite(w) ==
  /\ pc[w] = "learnWrite"
  /\ \E doc \in Written(w) : files' = [files EXCEPT ![Rules] = doc]
  /\ Go(w, "learnInstall")
  /\ Quiet
  /\ UNCHANGED <<rows, active, backups, holders, clock, staged, mutex, up, job,
                 faulted>>

\* The file cannot be opened, or not written to the end: the error is returned
\* and the rules are not installed.
LearnWriteFails(w) ==
  /\ Fault
  /\ pc[w] \in {"learnOpen", "learnWrite"}
  /\ holders' = holders \ {w}
  /\ Finish(w, "error")
  /\ UNCHANGED <<files, rows, active, backups, clock, staged, mutex, up>>

LearnInstall(w) ==
  /\ pc[w] = "learnInstall"
  /\ active' = IF w \in holders THEN [active EXCEPT ![Rules] = job[w].doc]
               ELSE active
  /\ holders' = holders \ {w}
  /\ Finish(w, "applied")
  /\ UNCHANGED <<files, rows, backups, clock, staged, mutex, up, faulted>>

-----------------------------------------------------------------------------
(* The process dies, and main starts it again.                             *)

Crash ==
  /\ Crashes
  /\ up
  /\ up' = FALSE
  /\ active' = [d \in Datasets |-> Absent]
  /\ mutex' = Free
  /\ pc' = [w \in Workers |-> "idle"]
  /\ job' = [w \in Workers |-> NoJob]
  /\ Quiet
  /\ holders' = {}
  /\ staged' = [d \in Datasets |-> {}]
  /\ UNCHANGED <<files, rows, backups, clock, faulted>>

\* Mutated form: a file replaces the row of its dataset.
ImportedOverRows(fs, rs) ==
  IF InDB THEN [d \in Datasets |-> IF fs[d] = Absent THEN rs[d] ELSE fs[d]]
  ELSE rs

\* importDatasetsToDB: a file with no row becomes a row.
Imported(fs, rs) ==
  IF InDB THEN [d \in Datasets |-> IF rs[d] = Absent THEN fs[d] ELSE rs[d]]
  ELSE rs

\* main compiles the files as they are and dies if it cannot; only then does
\* InitDatasetStore import, materialize and compile again.
Restart ==
  LET fs == Materialized(files, Imported(files, rows)) IN
  /\ ~up
  /\ Compiles(files)
  /\ rows' = Imported(files, rows)
  /\ files' = fs
  /\ up' = Compiles(fs)
  /\ PublishIfCompiles(fs)
  /\ Quiet
  /\ UNCHANGED <<backups, clock, staged, mutex, pc, job, faulted>>

Tick ==
  /\ clock < MaxClock
  /\ clock' = clock + 1
  /\ Quiet
  /\ UNCHANGED <<store, staged, mutex, up, pc, job, faulted>>

-----------------------------------------------------------------------------
(* The steps of a worker after its request arrived.                        *)

PutStep(w) ==
  \/ PutWrite(w) \/ PutWriteFails(w) \/ PutAccept(w) \/ PutReject(w)
  \/ PutRollback(w) \/ PutRollbackFails(w)
  \/ PutPersist(w) \/ PutPersistFails(w)

RemoveStep(w) == RemovePublish(w) \/ RemoveUndo(w) \/ RemoveRow(w)

ReloadStep(w) ==
  \/ ReloadListFails(w) \/ MaterializeFails(w) \/ Materialize(w)
  \/ LoadAndPublish(w)

SyncStep(w) ==
  \/ SyncWritePhys(w) \/ SyncRenamePhys(w)
  \/ SyncReadRel(w) \/ SyncWriteRel(w) \/ SyncRenameRel(w)
  \/ SyncWriteFails(w)
  \/ PersistRead(w) \/ PersistWrite(w) \/ PersistFails(w)

LearnStep(w) ==
  LearnOpen(w) \/ LearnWrite(w) \/ LearnWriteFails(w) \/ LearnInstall(w)

\* Every mutation that runs under dataMu from start to end.
LockedBegin(w) ==
  \/ \E d \in Datasets, force \in BOOLEAN :
       \E doc \in Inputs[d] : PutBegin(w, d, doc, force)
  \/ \E d \in Datasets, t \in Clock : RestoreBegin(w, d, t)
  \/ \E d \in Datasets : RemoveBegin(w, d)
  \/ ReloadBegin(w)
  \/ RecompileBegin(w)

LockedStep(w) == PutStep(w) \/ RemoveStep(w) \/ ReloadStep(w)

UnlockedBegin(w) ==
  \/ \E snap \in Snapshots, prune \in BOOLEAN : SyncBegin(w, snap, prune)
  \/ \E doc \in Inputs[Rules] : LearnBegin(w, doc)

UnlockedStep(w) == SyncStep(w) \/ SyncReload(w) \/ LearnStep(w)

\* A request that ends with its first step.
FailedBegin(w) == \E d \in Datasets : BeginFails(w, d)

LockedNext ==
  \/ Tick
  \/ \E w \in Workers : LockedBegin(w) \/ FailedBegin(w) \/ LockedStep(w)

Next ==
  \/ LockedNext
  \/ \E w \in Workers : UnlockedBegin(w) \/ UnlockedStep(w)
  \/ Crash
  \/ Restart

\* Only the operations that take dataMu, on a server that stays up.
LockedSpec == Init /\ [][LockedNext]_vars

Spec == Init /\ [][Next]_vars

\* A goroutine that can run keeps running; sync.Mutex hands itself to a
\* goroutine that has waited for 1ms, so a waiting reload is not starved; a
\* supervisor restarts the process.
Fairness ==
  /\ \A w \in Workers : WF_vars(LockedStep(w) \/ SyncStep(w) \/ LearnStep(w))
  /\ \A w \in Workers : SF_vars(SyncReload(w))
  /\ WF_vars(Restart)

FairSpec == Spec /\ Fairness

-----------------------------------------------------------------------------
TypeOK ==
  /\ files \in [Datasets -> Stored]
  /\ rows \in [Datasets -> Stored]
  /\ active \in [Datasets -> Stored]
  /\ backups \in [Datasets -> [Clock -> Stored]]
  /\ staged \in [Datasets -> SUBSET Workers]
  /\ clock \in Clock
  /\ mutex \in Workers \cup {Free}
  /\ up \in BOOLEAN
  /\ pc \in [Workers -> Steps]
  /\ job \in [Workers -> Job]
  /\ answer \in {Silent} \cup (Workers \X Outcomes)
  /\ holders \subseteq Workers
  /\ faulted \in BOOLEAN
-----------------------------------------------------------------------------
(* Safety.                                                                 *)

\* The steps a worker takes while it holds dataMu.
CriticalSteps == {"write", "compile", "rollback", "persist", "removeLoad",
                  "removeRow", "materialize", "load"}

\* dataMu is held exactly while its holder is between the first and the last
\* step of a locked handler: no early return leaves it locked, none runs on
\* without it (putDataset, restoreDataset, removeDataset, reloadCatalog).
LockDiscipline ==
  \A w \in Workers : (pc[w] \in CriticalSteps) <=> (mutex = w)

\* Whatever fails, the published catalog is one the loader accepted: a reload,
\* rollback or learn step never publishes a catalog that lost its tables
\* (setCatalog is only reached with the result of a successful Load).
ActiveCompiles == up => Compiles(active)

\* When no locked change is in flight, the data directory, the meta DB and the
\* published catalog hold the same documents.  It holds as long as every
\* change goes through the locked handlers and none of their writes failed.
IdleAgreement ==
  (up /\ mutex = Free /\ ~faulted) => /\ active = files
                                       /\ InDB => rows = files

\* No row of a required dataset is ever unusable, even when writes fail:
\* content that was rejected, or is still being validated, never reaches the
\* meta DB (putDatasetLocked commits only on success, remove_dataset refuses
\* the core datasets).
DBAlwaysDecodes ==
  InDB => \A d \in Required : Decodable(rows[d])

\* The documents of the meta DB, the source of truth in auth mode, always make
\* a catalog together, so that a server can be started from them.
DBAlwaysCompiles == InDB => Compiles(rows)

-----------------------------------------------------------------------------
(* Action properties.                                                      *)

\* The step that answers worker w's request o with outcome res.
Answers(w, o, res) == job[w].op = o /\ answer' = <<w, res>>

\* A rejected put leaves everything as it found it: the file is the one it
\* backed up and the published catalog does not move (the rollback closure of
\* putDatasetLocked reloads and republishes), as long as no write has failed
\* and the rollback itself does not.
RejectedPutRestores ==
  [][\A w \in Workers, o \in {"put", "restore"} :
       ~faulted' /\ Answers(w, o, "rejected")
         => /\ files'[job[w].ds] = job[w].before
            /\ active' = active]_vars

\* A change that was applied can be undone: what it overwrote or removed is in
\* a backup, under any interleaving of clock ticks and other requests
\* (backupDatasetFile runs before the write, restore included).
ChangeIsReversible ==
  [][\A w \in Workers, o \in {"put", "restore", "remove"} :
       Answers(w, o, "applied")
         => \/ job[w].before = Absent
            \/ \E t \in Clock : backups'[job[w].ds][t] = job[w].before]_vars

\* A reload that succeeds publishes what the meta DB holds at that moment,
\* even after failed writes left files and rows apart (reloadCatalog keeps
\* dataMu from listing the rows to publishing).
ReloadFollowsDB ==
  [][\A w \in Workers :
       InDB /\ Answers(w, "reload", "applied")
         => \A d \in Datasets : rows[d] # Absent => active'[d] = rows[d]]_vars

\* A server that comes back serves what the meta DB held when the last one
\* died, whatever that one had half done to the data directory
\* (InitDatasetStore: import, materialize, compile again).
RestartFollowsDB ==
  [][InDB /\ ~up /\ up'
       => \A d \in Datasets : rows[d] # Absent => active'[d] = rows[d]]_vars

\* No reload takes learned rules back: where nobody but learn_from_feedback
\* writes rules, a published set that is not the stored row was learned, and a
\* reload never puts the stored row in its place (LearnFromFeedback, which
\* stores no row).
LearnedRulesStay ==
  [][\A w \in Workers :
       Answers(w, "reload", "applied") /\ active[Rules] # rows[Rules]
         => active'[Rules] # rows[Rules]]_vars

-----------------------------------------------------------------------------
(* What the locked handlers promise.                                       *)

PutSteps    == {"write", "compile", "rollback", "persist"}
RemoveSteps == {"removeLoad", "removeRow"}

\* The fate of the change whose handler is about to take a step.
Fate(step) ==
  IF step \in {"persist", "removeRow"} THEN "applied"
  ELSE IF step = "rollback" THEN "refused" ELSE "open"

AskedOf(w) ==
  [by |-> w, ds |-> job[w].ds, doc |-> job[w].doc,
   force |-> job[w].force \/ job[w].op = "remove", fate |-> Fate(pc[w])]

Asked == {AskedOf(w) : w \in {v \in Workers : pc[v] \in PutSteps \cup RemoveSteps}}

Kept == [d \in Datasets |-> {backups[d][t] : t \in Clock} \ {Absent}]

Catalogs == {fs \in [Datasets -> Stored] : Compiles(fs)}

Errors == [fs \in [Datasets -> Stored] |-> [d \in Datasets |-> ErrorCount(fs, d)]]

Atomic == INSTANCE AtomicStore WITH
  served <- active, stored <- rows, kept <- Kept, asked <- Asked, broken <- faulted

\* Two requests that overlap leave what one after the other would: every
\* change of a locked handler takes effect at once, on the catalog it was
\* judged against, or not at all, as its answer says (dataMu is held from the
\* error count of the old catalog to the row of the new one).
ImplementsAtomicStore == Atomic!AtomicSpec

-----------------------------------------------------------------------------
(* Liveness.                                                               *)

\* Every request is answered, on every error path, with other requests and
\* process deaths going on: no handler waits for a lock it holds itself (a
\* restore calls putDatasetLocked) or that somebody forgot to release.
RequestsFinish == \A w \in Workers : pc[w] # "idle" ~> pc[w] = "idle"
=============================================================================
