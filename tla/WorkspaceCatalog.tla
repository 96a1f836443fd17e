-------------------------- MODULE WorkspaceCatalog --------------------------
(***************************************************************************)
(* The catalog workspace of one profile.  A request that names the profile *)
(* uses the catalog compiled from the files of the workspace, which the    *)
(* server keeps under a fingerprint of them: names, sizes and times of     *)
(* modification.  Puts, builds from the live database and imports change   *)
(* the files under no lock, and tell the cache nothing.                    *)
(***************************************************************************)
EXTENDS Naturals

CONSTANTS
  Readers,    \* requests that use the catalog at once
  Writers,    \* requests that change the workspace at once
  Contents,   \* what a file may hold
  Usable,     \* the contents of models that can be read and name a table
  Scaffold,   \* the empty list
  Torn,       \* a file between its truncation and its write
  Absent,
  MaxWrites,  \* bound: writes, which the times of modification tell apart
  NoTask

\* The models that Load needs, and the files a workspace may do without.
Files == {"models", "rest"}

Held == Contents \cup {Torn, Absent}

\* A writer at a step of its work on a file: the models are about to be created,
\* a file to be replaced, written after its truncation, validated, restored and
\* written after that; a merge is about to open its temporary file, has it open,
\* or has lost it to another merge.
Task == [step: {"scaffold", "scaffolded", "put", "truncated", "written",
                "reject", "emptied", "merge", "staged", "lost"},
         on: Files]

ASSUME ContentsAssumption ==
  /\ Usable \subseteq Contents /\ Scaffold \in Contents \ Usable
  /\ Torn \notin Contents /\ Absent \notin Contents /\ Torn # Absent
ASSUME WritesAssumption == MaxWrites \in Nat
ASSUME TaskAssumption == NoTask \notin Task

VARIABLES
  file,    \* file[f]: its content, and when it was written
  writes,  \* the time of the last write
  cached,  \* the entry of the profile in wsCache
  pc,      \* where a reader is
  fp,      \* fp[r]: the fingerprint it has taken, for the files in printed[r]
  printed,
  got,     \* got[r]: what Load has read so far, or the catalog answered with
  writer,  \* what a writer is doing, or NoTask
  seen     \* history: what each file has held since the reader began

readerVars == <<pc, fp, printed, got>>
wsVars == <<file, writes, cached, readerVars, writer, seen>>

Stamped == [content: Held, stamp: 0 .. MaxWrites]
Prints == [Files -> 0 .. MaxWrites]
Catalogs == [Files -> Held]

\* A reader that has not been answered.
UnderWay(r) == pc[r] \in {"print", "models", "rest"}

NoPrint == [f \in Files |-> 0]
NoCatalog == [f \in Files |-> Absent]
NothingSeen == [f \in Files |-> {}]

-----------------------------------------------------------------------------
WsInit ==
  /\ file \in [Files -> [content: Usable \cup {Absent}, stamp: {0}]]
  /\ writes = 0
  /\ cached = [cat |-> NoCatalog, fp |-> NoPrint, filled |-> FALSE]
  /\ pc = [r \in Readers |-> "idle"]
  /\ fp = [r \in Readers |-> NoPrint]
  /\ printed = [r \in Readers |-> {}]
  /\ got = [r \in Readers |-> NoCatalog]
  /\ writer = [w \in Writers |-> NoTask]
  /\ seen = [r \in Readers |-> NothingSeen]

-----------------------------------------------------------------------------
(* catalogFor, workspaceCatalog                                            *)

\* A profile without models has no workspace: the request uses the catalog
\* that is active for the server.
catalogFor(r) ==
  /\ pc[r] = "idle"
  /\ pc' = [pc EXCEPT ![r] = IF file["models"].content = Absent
                               THEN "fellBack" ELSE "print"]
  /\ seen' = [seen EXCEPT ![r] = [f \in Files |-> {file[f].content}]]
  /\ UNCHANGED <<file, writes, cached, fp, printed, got, writer>>

\* One file after the other, in the order the directory lists them.
workspaceFingerprint(r, f) ==
  /\ pc[r] = "print" /\ f \notin printed[r]
  /\ fp' = [fp EXCEPT ![r][f] = file[f].stamp]
  /\ printed' = [printed EXCEPT ![r] = @ \cup {f}]
  /\ UNCHANGED <<file, writes, cached, pc, got, writer, seen>>

\* A reader that has its answer has no more use of its fingerprint.
Drop(r) ==
  /\ fp' = [fp EXCEPT ![r] = NoPrint]
  /\ printed' = [printed EXCEPT ![r] = {}]

\* wsMu is held from the lookup to the end of a load.
Enter(r) ==
  /\ pc[r] = "print" /\ printed[r] = Files
  /\ \A q \in Readers : pc[q] \notin {"models", "rest"}

Hit(r) ==
  /\ Enter(r)
  /\ cached.filled /\ cached.fp = fp[r]
  /\ pc' = [pc EXCEPT ![r] = "served"]
  /\ got' = [got EXCEPT ![r] = cached.cat]
  /\ Drop(r)
  /\ UNCHANGED <<file, writes, cached, writer, seen>>

Miss(r) ==
  /\ Enter(r)
  /\ ~(cached.filled /\ cached.fp = fp[r])
  /\ pc' = [pc EXCEPT ![r] = "models"]
  /\ UNCHANGED <<file, writes, cached, fp, printed, got, writer, seen>>

\* Load: without usable models there is no catalog, and the entry stays.
LoadModels(r) ==
  /\ pc[r] = "models"
  /\ file["models"].content \in Usable
  /\ pc' = [pc EXCEPT ![r] = "rest"]
  /\ got' = [got EXCEPT ![r]["models"] = file["models"].content]
  /\ UNCHANGED <<file, writes, cached, fp, printed, writer, seen>>

LoadFails(r) ==
  /\ pc[r] = "models"
  /\ file["models"].content \notin Usable
  /\ pc' = [pc EXCEPT ![r] = "fellBack"]
  /\ Drop(r)
  /\ UNCHANGED <<file, writes, cached, got, writer, seen>>

Loaded(r) == [got[r] EXCEPT !["rest"] = file["rest"].content]

\* Mutated form: the catalog is filed under the fingerprint of the moment.
LoadRestFiledLate(r) ==
  /\ pc[r] = "rest"
  /\ pc' = [pc EXCEPT ![r] = "served"]
  /\ got' = [got EXCEPT ![r] = Loaded(r)]
  /\ cached' = [cat |-> Loaded(r), fp |-> [f \in Files |-> file[f].stamp],
                filled |-> TRUE]
  /\ Drop(r)
  /\ UNCHANGED <<file, writes, writer, seen>>

\* The other files are used as far as they can be read.  The entry keeps the
\* fingerprint from before the load.
LoadRest(r) ==
  /\ pc[r] = "rest"
  /\ pc' = [pc EXCEPT ![r] = "served"]
  /\ got' = [got EXCEPT ![r] = Loaded(r)]
  /\ cached' = [cat |-> Loaded(r), fp |-> fp[r], filled |-> TRUE]
  /\ Drop(r)
  /\ UNCHANGED <<file, writes, writer, seen>>

\* The request ends.
Leave(r) ==
  /\ pc[r] \in {"served", "fellBack"}
  /\ pc' = [pc EXCEPT ![r] = "idle"]
  /\ got' = [got EXCEPT ![r] = NoCatalog]
  /\ seen' = [seen EXCEPT ![r] = NothingSeen]
  /\ UNCHANGED <<file, writes, cached, fp, printed, writer>>

-----------------------------------------------------------------------------
(* Changing the workspace: a writer that fails, or has no more to do, is    *)
(* ready for another request.                                              *)

\* A write gives the file a time of its own.
Write(f, content) ==
  /\ writes < MaxWrites
  /\ writes' = writes + 1
  /\ file' = [file EXCEPT ![f] = [content |-> content, stamp |-> writes + 1]]
  /\ seen' = [r \in Readers |->
       IF UnderWay(r) THEN [seen[r] EXCEPT ![f] = @ \cup {content}] ELSE seen[r]]
  /\ UNCHANGED <<cached, readerVars>>

\* The files, and what readers know, stay.
Quiet == UNCHANGED <<file, writes, cached, readerVars, seen>>

Begin(w, step, f) ==
  /\ writer[w] = NoTask
  /\ writer' = [writer EXCEPT ![w] = [step |-> step, on |-> f]]
  /\ Quiet

At(w, step) == writer[w] # NoTask /\ writer[w].step = step

Go(w, step) == writer' = [writer EXCEPT ![w].step = step]
Done(w) == writer' = [writer EXCEPT ![w] = NoTask]

\* The models are missing, and are created empty even if they no longer are.
FindMissing(w) ==
  /\ file["models"].content = Absent
  /\ Begin(w, "scaffold", "models")

ensureWorkspaceScaffold(w) ==
  \/ At(w, "scaffold") /\ Write("models", Torn) /\ Go(w, "scaffolded")
  \/ At(w, "scaffolded") /\ Write("models", Scaffold) /\ Done(w)

putProfileDataset(w, f) ==
  /\ file["models"].content # Absent
  /\ Begin(w, "put", f)

\* ReplaceDataset: the file is emptied, and then written.
Truncate(w) ==
  /\ At(w, "put")
  /\ Write(writer[w].on, Torn)
  /\ Go(w, "truncated")

WriteContent(w, content) ==
  /\ At(w, "truncated")
  /\ Write(writer[w].on, content)
  /\ Go(w, "written")

\* Load, without the lock of the readers and without their cache.
Validate(w) ==
  /\ At(w, "written")
  /\ IF file["models"].content \in Usable THEN Done(w) ELSE Go(w, "reject")
  /\ Quiet

\* RestoreDatasetBackup: without a previous file there is nothing to restore,
\* which nobody is told, and the content that was rejected stays.
NothingToRestore(w) ==
  /\ At(w, "reject")
  /\ Done(w)
  /\ Quiet

\* What the backup holds is left open: another put of the same second has
\* written its own under the same name.
RestoreBackup(w) ==
  \/ At(w, "reject") /\ Write(writer[w].on, Torn) /\ Go(w, "emptied")
  \/ /\ At(w, "emptied")
     /\ \E content \in Contents \cup {Torn} : Write(writer[w].on, content)
     /\ Done(w)

\* ApplyPhysicalSnapshot: the columns collected are merged with the models the
\* workspace has, and then the relations with theirs; either may have no news.
buildProfileCatalog(w, f) ==
  /\ file["models"].content # Absent
  /\ file["models"].content # Torn /\ file[f].content # Torn
  /\ Begin(w, "merge", f)

\* A curated import goes into a workspace that compiles.
omImportToProfile(w) ==
  /\ file["models"].content \in Usable
  /\ file["rest"].content # Torn
  /\ Begin(w, "merge", "rest")

\* writeJSONFile: the merged file is written beside the old one.
Stage(w) ==
  /\ At(w, "merge")
  /\ Go(w, "staged")
  /\ Quiet

\* The other merges that have the temporary file open: it has one name for all.
Sharing(w) ==
  {v \in Writers \ {w} : At(v, "staged") /\ writer[v].on = writer[w].on}

\* It replaces the old one as a whole, though it may be that of another merge,
\* or half of it.  After the models come the relations.
Rename(w, content) ==
  /\ At(w, "staged") \/ (At(w, "lost") /\ Sharing(w) # {})
  /\ content = Torn => Sharing(w) # {}
  /\ Write(writer[w].on, content)
  /\ \E next \in {NoTask, [step |-> "merge", on |-> "rest"]} :
       /\ next # NoTask => /\ writer[w].on = "models"
                          /\ file["rest"].content # Torn
       /\ writer' = [v \in Writers |->
            IF v = w THEN next
            ELSE IF v \in Sharing(w) THEN [writer[v] EXCEPT !.step = "lost"]
            ELSE writer[v]]

\* Another merge has renamed it: what was written since is in the live file, if
\* that is still there, and there is nothing left to rename.
RenameLost(w) ==
  /\ At(w, "lost") /\ Sharing(w) = {}
  /\ \/ Quiet
     \/ /\ file[writer[w].on].content # Absent
        /\ \E content \in Contents \cup {Torn} : Write(writer[w].on, content)
  /\ Done(w)

\* The disk fails: the file stays as it is, and nothing is rolled back.
DiskFails(w) ==
  /\ \E step \in {"scaffold", "scaffolded", "put", "truncated", "emptied",
                  "merge", "staged"} : At(w, step)
  /\ Done(w)
  /\ Quiet

-----------------------------------------------------------------------------
Use(r) ==
  \/ catalogFor(r) \/ Hit(r) \/ Miss(r) \/ LoadModels(r) \/ LoadFails(r)
  \/ LoadRest(r) \/ Leave(r)
  \/ \E f \in Files : workspaceFingerprint(r, f)

Change(w) ==
  \/ FindMissing(w) \/ ensureWorkspaceScaffold(w)
  \/ Truncate(w) \/ Validate(w) \/ NothingToRestore(w) \/ RestoreBackup(w)
  \/ omImportToProfile(w) \/ Stage(w) \/ RenameLost(w) \/ DiskFails(w)
  \/ \E f \in Files : putProfileDataset(w, f) \/ buildProfileCatalog(w, f)
  \/ \E content \in Contents : WriteContent(w, content)
  \/ \E content \in Contents \cup {Torn} : Rename(w, content)

WsNext ==
  \/ \E r \in Readers : Use(r)
  \/ \E w \in Writers : Change(w)

WsSpec == WsInit /\ [][WsNext]_wsVars

-----------------------------------------------------------------------------
WsTypeOK ==
  /\ file \in [Files -> Stamped]
  /\ writes \in 0 .. MaxWrites
  /\ cached \in [cat: Catalogs, fp: Prints, filled: BOOLEAN]
  /\ pc \in [Readers -> {"idle", "print", "models", "rest", "served", "fellBack"}]
  /\ fp \in [Readers -> Prints]
  /\ printed \in [Readers -> SUBSET Files]
  /\ got \in [Readers -> Catalogs]
  /\ writer \in [Writers -> Task \cup {NoTask}]
  /\ seen \in [Readers -> [Files -> SUBSET Held]]

\* A request is answered from its own time: each file is in the catalog as it
\* was at some moment of the request, though the catalog may have been compiled
\* for another one and files change at every step; and only a workspace that
\* was unusable at some moment of the request is passed over for the active
\* catalog (workspaceCatalog, catalogFor).
AnswersAreOfTheirTime ==
  \A r \in Readers :
    /\ pc[r] = "served" => \A f \in Files : got[r][f] \in seen[r][f]
    /\ pc[r] = "fellBack" => seen[r]["models"] \ Usable # {}

=============================================================================
