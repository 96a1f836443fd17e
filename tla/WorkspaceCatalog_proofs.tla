----------------------- MODULE WorkspaceCatalog_proofs -----------------------
(* Requests are answered from catalogs of their own time, for any number of *)
(* readers, writers, contents and writes.                                   *)
EXTENDS WorkspaceCatalog, TLAPS

-----------------------------------------------------------------------------
(* The inductive invariant                                                  *)

\* No file is newer than the last write, so that a write makes every
\* fingerprint of its file old.
TimesArePast ==
  /\ \A f \in Files : file[f].stamp <= writes /\ cached.fp[f] <= writes
  /\ \A r \in Readers, f \in Files : fp[r][f] <= writes

\* Only a reader before its load has taken fingerprints, and one that loads has
\* taken them all.
PrintsInOrder ==
  \A r \in Readers :
    /\ pc[r] \in {"idle", "served", "fellBack"} => printed[r] = {}
    /\ pc[r] \in {"models", "rest"} => printed[r] = Files

\* A reader sees what files hold as long as it is under way.
SeesNow ==
  \A r \in Readers, f \in Files : UnderWay(r) => file[f].content \in seen[r][f]

\* A catalog whose fingerprint of a file is the current one has its content.
CacheIsTrue ==
  cached.filled =>
    \A f \in Files : cached.fp[f] = file[f].stamp => cached.cat[f] = file[f].content

\* The same of the models that a load has read.
LoadIsTrue ==
  \A r \in Readers :
    pc[r] = "rest" /\ fp[r]["models"] = file["models"].stamp =>
      got[r]["models"] = file["models"].content

\* A catalog with the fingerprint that a reader has taken of a file has a
\* content of the file that the reader has seen.
CacheWasSeen ==
  cached.filled =>
    \A r \in Readers : UnderWay(r) =>
      \A f \in printed[r] : cached.fp[f] = fp[r][f] => cached.cat[f] \in seen[r][f]

\* The same of the models that a load has read.
LoadWasSeen ==
  \A q, r \in Readers :
    pc[q] = "rest" /\ UnderWay(r) /\ "models" \in printed[r]
      /\ fp[q]["models"] = fp[r]["models"] => got[q]["models"] \in seen[r]["models"]

WsInv ==
  /\ WsTypeOK /\ TimesArePast /\ PrintsInOrder /\ SeesNow
  /\ CacheIsTrue /\ LoadIsTrue /\ CacheWasSeen /\ LoadWasSeen
  /\ AnswersAreOfTheirTime

-----------------------------------------------------------------------------
LEMMA InitInv == WsInit => WsInv
<1> SUFFICES ASSUME WsInit PROVE WsInv
  OBVIOUS
<1> USE WritesAssumption, ContentsAssumption
<1>1. Usable \cup {Absent} \subseteq Held /\ Absent \in Held /\ 0 \in 0 .. MaxWrites
  BY DEF Held
<1>2. WsTypeOK
  BY <1>1 DEF WsInit, WsTypeOK, Stamped, Catalogs, Prints, NoCatalog, NoPrint, NothingSeen
<1>3. TimesArePast
  BY DEF WsInit, TimesArePast, NoPrint, Files
<1> QED
  BY <1>2, <1>3 DEF WsInit, WsInv, PrintsInOrder, SeesNow, CacheIsTrue, LoadIsTrue,
     CacheWasSeen, LoadWasSeen, AnswersAreOfTheirTime, UnderWay

-----------------------------------------------------------------------------
(* Writers: a step writes nothing, or one file.                             *)

LEMMA WriterSteps ==
  ASSUME WsTypeOK, NEW w \in Writers, Change(w)
  PROVE  /\ writer' \in [Writers -> Task \cup {NoTask}]
         /\ \/ Quiet
            \/ \E f \in Files, content \in Held : Write(f, content)
<1> USE DEF Files
<1>1. \A step : At(w, step) => writer[w] \in Task
  BY DEF WsTypeOK, At
<1>2. writer \in [Writers -> Task \cup {NoTask}]
  BY DEF WsTypeOK
<1>3. Contents \cup {Torn, Absent} = Held /\ Scaffold \in Held
  BY ContentsAssumption DEF Held
<1>4. Done(w) => writer' \in [Writers -> Task \cup {NoTask}]
  BY <1>2 DEF Done
<1>5. ASSUME NEW s, writer[w] \in Task, Go(w, s),
             s \in {"scaffold", "scaffolded", "put", "truncated", "written",
                    "reject", "emptied", "merge", "staged", "lost"}
      PROVE  writer' \in [Writers -> Task \cup {NoTask}]
  <2>1. [writer[w] EXCEPT !.step = s] \in Task
    BY <1>5 DEF Task
  <2> QED
    BY <1>2, <1>5, <2>1 DEF Go
<1>6. ASSUME NEW s, NEW f \in Files, Begin(w, s, f),
             s \in {"scaffold", "scaffolded", "put", "truncated", "written",
                    "reject", "emptied", "merge", "staged", "lost"}
      PROVE  writer' \in [Writers -> Task \cup {NoTask}] /\ Quiet
  <2>1. [step |-> s, on |-> f] \in Task
    BY <1>6 DEF Task
  <2> QED
    BY <1>2, <1>6, <2>1 DEF Begin
<1>7. writer[w] \in Task => writer[w].on \in Files
  BY DEF Task
<1>a. CASE FindMissing(w)
  BY <1>a, <1>6 DEF FindMissing
<1>b. CASE ensureWorkspaceScaffold(w)
  BY <1>b, <1>1, <1>3, <1>4, <1>5 DEF ensureWorkspaceScaffold
<1>c. CASE Truncate(w)
  BY <1>c, <1>1, <1>3, <1>5, <1>7 DEF Truncate
<1>d. CASE Validate(w)
  BY <1>d, <1>1, <1>4, <1>5 DEF Validate
<1>e. CASE NothingToRestore(w)
  BY <1>e, <1>4 DEF NothingToRestore
<1>f. CASE RestoreBackup(w)
  <2>1. CASE At(w, "reject") /\ Write(writer[w].on, Torn) /\ Go(w, "emptied")
    BY <2>1, <1>1, <1>3, <1>5, <1>7
  <2>2. CASE /\ At(w, "emptied") /\ Done(w)
             /\ \E content \in Contents \cup {Torn} : Write(writer[w].on, content)
    BY <2>2, <1>1, <1>3, <1>4, <1>7
  <2> QED
    BY <1>f, <2>1, <2>2 DEF RestoreBackup
<1>g. ASSUME NEW f \in Files, buildProfileCatalog(w, f)
      PROVE  writer' \in [Writers -> Task \cup {NoTask}] /\ Quiet
  BY <1>g, <1>6 DEF buildProfileCatalog
<1>h. CASE omImportToProfile(w)
  BY <1>h, <1>6 DEF omImportToProfile
<1>i. CASE DiskFails(w)
  BY <1>i, <1>4 DEF DiskFails
<1>j. ASSUME NEW f \in Files, putProfileDataset(w, f)
      PROVE  writer' \in [Writers -> Task \cup {NoTask}] /\ Quiet
  BY <1>j, <1>6 DEF putProfileDataset
<1>k. ASSUME NEW content \in Contents, WriteContent(w, content)
      PROVE  /\ writer' \in [Writers -> Task \cup {NoTask}]
             /\ Write(writer[w].on, content) /\ writer[w].on \in Files
  BY <1>k, <1>1, <1>5, <1>7 DEF WriteContent
<1>l. ASSUME NEW content \in Contents \cup {Torn}, Rename(w, content)
      PROVE  /\ writer' \in [Writers -> Task \cup {NoTask}]
             /\ Write(writer[w].on, content) /\ writer[w].on \in Files
  <2>1. writer[w] \in Task
    BY <1>l, <1>1 DEF Rename
  <2>2. [step |-> "merge", on |-> "rest"] \in Task
    BY DEF Task
  <2>3. ASSUME NEW v \in Sharing(w)
        PROVE  [writer[v] EXCEPT !.step = "lost"] \in Task
    <3>1. writer[v] \in Task
      BY <1>2 DEF Sharing, At
    <3> QED
      BY <3>1 DEF Task
  <2>4. PICK next \in {NoTask, [step |-> "merge", on |-> "rest"]} :
          writer' = [v \in Writers |->
            IF v = w THEN next
            ELSE IF v \in Sharing(w) THEN [writer[v] EXCEPT !.step = "lost"]
            ELSE writer[v]]
    BY <1>l DEF Rename
  <2>5. writer' \in [Writers -> Task \cup {NoTask}]
    BY <1>2, <2>2, <2>3, <2>4
  <2> QED
    BY <1>l, <1>7, <2>1, <2>5 DEF Rename
<1>m. CASE Stage(w)
  BY <1>m, <1>1, <1>5 DEF Stage
<1>n. CASE RenameLost(w)
  <2>1. CASE Quiet
    BY <1>n, <2>1, <1>4 DEF RenameLost
  <2>2. CASE \E content \in Contents \cup {Torn} : Write(writer[w].on, content)
    BY <1>n, <2>2, <1>1, <1>3, <1>4, <1>7 DEF RenameLost
  <2> QED
    BY <1>n, <2>1, <2>2 DEF RenameLost
<1> QED
  BY <1>3, <1>a, <1>b, <1>c, <1>d, <1>e, <1>f, <1>g, <1>h, <1>i, <1>j, <1>k, <1>l,
     <1>m, <1>n
     DEF Change

LEMMA QuietKeeps ==
  ASSUME WsInv, Quiet, writer' \in [Writers -> Task \cup {NoTask}]
  PROVE  WsInv'
BY DEF Quiet, readerVars, WsInv, WsTypeOK, TimesArePast, PrintsInOrder, SeesNow,
   CacheIsTrue, LoadIsTrue, CacheWasSeen, LoadWasSeen, AnswersAreOfTheirTime, UnderWay

\* A write makes every fingerprint of its file old, and every reader sees it.
LEMMA WriteKeeps ==
  ASSUME WsInv, NEW f \in Files, NEW content \in Held, Write(f, content),
         writer' \in [Writers -> Task \cup {NoTask}]
  PROVE  WsInv'
<1> USE WritesAssumption
<1>1. /\ writes' = writes + 1 /\ writes \in 0 .. MaxWrites
      /\ writes' \in 0 .. MaxWrites
      /\ file'[f] = [content |-> content, stamp |-> writes + 1]
      /\ \A g \in Files \ {f} : file'[g] = file[g]
      /\ file' \in [Files -> Stamped]
      /\ UNCHANGED <<cached, pc, fp, printed, got>>
  BY DEF WsInv, WsTypeOK, Write, readerVars, Stamped
<1>2. /\ seen' \in [Readers -> [Files -> SUBSET Held]]
      /\ \A r \in Readers, g \in Files :
           /\ seen[r][g] \subseteq seen'[r][g]
           /\ UnderWay(r) => content \in seen'[r][f]
           /\ ~UnderWay(r) => seen'[r] = seen[r]
  BY DEF WsInv, WsTypeOK, Write
<1>3. WsTypeOK'
  BY <1>1, <1>2 DEF WsInv, WsTypeOK
<1>4. /\ \A g \in Files : /\ file[g].stamp \in Nat /\ cached.fp[g] \in Nat
                          /\ \A r \in Readers : fp[r][g] \in Nat
      /\ writes \in Nat
  BY DEF WsInv, WsTypeOK, Stamped, Prints
<1>5. TimesArePast'
  BY <1>1, <1>4 DEF WsInv, TimesArePast
<1>6. \A g \in Files : /\ cached.fp[g] # writes + 1
                       /\ \A r \in Readers : fp[r][g] # writes + 1
  BY <1>4 DEF WsInv, TimesArePast
<1>7. PrintsInOrder'
  BY <1>1 DEF WsInv, PrintsInOrder
<1>8. SeesNow'
  BY <1>1, <1>2 DEF WsInv, SeesNow, UnderWay
<1>9. CacheIsTrue'
  BY <1>1, <1>6 DEF WsInv, CacheIsTrue
<1>10. LoadIsTrue'
  BY <1>1, <1>6 DEF WsInv, LoadIsTrue, Files
<1>11. CacheWasSeen'
  <2>1. \A r \in Readers : printed[r] \subseteq Files
    BY DEF WsInv, WsTypeOK
  <2> QED
    BY <1>1, <1>2, <2>1 DEF WsInv, CacheWasSeen, UnderWay
<1>12. LoadWasSeen'
  BY <1>1, <1>2 DEF WsInv, LoadWasSeen, UnderWay, Files
<1>13. AnswersAreOfTheirTime'
  BY <1>1, <1>2 DEF WsInv, AnswersAreOfTheirTime, UnderWay
<1> QED
  BY <1>3, <1>5, <1>7, <1>8, <1>9, <1>10, <1>11, <1>12, <1>13 DEF WsInv

-----------------------------------------------------------------------------
(* Readers                                                                  *)

LEMMA BeginKeeps ==
  ASSUME WsInv, NEW r \in Readers, catalogFor(r)
  PROVE  WsInv'
<1> USE DEF WsInv, catalogFor
<1>1. /\ pc' \in [Readers -> {"idle", "print", "models", "rest", "served", "fellBack"}]
      /\ pc'[r] \in {"fellBack", "print"} /\ printed[r] = {}
      /\ pc'[r] = "fellBack" <=> file["models"].content = Absent
      /\ \A q \in Readers \ {r} : pc'[q] = pc[q] /\ seen'[q] = seen[q]
      /\ seen'[r] = [f \in Files |-> {file[f].content}]
  BY DEF WsTypeOK, PrintsInOrder
<1>2. WsTypeOK'
  <2>1. [f \in Files |-> {file[f].content}] \in [Files -> SUBSET Held]
    BY DEF WsTypeOK, Stamped
  <2> QED
    BY <1>1, <2>1 DEF WsTypeOK
<1>3. TimesArePast' /\ CacheIsTrue'
  BY DEF TimesArePast, CacheIsTrue
<1>4. PrintsInOrder' /\ LoadIsTrue'
  BY <1>1 DEF PrintsInOrder, LoadIsTrue
<1>5. SeesNow'
  BY <1>1 DEF SeesNow, UnderWay
<1>6. CacheWasSeen' /\ LoadWasSeen'
  BY <1>1 DEF CacheWasSeen, LoadWasSeen, UnderWay
<1>7. AnswersAreOfTheirTime'
  <2>1. Absent \notin Usable
    BY ContentsAssumption
  <2>2. pc'[r] = "fellBack" => seen'[r]["models"] = {Absent}
    BY <1>1 DEF Files
  <2> QED
    BY <1>1, <2>1, <2>2 DEF AnswersAreOfTheirTime
<1> QED
  BY <1>2, <1>3, <1>4, <1>5, <1>6, <1>7

LEMMA PrintKeeps ==
  ASSUME WsInv, NEW r \in Readers, NEW f \in Files, workspaceFingerprint(r, f)
  PROVE  WsInv'
<1> USE DEF WsInv, workspaceFingerprint
<1>1. /\ fp' \in [Readers -> Prints] /\ printed' \in [Readers -> SUBSET Files]
      /\ fp'[r][f] = file[f].stamp /\ printed'[r] = printed[r] \cup {f}
      /\ \A g \in Files \ {f} : fp'[r][g] = fp[r][g]
      /\ \A q \in Readers \ {r} : fp'[q] = fp[q] /\ printed'[q] = printed[q]
  BY DEF WsTypeOK, Stamped, Prints
<1>2. WsTypeOK'
  BY <1>1 DEF WsTypeOK
<1>3. TimesArePast'
  <2>1. \A q \in Readers, g \in Files : fp'[q][g] = fp[q][g] \/ fp'[q][g] = file[g].stamp
    BY <1>1
  <2> QED
    BY <2>1 DEF TimesArePast
<1>4. PrintsInOrder' /\ LoadIsTrue'
  BY <1>1 DEF PrintsInOrder, LoadIsTrue
<1>5. SeesNow' /\ CacheIsTrue' /\ AnswersAreOfTheirTime'
  BY DEF SeesNow, CacheIsTrue, AnswersAreOfTheirTime, UnderWay
<1>6. CacheWasSeen'
  <2> SUFFICES ASSUME cached.filled, NEW q \in Readers, UnderWay(q),
                      NEW g \in printed'[q], cached.fp[g] = fp'[q][g]
               PROVE  cached.cat[g] \in seen[q][g]
    BY DEF CacheWasSeen, UnderWay
  <2>1. g \in Files
    BY <1>1
  <2>2. CASE q = r /\ g = f
    BY <1>1, <2>2 DEF CacheIsTrue, SeesNow
  <2>3. CASE ~(q = r /\ g = f)
    BY <1>1, <2>1, <2>3 DEF CacheWasSeen
  <2> QED
    BY <2>2, <2>3
<1>7. LoadWasSeen'
  <2> SUFFICES ASSUME NEW p \in Readers, NEW q \in Readers, pc[p] = "rest", UnderWay(q),
                      "models" \in printed'[q], fp'[p]["models"] = fp'[q]["models"]
               PROVE  got[p]["models"] \in seen[q]["models"]
    BY DEF LoadWasSeen, UnderWay
  <2>1. fp'[p] = fp[p] /\ "models" \in Files
    BY <1>1 DEF Files
  <2>2. CASE q = r /\ f = "models"
    BY <1>1, <2>1, <2>2 DEF LoadIsTrue, SeesNow
  <2>3. CASE ~(q = r /\ f = "models")
    BY <1>1, <2>1, <2>3 DEF LoadWasSeen
  <2> QED
    BY <2>2, <2>3
<1> QED
  BY <1>2, <1>3, <1>4, <1>5, <1>6, <1>7

\* What an answered reader has left behind, and what the others keep.
AnsweredWith(r, how, cat) ==
  /\ pc' = [pc EXCEPT ![r] = how]
  /\ got' = [got EXCEPT ![r] = cat]
  /\ fp' = [fp EXCEPT ![r] = NoPrint]
  /\ printed' = [printed EXCEPT ![r] = {}]

\* The cache may have changed: the others must have seen what it has now.
LEMMA AnsweredKeeps ==
  ASSUME WsInv, NEW r \in Readers, NEW how \in {"served", "fellBack"},
         NEW cat \in Catalogs, AnsweredWith(r, how, cat),
         UNCHANGED <<file, writes, writer, seen>>,
         cached' \in [cat: Catalogs, fp: Prints, filled: BOOLEAN],
         \A f \in Files : cached'.fp[f] <= writes,
         CacheIsTrue',
         cached'.filled => \A q \in Readers \ {r} : UnderWay(q) =>
           \A f \in printed[q] : cached'.fp[f] = fp[q][f] => cached'.cat[f] \in seen[q][f],
         how = "served" => \A f \in Files : cat[f] \in seen[r][f],
         how = "fellBack" => seen[r]["models"] \ Usable # {}
  PROVE  WsInv'
<1> USE DEF WsInv, AnsweredWith
<1>1. /\ pc' \in [Readers -> {"idle", "print", "models", "rest", "served", "fellBack"}]
      /\ got' \in [Readers -> Catalogs] /\ fp' \in [Readers -> Prints]
      /\ printed' \in [Readers -> SUBSET Files]
      /\ pc'[r] = how /\ got'[r] = cat /\ fp'[r] = NoPrint /\ printed'[r] = {}
      /\ \A q \in Readers \ {r} : /\ pc'[q] = pc[q] /\ got'[q] = got[q]
                                  /\ fp'[q] = fp[q] /\ printed'[q] = printed[q]
  <2>1. NoPrint \in Prints
    BY WritesAssumption DEF NoPrint, Prints
  <2> QED
    BY <2>1 DEF WsTypeOK
<1>2. WsTypeOK'
  BY <1>1 DEF WsTypeOK
<1>3. TimesArePast'
  <2>1. \A f \in Files : NoPrint[f] <= writes
    BY DEF NoPrint, WsTypeOK
  <2> QED
    BY <1>1, <2>1 DEF TimesArePast
<1>4. PrintsInOrder' /\ SeesNow' /\ LoadIsTrue'
  BY <1>1 DEF PrintsInOrder, SeesNow, LoadIsTrue, UnderWay
<1>5. CacheWasSeen' /\ LoadWasSeen'
  BY <1>1 DEF CacheWasSeen, LoadWasSeen, UnderWay
<1>6. AnswersAreOfTheirTime'
  BY <1>1 DEF AnswersAreOfTheirTime
<1> QED
  BY <1>2, <1>3, <1>4, <1>5, <1>6

LEMMA HitKeeps ==
  ASSUME WsInv, NEW r \in Readers, Hit(r)
  PROVE  WsInv'
<1> USE DEF WsInv, Hit, Enter
<1>1. \A f \in Files : cached.cat[f] \in seen[r][f]
  BY DEF CacheWasSeen, UnderWay
<1>2. cached.cat \in Catalogs /\ AnsweredWith(r, "served", cached.cat)
  BY DEF WsTypeOK, AnsweredWith, Drop
<1>3. /\ cached' \in [cat: Catalogs, fp: Prints, filled: BOOLEAN]
      /\ \A f \in Files : cached'.fp[f] <= writes
      /\ CacheIsTrue'
      /\ cached'.filled => \A q \in Readers \ {r} : UnderWay(q) =>
           \A f \in printed[q] : cached'.fp[f] = fp[q][f] => cached'.cat[f] \in seen[q][f]
  BY DEF WsTypeOK, TimesArePast, CacheIsTrue, CacheWasSeen
<1> QED
  BY <1>1, <1>2, <1>3, AnsweredKeeps

LEMMA LoadFailsKeeps ==
  ASSUME WsInv, NEW r \in Readers, LoadFails(r)
  PROVE  WsInv'
<1> USE DEF WsInv, LoadFails
<1>1. seen[r]["models"] \ Usable # {}
  BY DEF SeesNow, UnderWay, Files
<1>2. got[r] \in Catalogs /\ AnsweredWith(r, "fellBack", got[r])
  BY DEF WsTypeOK, AnsweredWith, Drop
<1>3. /\ cached' \in [cat: Catalogs, fp: Prints, filled: BOOLEAN]
      /\ \A f \in Files : cached'.fp[f] <= writes
      /\ CacheIsTrue'
      /\ cached'.filled => \A q \in Readers \ {r} : UnderWay(q) =>
           \A f \in printed[q] : cached'.fp[f] = fp[q][f] => cached'.cat[f] \in seen[q][f]
  BY DEF WsTypeOK, TimesArePast, CacheIsTrue, CacheWasSeen
<1> QED
  BY <1>1, <1>2, <1>3, AnsweredKeeps

LEMMA LoadRestKeeps ==
  ASSUME WsInv, NEW r \in Readers, LoadRest(r)
  PROVE  WsInv'
<1> USE DEF WsInv, LoadRest
<1>1. /\ Loaded(r) \in Catalogs
      /\ Loaded(r)["models"] = got[r]["models"]
      /\ Loaded(r)["rest"] = file["rest"].content
  BY DEF Loaded, WsTypeOK, Catalogs, Stamped, Files
<1>2. /\ cached'.cat = Loaded(r) /\ cached'.fp = fp[r]
      /\ cached' \in [cat: Catalogs, fp: Prints, filled: BOOLEAN]
  BY <1>1 DEF WsTypeOK
<1>3. \A f \in Files : cached'.fp[f] <= writes
  BY <1>2 DEF TimesArePast
<1>4. CacheIsTrue'
  BY <1>1, <1>2 DEF CacheIsTrue, LoadIsTrue, Files
<1>5. \A q \in Readers : UnderWay(q) =>
        \A f \in printed[q] : fp[r][f] = fp[q][f] => Loaded(r)[f] \in seen[q][f]
  <2> SUFFICES ASSUME NEW q \in Readers, UnderWay(q), NEW f \in printed[q],
                      fp[r][f] = fp[q][f]
               PROVE  Loaded(r)[f] \in seen[q][f]
    OBVIOUS
  <2>1. CASE f = "models"
    BY <1>1, <2>1 DEF LoadWasSeen
  <2>2. CASE f = "rest"
    BY <1>1, <2>2 DEF SeesNow, Files
  <2> QED
    BY <2>1, <2>2 DEF WsTypeOK, Files
<1>6. \A f \in Files : Loaded(r)[f] \in seen[r][f]
  BY <1>5 DEF PrintsInOrder, UnderWay
<1>7. AnsweredWith(r, "served", Loaded(r))
  BY DEF AnsweredWith, Drop
<1> QED
  BY <1>1, <1>2, <1>3, <1>4, <1>5, <1>6, <1>7, AnsweredKeeps

LEMMA MissKeeps ==
  ASSUME WsInv, NEW r \in Readers, Miss(r)
  PROVE  WsInv'
<1> USE DEF WsInv, Miss, Enter
<1>1. /\ pc' \in [Readers -> {"idle", "print", "models", "rest", "served", "fellBack"}]
      /\ pc'[r] = "models" /\ \A q \in Readers \ {r} : pc'[q] = pc[q]
      /\ \A q \in Readers : UnderWay(q)' <=> UnderWay(q)
  BY DEF WsTypeOK, UnderWay
<1> QED
  BY <1>1 DEF WsTypeOK, TimesArePast, PrintsInOrder, SeesNow, CacheIsTrue, LoadIsTrue,
     CacheWasSeen, LoadWasSeen, AnswersAreOfTheirTime

LEMMA LoadModelsKeeps ==
  ASSUME WsInv, NEW r \in Readers, LoadModels(r)
  PROVE  WsInv'
<1> USE DEF WsInv, LoadModels
<1>1. /\ pc' \in [Readers -> {"idle", "print", "models", "rest", "served", "fellBack"}]
      /\ pc'[r] = "rest" /\ \A q \in Readers \ {r} : pc'[q] = pc[q]
      /\ \A q \in Readers : UnderWay(q)' <=> UnderWay(q)
  BY DEF WsTypeOK, UnderWay
<1>2. /\ got' \in [Readers -> Catalogs]
      /\ got'[r]["models"] = file["models"].content
      /\ \A q \in Readers \ {r} : got'[q] = got[q]
  BY DEF WsTypeOK, Catalogs, Stamped, Files
<1>3. WsTypeOK'
  BY <1>1, <1>2 DEF WsTypeOK
<1>4. LoadIsTrue'
  BY <1>1, <1>2 DEF LoadIsTrue
<1>5. LoadWasSeen'
  BY <1>1, <1>2 DEF LoadWasSeen, SeesNow, Files
<1> QED
  BY <1>1, <1>2, <1>3, <1>4, <1>5 DEF TimesArePast, PrintsInOrder, SeesNow, CacheIsTrue,
     CacheWasSeen, AnswersAreOfTheirTime

LEMMA WorkerLeaveKeeps ==
  ASSUME WsInv, NEW r \in Readers, Leave(r)
  PROVE  WsInv'
<1> USE DEF WsInv, Leave
<1>1. /\ pc' \in [Readers -> {"idle", "print", "models", "rest", "served", "fellBack"}]
      /\ pc'[r] = "idle" /\ printed[r] = {}
      /\ got' \in [Readers -> Catalogs]
      /\ seen' \in [Readers -> [Files -> SUBSET Held]]
      /\ \A q \in Readers \ {r} : pc'[q] = pc[q] /\ got'[q] = got[q] /\ seen'[q] = seen[q]
  BY DEF WsTypeOK, Catalogs, NoCatalog, NothingSeen, Held, PrintsInOrder
<1>2. WsTypeOK'
  BY <1>1 DEF WsTypeOK
<1>3. CacheWasSeen' /\ LoadWasSeen' /\ SeesNow'
  BY <1>1 DEF CacheWasSeen, LoadWasSeen, SeesNow, UnderWay
<1> QED
  BY <1>1, <1>2, <1>3 DEF TimesArePast, PrintsInOrder, CacheIsTrue, LoadIsTrue,
     AnswersAreOfTheirTime

-----------------------------------------------------------------------------
LEMMA StepKeeps == WsInv /\ [WsNext]_wsVars => WsInv'
<1> SUFFICES ASSUME WsInv, [WsNext]_wsVars PROVE WsInv'
  OBVIOUS
<1>1. ASSUME NEW r \in Readers, Use(r) PROVE WsInv'
  BY <1>1, BeginKeeps, PrintKeeps, HitKeeps, MissKeeps, LoadModelsKeeps,
     LoadFailsKeeps, LoadRestKeeps, WorkerLeaveKeeps DEF Use
<1>2. ASSUME NEW w \in Writers, Change(w) PROVE WsInv'
  <2>1. WsTypeOK
    BY DEF WsInv
  <2> QED
    BY <1>2, <2>1, WriterSteps, QuietKeeps, WriteKeeps
<1>3. CASE UNCHANGED wsVars
  <2>1. Quiet /\ writer' \in [Writers -> Task \cup {NoTask}]
    BY <1>3 DEF wsVars, readerVars, Quiet, WsInv, WsTypeOK
  <2> QED
    BY <2>1, QuietKeeps
<1> QED
  BY <1>1, <1>2, <1>3 DEF WsNext

\* A request is answered with contents that the files had while it was under
\* way, and the active catalog stands in only for a workspace that was unusable
\* at some moment of it (workspaceCatalog, catalogFor).
THEOREM AnswersAlwaysOfTheirTime == WsSpec => []AnswersAreOfTheirTime
<1>1. WsInv => AnswersAreOfTheirTime
  BY DEF WsInv
<1> QED
  BY <1>1, InitInv, StepKeeps, PTL DEF WsSpec
=============================================================================
