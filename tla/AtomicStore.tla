----------------------------- MODULE AtomicStore -----------------------------
(***************************************************************************)
(* What the dataset store promises the callers of its locked handlers,     *)
(* whatever files, backups and goroutines are behind it: between its call  *)
(* and its answer a change takes effect in one step, for every reader, or  *)
(* not at all, and the answer tells which; what it replaces is kept        *)
(* first; what it leaves compiles; and with a meta DB it is stored before  *)
(* it is answered.  The first file write or meta DB call that fails ends   *)
(* the promise.                                                            *)
(***************************************************************************)
EXTENDS Integers

CONSTANTS
  Workers, Datasets, InDB, Absent, Silent,
  Inputs,    \* Inputs[d]: the documents callers send for dataset d
  Catalogs,  \* the documents of all datasets that make a catalog together
  Errors     \* Errors[c][d]: the errors of catalog c attributed to dataset d

VARIABLES
  served,  \* served[d]: the document of d that every reader sees
  stored,  \* stored[d]: the document of d a later reload brings back
  kept,    \* kept[d]: the documents of d that can be restored
  asked,   \* the changes being served, and the fate each has met
  answer,  \* the response the last step sent, or Silent
  broken   \* has a file write or a call of the meta DB failed

promised == <<served, stored, kept, asked, answer, broken>>

Busy == {r.by : r \in asked}

After(r) == [served EXCEPT ![r.ds] = r.doc]

\* force asks for a catalog; without it the document brings no new errors.
Valid(r) ==
  /\ After(r) \in Catalogs
  /\ r.force \/ Errors[After(r)][r.ds] <= Errors[served][r.ds]

Meets(r, fate) == asked' = (asked \ {r}) \cup {[r EXCEPT !.fate = fate]}

Answer(r, res) ==
  /\ asked' = asked \ {r}
  /\ answer' = <<r.by, res>>

AtomicInit ==
  /\ served \in Catalogs
  /\ stored = IF InDB THEN served ELSE [d \in Datasets |-> Absent]
  /\ kept = [d \in Datasets |-> {}]
  /\ asked = {}
  /\ answer = Silent
  /\ ~broken

\* Backups of one second share a name, so that keeping may also forget.
Ask(w, d, doc, force) ==
  /\ w \notin Busy
  /\ \/ doc \in Inputs[d]
     \/ doc \in kept[d] /\ force
     \/ doc = Absent /\ served[d] # Absent /\ force
  /\ asked' = asked \cup
       {[by |-> w, ds |-> d, doc |-> doc, force |-> force, fate |-> "open"]}
  /\ \E docs \in SUBSET ((kept[d] \cup {served[d]}) \ {Absent}) :
       /\ served[d] \in docs \cup {Absent}
       /\ kept' = [kept EXCEPT ![d] = docs]
  /\ answer' = Silent
  /\ UNCHANGED <<served, stored, broken>>

Apply(r) ==
  /\ r.fate = "open" /\ Valid(r)
  /\ served[r.ds] \in kept[r.ds] \cup {Absent}
  /\ served' = After(r)
  /\ IF InDB THEN Meets(r, "applied") /\ answer' = Silent
             ELSE Answer(r, "applied")
  /\ UNCHANGED <<stored, kept, broken>>

Store(r) ==
  /\ r.fate = "applied"
  /\ stored' = [stored EXCEPT ![r.ds] = served[r.ds]]
  /\ Answer(r, "applied")
  /\ UNCHANGED <<served, kept, broken>>

\* A removal that is refused is answered at once.
Refuse(r) ==
  /\ r.fate = "open" /\ ~Valid(r)
  /\ IF r.doc = Absent THEN Answer(r, "error")
                       ELSE Meets(r, "refused") /\ answer' = Silent
  /\ UNCHANGED <<served, stored, kept, broken>>

Reject(r) ==
  /\ r.fate = "refused"
  /\ Answer(r, "rejected")
  /\ UNCHANGED <<served, stored, kept, broken>>

\* A reload or a recompile finds everything as it is served.
Confirm(w) ==
  /\ w \notin Busy
  /\ answer' = <<w, "applied">>
  /\ UNCHANGED <<served, stored, kept, asked, broken>>

Pass ==
  /\ answer' = Silent
  /\ UNCHANGED <<served, stored, kept, asked, broken>>

AtomicNext ==
  \/ broken'
  \/ \E w \in Workers :
       \/ \E d \in Datasets, force \in BOOLEAN :
            \E doc \in Inputs[d] \cup kept[d] \cup {Absent} : Ask(w, d, doc, force)
       \/ Confirm(w)
  \/ \E r \in asked : Apply(r) \/ Store(r) \/ Refuse(r) \/ Reject(r)
  \/ Pass

AtomicSpec == AtomicInit /\ [][AtomicNext]_promised
=============================================================================
