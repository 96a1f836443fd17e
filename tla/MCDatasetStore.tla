--------------------------- MODULE MCDatasetStore ---------------------------
(* Small instances of DatasetStore: two tables, one relation between them.  *)
EXTENDS DatasetStore, TLC

CONSTANTS t1, t2,  \* physical rows: two tables
          r12      \* a relation row that names both

MCEntries == {t1, t2, r12, Malformed}
MCNeeds == [e \in MCEntries |-> IF e = r12 THEN {t1, t2} ELSE {}]

\* Both tables in one schema: a sync with prune retires what it did not collect.
MCSchemaOf == [e \in MCEntries |-> "hr"]

\* A document that completes the model and one the loader rejects; relations
\* with and without the edge, which dangles until the model is complete.
MCInputs ==
  [d \in Datasets |->
     IF d = Phys THEN {{t1, t2}, {Malformed}}
     ELSE IF d = Rel THEN {{r12}, {}}
     ELSE {{t2}, {}}]

\* A single bad document for the physical models.
MCOneInput ==
  [d \in Datasets |-> IF d = Phys THEN {{Malformed}}
                      ELSE IF d = Rules THEN {{}} ELSE {}]

\* Rules are learned that the stored row does not hold.
MCLearnInput == [d \in Datasets |-> IF d = Rules THEN {{t2}} ELSE {}]

MCSnapshots == {[phys |-> {t1, t2}, rel |-> {r12}]}

\* Another table than the one the model starts with, and no relations.
MCPhysSnapshots == {[phys |-> {t2}, rel |-> {}]}

\* The physical model is as it was, a relation is new.
MCRelSnapshots == {[phys |-> {t1}, rel |-> {r12}]}

\* The data directory of a first start, with and without optional files.
MCInitFiles ==
  {[d \in Datasets |-> IF d = Phys THEN {t1} ELSE IF d \in Required THEN {}
                        ELSE x] : x \in {{r12}, Absent}}

\* Every dataset present, so that each one has a row in the meta DB.
MCFullFiles == {[d \in Datasets |-> IF d = Phys THEN {t1} ELSE {}]}

\* Workers are interchangeable; used by the runs without liveness.
WorkerSymmetry == Permutations(Workers)
=============================================================================
