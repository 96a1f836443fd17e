-------------------------- MODULE QueryJobs_proofs --------------------------
(* The safety of the query jobs and of the result cache, for any number of  *)
(* workers, jobs and users and for every limit, and that the jobs implement *)
(* what JobBoard promises, up to liveness.                                  *)
EXTENDS QueryJobs, FiniteSetTheorems, TLAPS

-----------------------------------------------------------------------------
(* The inductive invariant, in parts.                                       *)

\* What was computed for a query is about that query, and a preview never gets
\* near the cache.
Matches(e) ==
  /\ e.step \in {"put", "insert", "reply"} =>
       /\ e.result \in Result
       /\ e.result.text = e.query.text
       /\ e.result.rows = RowsOf(e.query)
  /\ e.step \in {"get", "lookup", "put", "insert"} => ~e.query.preview

RunsMatch == \A r \in Runners : run[r] # None => Matches(run[r])

\* An entry is the whole answer to whatever asks for its key.
EntriesMatch ==
  \A k \in Keys : cache[k] # None =>
    /\ cache[k].result.text = k.text
    /\ cache[k].result.rows = IF k.limit = 0 THEN DefaultRows ELSE k.limit

\* Cardinalities say something of finite sets only.
CacheFits == IsFiniteSet(Entries(cache)) /\ Cardinality(Entries(cache)) <= MaxEntries

\* A goroutine's job is in the store, as running, under its submitter.
JobsAreFiled ==
  \A j \in JobIds : run[j] # None =>
    /\ jobs[j] # None
    /\ jobs[j].status = "running"
    /\ jobs[j].user = run[j].user

\* A job that is listed as running has its goroutine.
RunningRuns ==
  \A j \in JobIds : jobs[j] # None /\ jobs[j].status = "running" => run[j] # None

StoreFits ==
  /\ IsFiniteSet(Stored(jobs))
  /\ Cardinality(Stored(jobs)) <= MaxTotal
  /\ \A u \in Users : Cardinality(runningFor(jobs, u)) <= MaxPerUser

QInv ==
  /\ TypeOK
  /\ RunsMatch
  /\ EntriesMatch
  /\ CacheFits
  /\ JobsAreFiled
  /\ RunningRuns
  /\ StoreFits

-----------------------------------------------------------------------------
(* Operators                                                                *)

\* A bounded set keeps its bound when it shrinks, and when it was below it and
\* grows by one.
LEMMA FewerFit ==
  ASSUME NEW S, NEW T, IsFiniteSet(S), T \subseteq S, NEW n \in Nat, Cardinality(S) <= n
  PROVE  IsFiniteSet(T) /\ Cardinality(T) <= n
<1>1. IsFiniteSet(T) /\ Cardinality(T) <= Cardinality(S)
  BY FS_Subset
<1>2. Cardinality(S) \in Nat /\ Cardinality(T) \in Nat
  BY <1>1, FS_CardinalityType
<1> QED
  BY <1>1, <1>2

LEMMA OneMoreFits ==
  ASSUME NEW S, NEW T, NEW x, IsFiniteSet(S), T \subseteq S \cup {x},
         NEW n \in Nat, Cardinality(S) < n
  PROVE  IsFiniteSet(T) /\ Cardinality(T) <= n
<1>1. Cardinality(S) \in Nat
  BY FS_CardinalityType
<1>2. /\ IsFiniteSet(S \cup {x})
      /\ Cardinality(S \cup {x}) \in {Cardinality(S), Cardinality(S) + 1}
  BY FS_AddElement, Zenon
<1>3. Cardinality(S \cup {x}) <= n
  BY <1>1, <1>2
<1> QED
  BY <1>2, <1>3, FewerFit

LEMMA RunnerSets == Workers \subseteq Runners /\ JobIds \subseteq Runners
BY DEF Runners

\* The answer to a query is a result that matches it (Execute).
LEMMA AnswerMatches ==
  ASSUME NEW q \in Query
  PROVE  /\ Answer(q) \in Result
         /\ Answer(q).text = q.text
         /\ Answer(q).rows = RowsOf(q)
<1>1. q.text \in Texts /\ q.limit \in Nat /\ q.binds \in Binds /\ q.preview \in BOOLEAN
  BY LimitsAssumption DEF Query
<1>2. RowsOf(q) \in Nat
  BY <1>1, LimitsAssumption DEF RowsOf
<1> QED
  BY <1>1, <1>2 DEF Answer, Result

LEMMA KeyOfQuery ==
  ASSUME NEW q \in Query
  PROVE  /\ cacheKey(q) \in Keys
         /\ cacheKey(q).text = q.text
         /\ cacheKey(q).limit = q.limit
BY DEF Query, cacheKey, Keys

\* A goroutine starts with an execution of its query (executeGuarded).
LEMMA StartIsExecution ==
  ASSUME NEW q \in Query, NEW u \in Users \cup {None}, NEW fresh \in BOOLEAN
  PROVE  /\ Start(q, u, fresh) \in Execution
         /\ Start(q, u, fresh) # None
         /\ Start(q, u, fresh).user = u
         /\ Start(q, u, fresh).query = q
         /\ Start(q, u, fresh).step \in {"exec", "get"}
         /\ Start(q, u, fresh).step = "get" => ~q.preview
<1>1. Start(q, u, fresh) \in Execution
  BY LimitsAssumption DEF Start, Execution
<1> QED
  BY <1>1, NoneAssumption DEF Start, Query

\* Fewer entries stay, as they were, and there is room for one (put).
LEMMA RoomForOne ==
  ASSUME NEW c \in [Keys -> Entry \cup {None}],
         IsFiniteSet(Entries(c)), Cardinality(Entries(c)) <= MaxEntries
  PROVE  /\ MakeRoom(c) \in [Keys -> Entry \cup {None}]
         /\ \A k \in Keys : MakeRoom(c)[k] \in {c[k], None}
         /\ IsFiniteSet(Entries(MakeRoom(c)))
         /\ Cardinality(Entries(MakeRoom(c))) < MaxEntries
<1> DEFINE live == [k \in Keys |-> IF c[k] # None /\ c[k].life = 0
                                     THEN None ELSE c[k]]
<1> DEFINE empty == [k \in Keys |-> None]
<1>1. /\ live \in [Keys -> Entry \cup {None}]
      /\ \A k \in Keys : live[k] \in {c[k], None}
      /\ Entries(live) \subseteq Entries(c)
  BY DEF Entries
<1>2. IsFiniteSet(Entries(live))
  BY <1>1, FS_Subset
<1>3. Entries(empty) = {}
  BY DEF Entries
<1>4. IsFiniteSet(Entries(empty)) /\ Cardinality(Entries(empty)) = 0
  BY <1>3, FS_EmptySet
<1>5. 0 < MaxEntries /\ MaxEntries \in Nat
  BY LimitsAssumption
<1>6. CASE Cardinality(Entries(c)) < MaxEntries
  BY <1>6 DEF MakeRoom
<1>7. CASE ~(Cardinality(Entries(c)) < MaxEntries) /\ Cardinality(Entries(live)) < MaxEntries
  <2>1. MakeRoom(c) = live
    BY <1>7 DEF MakeRoom
  <2> QED
    BY <1>1, <1>2, <1>7, <2>1
<1>8. CASE ~(Cardinality(Entries(c)) < MaxEntries) /\ ~(Cardinality(Entries(live)) < MaxEntries)
  <2>1. MakeRoom(c) = empty
    BY <1>8 DEF MakeRoom
  <2> QED
    BY <1>4, <1>5, <2>1
<1> QED
  BY <1>6, <1>7, <1>8

\* A put never takes the cache over its bound.
LEMMA OneMoreEntry ==
  ASSUME NEW c \in [Keys -> Entry \cup {None}], NEW k \in Keys, NEW e,
         IsFiniteSet(Entries(c)), Cardinality(Entries(c)) < MaxEntries
  PROVE  /\ IsFiniteSet(Entries([c EXCEPT ![k] = e]))
         /\ Cardinality(Entries([c EXCEPT ![k] = e])) <= MaxEntries
<1>1. Entries([c EXCEPT ![k] = e]) \subseteq Entries(c) \cup {k}
  BY DEF Entries
<1> QED
  BY <1>1, OneMoreFits, LimitsAssumption

-----------------------------------------------------------------------------
(* One step of a goroutine inside executeGuarded.                           *)

\* What the steps of executeGuarded do to a runner's record, one by one.
LEMMA TypeOfRun ==
  ASSUME TypeOK, NEW r \in Runners, run[r] # None
  PROVE  /\ run[r] \in Execution
         /\ run[r].query \in Query
         /\ cacheKey(run[r].query) \in Keys
BY KeyOfQuery DEF TypeOK, Execution

\* A runner that goes on with another record, which is an execution as well
\* and of the same user, disturbs no job.
LEMMA RunnerGoesOn ==
  ASSUME QInv, NEW r \in Runners, run[r] # None, UNCHANGED <<ttl, jobs, applying>>,
         NEW e \in Execution, e.user = run[r].user, Matches(e),
         run' = [run EXCEPT ![r] = e]
  PROVE  /\ run' \in [Runners -> Execution \cup {None}]
         /\ RunsMatch'
         /\ JobsAreFiled' /\ RunningRuns' /\ StoreFits'
<1>1. e # None
  BY NoneAssumption
<1>2. run \in [Runners -> Execution \cup {None}]
  BY DEF QInv, TypeOK
<1>3. /\ run' \in [Runners -> Execution \cup {None}]
      /\ \A j \in JobIds : run'[j] # None <=> run[j] # None
      /\ \A j \in JobIds : run[j] # None => run'[j].user = run[j].user
  BY <1>1, <1>2, RunnerSets
<1>4. RunsMatch'
  BY <1>2, <1>3 DEF QInv, RunsMatch, Matches, RowsOf
<1> QED
  BY <1>3, <1>4 DEF QInv, JobsAreFiled, RunningRuns, StoreFits, Stored, runningFor

\* The steps of executeGuarded that leave the cache alone: whether it is asked
\* at all, the query's start and end, and the lifetime a put reads.
LEMMA QuietStep ==
  ASSUME QInv, NEW r \in Runners,
         Enabled(r) \/ Exec(r) \/ EndExec(r) \/ ReadTTL(r)
  PROVE  QInv'
<1> DEFINE q == run[r].query
<1>1. run[r] # None
  BY DEF Enabled, Exec, EndExec, ReadTTL, At
<1>2. run[r] \in Execution /\ q \in Query
  BY <1>1, TypeOfRun DEF QInv
<1>3. Matches(run[r])
  BY <1>1 DEF QInv, RunsMatch
<1>4. UNCHANGED <<ttl, jobs, applying, cache>>
  BY DEF Enabled, Exec, EndExec, ReadTTL
<1>5. \E e \in Execution : e.user = run[r].user /\ Matches(e) /\ run' = [run EXCEPT ![r] = e]
  <2>1. CASE Enabled(r)
    <3> DEFINE e == [run[r] EXCEPT !.step = IF ttl > 0 THEN "lookup" ELSE "exec"]
    <3>1. e \in Execution /\ e.user = run[r].user
      BY <1>2 DEF Execution
    <3>2. run[r].step = "get" /\ run' = [run EXCEPT ![r] = e]
      BY <2>1 DEF Enabled, At
    <3>3. Matches(e)
      BY <1>2, <1>3, <3>2 DEF Matches, Execution
    <3> QED
      BY <3>1, <3>2, <3>3
  <2>2. CASE Exec(r)
    <3>1. PICK s \in {"running", "failed"} : run' = [run EXCEPT ![r].step = s]
      BY <2>2 DEF Exec
    <3> DEFINE e == [run[r] EXCEPT !.step = s]
    <3>2. e \in Execution /\ e.user = run[r].user /\ run' = [run EXCEPT ![r] = e]
      BY <1>2, <3>1 DEF Execution
    <3>3. Matches(e)
      BY <1>2, <3>1 DEF Matches, Execution
    <3> QED
      BY <3>2, <3>3
  <2>3. CASE EndExec(r)
    <3>1. CASE run' = [run EXCEPT ![r].step = "failed"]
      <4> DEFINE e == [run[r] EXCEPT !.step = "failed"]
      <4>1. e \in Execution /\ e.user = run[r].user /\ run' = [run EXCEPT ![r] = e]
        BY <1>2, <3>1 DEF Execution
      <4>2. Matches(e)
        BY <1>2 DEF Matches, Execution
      <4> QED
        BY <4>1, <4>2
    <3>2. CASE run' = [run EXCEPT ![r].step = IF q.preview THEN "reply" ELSE "put",
                                  ![r].result = Answer(q)]
      <4> DEFINE e == [run[r] EXCEPT !.step = IF q.preview THEN "reply" ELSE "put",
                                     !.result = Answer(q)]
      <4>1. Answer(q) \in Result /\ Answer(q).text = q.text /\ Answer(q).rows = RowsOf(q)
        BY <1>2, AnswerMatches
      <4>2. e \in Execution /\ e.user = run[r].user /\ e.query = q /\ e.result = Answer(q)
        BY <1>2, <4>1 DEF Execution
      <4>3. e.step = IF q.preview THEN "reply" ELSE "put"
        BY <1>2 DEF Execution
      <4>4. Matches(e)
        BY <4>1, <4>2, <4>3 DEF Matches
      <4>5. run' = [run EXCEPT ![r] = e]
        BY <3>2
      <4> QED
        BY <4>2, <4>4, <4>5
    <3> QED
      BY <2>3, <3>1, <3>2 DEF EndExec
  <2>4. CASE ReadTTL(r)
    <3>1. run[r].step = "put"
      BY <2>4 DEF ReadTTL, At
    <3>2. CASE run' = [run EXCEPT ![r].step = "reply"]
      <4> DEFINE e == [run[r] EXCEPT !.step = "reply"]
      <4>1. e \in Execution /\ e.user = run[r].user /\ run' = [run EXCEPT ![r] = e]
        BY <1>2, <3>2 DEF Execution
      <4>2. Matches(e)
        BY <1>2, <1>3, <3>1 DEF Matches, Execution
      <4> QED
        BY <4>1, <4>2
    <3>3. CASE run' = [run EXCEPT ![r].step = "insert", ![r].life = ttl]
      <4> DEFINE e == [run[r] EXCEPT !.step = "insert", !.life = ttl]
      <4>1. e \in Execution /\ e.user = run[r].user /\ run' = [run EXCEPT ![r] = e]
        BY <1>2, <3>3 DEF Execution, QInv, TypeOK
      <4>2. Matches(e)
        BY <1>2, <1>3, <3>1 DEF Matches, Execution
      <4> QED
        BY <4>1, <4>2
    <3> QED
      BY <2>4, <3>2, <3>3 DEF ReadTTL
  <2> QED
    BY <2>1, <2>2, <2>3, <2>4
<1>6. /\ run' \in [Runners -> Execution \cup {None}]
      /\ RunsMatch' /\ JobsAreFiled' /\ RunningRuns' /\ StoreFits'
  BY <1>1, <1>4, <1>5, RunnerGoesOn
<1> QED
  BY <1>4, <1>6 DEF QInv, TypeOK, EntriesMatch, CacheFits, Entries

\* A hit answers with the entry of the query's key, a miss removes it.
LEMMA LookupStep ==
  ASSUME QInv, NEW r \in Runners, Lookup(r)
  PROVE  QInv'
<1> DEFINE q == run[r].query
<1> DEFINE k == cacheKey(q)
<1>1. run[r] # None /\ run[r].step = "lookup"
  BY DEF Lookup, At
<1>2. run[r] \in Execution /\ q \in Query /\ k \in Keys
  BY <1>1, TypeOfRun DEF QInv
<1>3. Matches(run[r])
  BY <1>1 DEF QInv, RunsMatch
<1>4. UNCHANGED <<ttl, jobs, applying>>
  BY DEF Lookup
<1>5. CASE Fresh(k)
  <2> DEFINE e == [run[r] EXCEPT !.step = "reply", !.result = cache[k].result]
  <2>1. run' = [run EXCEPT ![r] = e] /\ UNCHANGED cache
    BY <1>5 DEF Lookup
  <2>2. /\ cache[k] # None /\ cache[k] \in Entry
        /\ cache[k].result.text = k.text
        /\ cache[k].result.rows = IF k.limit = 0 THEN DefaultRows ELSE k.limit
    BY <1>2, <1>5 DEF Fresh, QInv, TypeOK, EntriesMatch
  <2>3. cache[k].result \in Result
    BY <2>2 DEF Entry
  <2>4. /\ e \in Execution /\ e.user = run[r].user /\ e.query = q
        /\ e.result = cache[k].result /\ e.step = "reply"
    BY <1>2, <2>3 DEF Execution
  <2>5. ~q.preview
    BY <1>1, <1>3 DEF Matches
  <2>6. k.text = q.text /\ k.limit = q.limit
    BY <1>2, KeyOfQuery
  <2>7. Matches(e)
    BY <2>2, <2>3, <2>4, <2>5, <2>6 DEF Matches, RowsOf
  <2>8. /\ run' \in [Runners -> Execution \cup {None}]
        /\ RunsMatch' /\ JobsAreFiled' /\ RunningRuns' /\ StoreFits'
    BY <1>1, <1>4, <2>1, <2>4, <2>7, RunnerGoesOn
  <2> QED
    BY <1>4, <2>1, <2>8 DEF QInv, TypeOK, EntriesMatch, CacheFits, Entries
<1>6. CASE ~Fresh(k)
  <2> DEFINE e == [run[r] EXCEPT !.step = "exec"]
  <2>1. run' = [run EXCEPT ![r] = e] /\ cache' = [cache EXCEPT ![k] = None]
    BY <1>6 DEF Lookup
  <2>2. e \in Execution /\ e.user = run[r].user
    BY <1>2 DEF Execution
  <2>3. Matches(e)
    BY <1>2 DEF Matches, Execution
  <2>4. /\ run' \in [Runners -> Execution \cup {None}]
        /\ RunsMatch' /\ JobsAreFiled' /\ RunningRuns' /\ StoreFits'
    BY <1>1, <1>4, <2>1, <2>2, <2>3, RunnerGoesOn
  <2>5. cache' \in [Keys -> Entry \cup {None}]
    BY <1>2, <2>1 DEF QInv, TypeOK
  <2>6. EntriesMatch'
    BY <1>2, <2>1 DEF QInv, TypeOK, EntriesMatch
  <2>7. Entries(cache') \subseteq Entries(cache)
    BY <1>2, <2>1 DEF QInv, TypeOK, Entries
  <2>8. IsFiniteSet(Entries(cache')) /\ Cardinality(Entries(cache')) <= MaxEntries
    BY <2>7, FewerFit, LimitsAssumption DEF QInv, CacheFits
  <2>9. CacheFits'
    BY <2>8 DEF CacheFits, Entries
  <2> QED
    BY <1>4, <2>4, <2>5, <2>6, <2>9 DEF QInv, TypeOK
<1> QED
  BY <1>5, <1>6

\* The answer of a query that is no preview becomes the entry of its key.
LEMMA InsertStep ==
  ASSUME QInv, NEW r \in Runners, Insert(r)
  PROVE  QInv'
<1> DEFINE q == run[r].query
<1> DEFINE k == cacheKey(q)
<1> DEFINE e == [run[r] EXCEPT !.step = "reply", !.life = 0]
<1> DEFINE entry == [result |-> run[r].result, life |-> run[r].life]
<1> DEFINE room == MakeRoom(cache)
<1>1. /\ run[r] # None /\ run[r].step = "insert"
      /\ run' = [run EXCEPT ![r] = e]
      /\ cache' = [room EXCEPT ![k] = entry]
      /\ UNCHANGED <<ttl, jobs, applying>>
  BY DEF Insert, At
<1>2. run[r] \in Execution /\ q \in Query /\ k \in Keys
  BY <1>1, TypeOfRun DEF QInv
<1>3. /\ run[r].result \in Result
      /\ run[r].result.text = q.text
      /\ run[r].result.rows = RowsOf(q)
      /\ ~q.preview
  BY <1>1 DEF QInv, RunsMatch, Matches
<1>4. e \in Execution /\ e.user = run[r].user
  BY <1>2, LimitsAssumption DEF Execution
<1>5. Matches(e)
  BY <1>2, <1>3 DEF Matches, Execution
<1>6. /\ run' \in [Runners -> Execution \cup {None}]
      /\ RunsMatch' /\ JobsAreFiled' /\ RunningRuns' /\ StoreFits'
  BY <1>1, <1>4, <1>5, RunnerGoesOn
<1>7. entry \in Entry
  BY <1>2, <1>3, LimitsAssumption DEF Execution, Entry
<1>8. /\ room \in [Keys -> Entry \cup {None}]
      /\ \A l \in Keys : room[l] \in {cache[l], None}
      /\ IsFiniteSet(Entries(room)) /\ Cardinality(Entries(room)) < MaxEntries
  BY RoomForOne DEF QInv, TypeOK, CacheFits
<1>9. cache' \in [Keys -> Entry \cup {None}]
  BY <1>1, <1>2, <1>7, <1>8
<1>10. EntriesMatch'
  <2> SUFFICES ASSUME NEW l \in Keys, cache'[l] # None
               PROVE  /\ cache'[l].result.text = l.text
                      /\ cache'[l].result.rows = IF l.limit = 0 THEN DefaultRows ELSE l.limit
    BY DEF EntriesMatch
  <2>1. CASE l = k
    <3>1. cache'[l].result = run[r].result
      BY <1>1, <1>2, <1>8, <2>1
    <3>2. k.text = q.text /\ k.limit = q.limit
      BY <1>2, KeyOfQuery
    <3> QED
      BY <1>3, <2>1, <3>1, <3>2 DEF RowsOf
  <2>2. CASE l # k
    <3>1. cache'[l] = cache[l]
      BY <1>1, <1>8, <2>2
    <3> QED
      BY <3>1 DEF QInv, EntriesMatch
  <2> QED
    BY <2>1, <2>2
<1>11. IsFiniteSet(Entries(cache')) /\ Cardinality(Entries(cache')) <= MaxEntries
  BY <1>1, <1>2, <1>8, OneMoreEntry
<1>12. CacheFits'
  BY <1>11 DEF CacheFits, Entries
<1> QED
  BY <1>1, <1>6, <1>9, <1>10, <1>12 DEF QInv, TypeOK

\* A step inside executeGuarded, whichever it is.
LEMMA GuardedStep ==
  ASSUME QInv, NEW r \in Runners, Guarded(r)
  PROVE  QInv'
BY QuietStep, LookupStep, InsertStep DEF Guarded

-----------------------------------------------------------------------------
(* Requests                                                                 *)

\* A worker takes no part in the jobs.
LEMMA WorkerStep ==
  ASSUME QInv, NEW w \in Workers, NEW e \in Execution \cup {None},
         e # None => Matches(e),
         run' = [run EXCEPT ![w] = e], UNCHANGED <<ttl, cache, jobs, applying>>
  PROVE  QInv'
<1>1. run \in [Runners -> Execution \cup {None}] /\ w \in Runners
  BY RunnerSets DEF QInv, TypeOK
<1>2. run' \in [Runners -> Execution \cup {None}]
  BY <1>1
<1>3. \A j \in JobIds : run'[j] = run[j]
  BY <1>1, RunnerSets, RunnersAssumption
<1>4. RunsMatch'
  BY <1>1 DEF QInv, RunsMatch, Matches, RowsOf
<1>5. JobsAreFiled' /\ RunningRuns' /\ StoreFits'
  BY <1>3 DEF QInv, JobsAreFiled, RunningRuns, StoreFits, Stored, runningFor
<1> QED
  BY <1>2, <1>4, <1>5 DEF QInv, TypeOK, EntriesMatch, CacheFits, Entries

LEMMA RequestStep ==
  ASSUME QInv, NEW w \in Workers,
         (\E q \in Query, fresh \in BOOLEAN : Request(w, q, fresh)) \/ Reply(w)
  PROVE  QInv'
<1>1. ASSUME NEW q \in Query, NEW fresh \in BOOLEAN, Request(w, q, fresh)
      PROVE  QInv'
  <2> DEFINE e == Start(q, None, fresh)
  <2>1. e \in Execution /\ e.query = q /\ e.step \in {"exec", "get"} /\ (e.step = "get" => ~q.preview)
    BY StartIsExecution
  <2>2. Matches(e)
    BY <2>1 DEF Matches
  <2>3. run' = [run EXCEPT ![w] = e] /\ UNCHANGED <<ttl, cache, jobs, applying>>
    BY <1>1 DEF Request
  <2> HIDE DEF e
  <2> QED
    BY <2>1, <2>2, <2>3, WorkerStep
<1>2. CASE Reply(w)
  BY <1>2, WorkerStep DEF Reply
<1> QED
  BY <1>1, <1>2

-----------------------------------------------------------------------------
(* Jobs                                                                     *)

\* What expired goes, what runs stays (prune).
LEMMA PruneKeeps ==
  ASSUME NEW js \in [JobIds -> Job \cup {None}]
  PROVE  /\ prune(js) \in [JobIds -> Job \cup {None}]
         /\ \A j \in JobIds : prune(js)[j] \in {js[j], None}
         /\ \A j \in JobIds : js[j] # None /\ js[j].status = "running"
                                => prune(js)[j] = js[j]
         /\ Stored(prune(js)) \subseteq Stored(js)
         /\ \A u : runningFor(prune(js), u) = runningFor(js, u)
<1>1. \A j \in JobIds : prune(js)[j] \in {js[j], None}
  BY DEF prune
<1>2. \A j \in JobIds : js[j] # None /\ js[j].status = "running" => prune(js)[j] = js[j]
  BY DEF prune
<1>3. prune(js) \in [JobIds -> Job \cup {None}]
  BY DEF prune
<1> QED
  BY <1>1, <1>2, <1>3 DEF Stored, runningFor

\* Removing what is over disturbs nothing.
LEMMA PrunedIsFine ==
  ASSUME QInv
  PROVE  /\ IsFiniteSet(Stored(prune(jobs)))
         /\ Cardinality(Stored(prune(jobs))) <= MaxTotal
         /\ \A u \in Users : /\ IsFiniteSet(runningFor(prune(jobs), u))
                             /\ Cardinality(runningFor(prune(jobs), u)) <= MaxPerUser
<1>1. /\ Stored(prune(jobs)) \subseteq Stored(jobs)
      /\ \A u : runningFor(prune(jobs), u) = runningFor(jobs, u)
  BY PruneKeeps DEF QInv, TypeOK
<1>2. /\ IsFiniteSet(Stored(prune(jobs)))
      /\ Cardinality(Stored(prune(jobs))) <= MaxTotal
  BY <1>1, FewerFit, LimitsAssumption DEF QInv, StoreFits
<1>3. \A u : runningFor(jobs, u) \subseteq Stored(jobs)
  BY DEF runningFor
<1> QED
  BY <1>1, <1>2, <1>3, FS_Subset DEF QInv, StoreFits

\* A job gets in when there is room for it, on the store and for its submitter.
LEMMA SubmitStep ==
  ASSUME QInv, NEW q \in Query, NEW u \in Users, submitAsyncQuery(q, u)
  PROVE  QInv'
<1> DEFINE kept == prune(jobs)
<1>1. /\ jobs \in [JobIds -> Job \cup {None}]
      /\ run \in [Runners -> Execution \cup {None}]
  BY DEF QInv, TypeOK
<1>2. /\ kept \in [JobIds -> Job \cup {None}]
      /\ \A j \in JobIds : kept[j] \in {jobs[j], None}
      /\ \A j \in JobIds : jobs[j] # None /\ jobs[j].status = "running" => kept[j] = jobs[j]
  BY <1>1, PruneKeeps
<1>3. /\ IsFiniteSet(Stored(kept)) /\ Cardinality(Stored(kept)) <= MaxTotal
      /\ \A v \in Users : /\ IsFiniteSet(runningFor(kept, v))
                          /\ Cardinality(runningFor(kept, v)) <= MaxPerUser
  BY PrunedIsFine
<1>4. UNCHANGED <<ttl, cache, applying>>
  BY DEF submitAsyncQuery
<1>5. CASE jobs' = kept /\ UNCHANGED run
  <2>1. JobsAreFiled'
    BY <1>2, <1>5 DEF QInv, JobsAreFiled
  <2>2. RunningRuns'
    BY <1>2, <1>5 DEF QInv, RunningRuns
  <2>3. Stored(jobs)' = Stored(kept) /\ \A v : runningFor(jobs, v)' = runningFor(kept, v)
    BY <1>5 DEF Stored, runningFor
  <2>4. StoreFits'
    BY <1>3, <2>3 DEF StoreFits
  <2> QED
    BY <1>2, <1>4, <1>5, <2>1, <2>2, <2>4
    DEF QInv, TypeOK, RunsMatch, Matches, RowsOf, EntriesMatch, CacheFits, Entries
<1>6. CASE ~(jobs' = kept /\ UNCHANGED run)
  <2> DEFINE free == JobIds \ Stored(kept)
  <2> DEFINE j == CHOOSE i \in free : TRUE
  <2> DEFINE job == [user |-> u, status |-> "running", life |-> JobTTL]
  <2> DEFINE e == Start(q, u, TRUE)
  <2>1. /\ ~(Cardinality(Stored(kept)) >= MaxTotal)
        /\ ~(Cardinality(runningFor(kept, u)) >= MaxPerUser)
        /\ free # {}
        /\ jobs' = [kept EXCEPT ![j] = job]
        /\ run' = [run EXCEPT ![j] = e]
    BY <1>6 DEF submitAsyncQuery
  <2>2. j \in JobIds /\ j \in Runners
    BY <2>1, RunnerSets
  <2>3. job \in Job /\ job # None
    BY LimitsAssumption, NoneAssumption DEF Job
  <2>4. /\ e \in Execution /\ e # None /\ e.user = u
        /\ e.query = q /\ e.step \in {"exec", "get"} /\ (e.step = "get" => ~q.preview)
    BY StartIsExecution
  <2> HIDE DEF j, e
  <2>5. /\ jobs' \in [JobIds -> Job \cup {None}]
        /\ run' \in [Runners -> Execution \cup {None}]
    BY <1>1, <1>2, <2>1, <2>2, <2>3, <2>4
  <2>6. /\ jobs'[j] = job /\ run'[j] = e
        /\ \A i \in JobIds : i # j => jobs'[i] = kept[i] /\ run'[i] = run[i]
    BY <1>1, <1>2, <2>1, <2>2, RunnerSets
  <2>7. JobsAreFiled'
    BY <1>2, <2>3, <2>4, <2>6 DEF QInv, JobsAreFiled
  <2>8. RunningRuns'
    BY <1>2, <2>4, <2>6 DEF QInv, RunningRuns
  <2>9. RunsMatch'
    <3>1. Matches(e)
      BY <2>4 DEF Matches
    <3>2. \A r \in Runners : run'[r] = run[r] \/ run'[r] = e
      BY <1>1, <2>1
    <3> QED
      BY <3>1, <3>2 DEF QInv, RunsMatch, Matches, RowsOf
  <2>10. /\ Stored(jobs') \subseteq Stored(kept) \cup {j}
         /\ runningFor(jobs', u) \subseteq runningFor(kept, u) \cup {j}
         /\ \A v \in Users : v # u => runningFor(jobs', v) \subseteq runningFor(kept, v)
    BY <2>2, <2>3, <2>6 DEF Stored, runningFor
  <2>11. /\ MaxTotal \in Nat /\ MaxPerUser \in Nat
         /\ Cardinality(Stored(kept)) \in Nat /\ Cardinality(runningFor(kept, u)) \in Nat
    BY <1>3, FS_CardinalityType, LimitsAssumption
  <2> HIDE DEF kept
  <2>12. Cardinality(Stored(kept)) < MaxTotal /\ Cardinality(runningFor(kept, u)) < MaxPerUser
    BY <2>1, <2>11
  <2>13. IsFiniteSet(Stored(jobs')) /\ Cardinality(Stored(jobs')) <= MaxTotal
    BY <1>3, <2>10, <2>11, <2>12, OneMoreFits
  <2>14. \A v \in Users : Cardinality(runningFor(jobs', v)) <= MaxPerUser
    <3> TAKE v \in Users
    <3>1. CASE v = u
      BY <1>3, <2>10, <2>11, <2>12, <3>1, OneMoreFits
    <3>2. CASE v # u
      BY <1>3, <2>10, <2>11, <3>2, FewerFit
    <3> QED
      BY <3>1, <3>2
  <2>15. StoreFits'
    BY <2>13, <2>14 DEF StoreFits, Stored, runningFor
  <2> QED
    BY <1>4, <2>5, <2>7, <2>8, <2>9, <2>15 DEF QInv, TypeOK, EntriesMatch, CacheFits, Entries
<1> QED
  BY <1>5, <1>6

\* The goroutine's last step turns its own job, which is still there, into one
\* that is over.
LEMMA FinishStep ==
  ASSUME QInv, NEW j \in JobIds, finish(j)
  PROVE  QInv'
<1>1. /\ jobs \in [JobIds -> Job \cup {None}]
      /\ run \in [Runners -> Execution \cup {None}]
      /\ j \in Runners
  BY RunnerSets DEF QInv, TypeOK
<1>2. run[j] # None
  BY DEF finish, At
<1>3. jobs[j] # None /\ jobs[j] \in Job /\ jobs[j].status = "running"
  BY <1>1, <1>2 DEF QInv, JobsAreFiled
<1>4. PICK s \in {"done", "failed"} : jobs' = [jobs EXCEPT ![j].status = s]
  BY DEF finish
<1> DEFINE job == [jobs[j] EXCEPT !.status = s]
<1>5. /\ job \in Job /\ job # None
      /\ job.status = s /\ job.user = jobs[j].user
      /\ jobs' = [jobs EXCEPT ![j] = job]
  BY <1>3, <1>4, NoneAssumption DEF Job
<1>6. run' = [run EXCEPT ![j] = None] /\ UNCHANGED <<ttl, cache, applying>>
  BY DEF finish
<1> HIDE DEF job
<1>7. /\ jobs' \in [JobIds -> Job \cup {None}]
      /\ run' \in [Runners -> Execution \cup {None}]
  BY <1>1, <1>5, <1>6
<1>8. /\ jobs'[j] = job /\ run'[j] = None
      /\ \A i \in JobIds : i # j => jobs'[i] = jobs[i] /\ run'[i] = run[i]
  BY <1>1, <1>5, <1>6, RunnerSets
<1>9. JobsAreFiled'
  BY <1>8 DEF QInv, JobsAreFiled
<1>10. RunningRuns'
  BY <1>4, <1>5, <1>8 DEF QInv, RunningRuns
<1>11. RunsMatch'
  BY <1>1, <1>6 DEF QInv, RunsMatch, Matches, RowsOf
<1>12. /\ Stored(jobs') = Stored(jobs)
       /\ \A u : runningFor(jobs', u) \subseteq runningFor(jobs, u)
       /\ \A u : runningFor(jobs, u) \subseteq Stored(jobs)
  BY <1>3, <1>4, <1>5, <1>8 DEF Stored, runningFor
<1>13. \A u \in Users : Cardinality(runningFor(jobs', u)) <= MaxPerUser
  <2> TAKE u \in Users
  <2>1. IsFiniteSet(runningFor(jobs, u)) /\ Cardinality(runningFor(jobs, u)) <= MaxPerUser
    BY <1>12, FS_Subset DEF QInv, StoreFits
  <2> QED
    BY <1>12, <2>1, FewerFit, LimitsAssumption
<1>14. StoreFits'
  BY <1>12, <1>13 DEF QInv, StoreFits, Stored, runningFor
<1> QED
  BY <1>6, <1>7, <1>9, <1>10, <1>11, <1>14
  DEF QInv, TypeOK, EntriesMatch, CacheFits, Entries

\* A cancelled job goes on running, to its failure at the next chance.
LEMMA CancelStep ==
  ASSUME QInv, NEW j \in JobIds, NEW u \in Users, NEW isAdmin \in BOOLEAN,
         cancelJob(j, u, isAdmin)
  PROVE  QInv'
<1>1. CASE At(j, "exec")
  <2> DEFINE e == [run[j] EXCEPT !.step = "failed"]
  <2>1. run[j] # None /\ j \in Runners
    BY <1>1, RunnerSets DEF At
  <2>2. run[j] \in Execution
    BY <2>1, TypeOfRun DEF QInv
  <2>3. e \in Execution /\ e.user = run[j].user /\ Matches(e)
    BY <2>2 DEF Execution, Matches
  <2>4. run' = [run EXCEPT ![j] = e] /\ UNCHANGED <<ttl, cache, jobs, applying>>
    BY <1>1 DEF cancelJob
  <2>5. /\ run' \in [Runners -> Execution \cup {None}]
        /\ RunsMatch' /\ JobsAreFiled' /\ RunningRuns' /\ StoreFits'
    BY <2>1, <2>3, <2>4, RunnerGoesOn
  <2> QED
    BY <2>4, <2>5 DEF QInv, TypeOK, EntriesMatch, CacheFits, Entries
<1>2. CASE ~At(j, "exec")
  <2>1. UNCHANGED vars
    BY <1>2 DEF cancelJob, vars
  <2> QED
    BY <2>1 DEF vars, QInv, TypeOK, RunsMatch, Matches, RowsOf, EntriesMatch,
       CacheFits, Entries, JobsAreFiled, RunningRuns, StoreFits, Stored, runningFor
<1> QED
  BY <1>1, <1>2

-----------------------------------------------------------------------------
(* Settings and time                                                        *)

LEMMA SettingsStep ==
  ASSUME QInv, (\E a \in Admins, t \in TTLs : SetTTL(a, t)) \/ Flush
  PROVE  QInv'
<1>1. UNCHANGED <<jobs, run>>
  BY DEF SetTTL, Flush
<1>2. ttl' \in TTLs /\ applying' \in Admins \cup {None}
  BY DEF SetTTL, Flush, QInv, TypeOK
<1>3. cache' = cache \/ cache' = [k \in Keys |-> None]
  BY DEF SetTTL, Flush
<1>4. cache' \in [Keys -> Entry \cup {None}] /\ EntriesMatch'
  BY <1>3 DEF QInv, TypeOK, EntriesMatch
<1>5. Entries(cache') \subseteq Entries(cache)
  BY <1>3 DEF Entries
<1>6. IsFiniteSet(Entries(cache')) /\ Cardinality(Entries(cache')) <= MaxEntries
  BY <1>5, FewerFit, LimitsAssumption DEF QInv, CacheFits
<1>7. CacheFits'
  BY <1>6 DEF CacheFits, Entries
<1> QED
  BY <1>1, <1>2, <1>4, <1>7
  DEF QInv, TypeOK, RunsMatch, Matches, RowsOf, JobsAreFiled, RunningRuns,
      StoreFits, Stored, runningFor

\* Time only shortens lives.
LEMMA TickStep ==
  ASSUME QInv, Tick
  PROVE  QInv'
<1>1. /\ cache \in [Keys -> Entry \cup {None}]
      /\ jobs \in [JobIds -> Job \cup {None}]
  BY DEF QInv, TypeOK
<1>2. /\ \A n \in Nat : Down(n) \in Nat
      /\ \A n \in 0 .. JobTTL : Down(n) \in 0 .. JobTTL
  BY LimitsAssumption DEF Down
<1>3. UNCHANGED <<ttl, run, applying>>
  BY DEF Tick
<1>4. \A k \in Keys :
        /\ cache[k] = None => cache'[k] = None
        /\ cache[k] # None => /\ cache'[k] \in Entry
                              /\ cache'[k].result = cache[k].result
  BY <1>1, <1>2 DEF Tick, Entry
<1>5. cache' \in [Keys -> Entry \cup {None}]
  BY <1>4 DEF Tick
<1>6. EntriesMatch'
  BY <1>4 DEF QInv, EntriesMatch
<1>7. Entries(cache') \subseteq Entries(cache)
  BY <1>4 DEF Entries
<1>8. IsFiniteSet(Entries(cache')) /\ Cardinality(Entries(cache')) <= MaxEntries
  BY <1>7, FewerFit, LimitsAssumption DEF QInv, CacheFits
<1>9. CacheFits'
  BY <1>8 DEF CacheFits, Entries
<1>10. \A j \in JobIds :
         /\ jobs[j] = None => jobs'[j] = None
         /\ jobs[j] # None => /\ jobs'[j] \in Job /\ jobs'[j] # None
                              /\ jobs'[j].user = jobs[j].user
                              /\ jobs'[j].status = jobs[j].status
  <2> TAKE j \in JobIds
  <2>1. CASE jobs[j] = None
    BY <2>1 DEF Tick
  <2>2. CASE jobs[j] # None /\ jobs[j].status = "running"
    BY <1>1, <2>2 DEF Tick
  <2>3. CASE jobs[j] # None /\ jobs[j].status # "running"
    <3>1. jobs[j] \in Job
      BY <1>1, <2>3
    <3>2. jobs'[j] = [jobs[j] EXCEPT !.life = Down(@)]
      BY <2>3 DEF Tick
    <3>3. jobs'[j] \in Job /\ jobs'[j].user = jobs[j].user /\ jobs'[j].status = jobs[j].status
      BY <1>2, <3>1, <3>2 DEF Job
    <3> QED
      BY <2>3, <3>3, NoneAssumption
  <2> QED
    BY <2>1, <2>2, <2>3
<1>11. jobs' \in [JobIds -> Job \cup {None}]
  BY <1>10 DEF Tick
<1>12. JobsAreFiled' /\ RunningRuns'
  BY <1>3, <1>10 DEF QInv, JobsAreFiled, RunningRuns
<1>13. Stored(jobs)' = Stored(jobs) /\ \A u : runningFor(jobs, u)' = runningFor(jobs, u)
  BY <1>10 DEF Stored, runningFor
<1>14. StoreFits'
  BY <1>13 DEF QInv, StoreFits
<1> QED
  BY <1>3, <1>5, <1>6, <1>9, <1>11, <1>12, <1>14
  DEF QInv, TypeOK, RunsMatch, Matches, RowsOf

-----------------------------------------------------------------------------
(* The invariants                                                           *)

LEMMA QInvInit == Init => QInv
<1> SUFFICES ASSUME Init PROVE QInv
  OBVIOUS
<1>1. Entries(cache) = {} /\ Stored(jobs) = {} /\ \A u : runningFor(jobs, u) = {}
  BY DEF Init, Entries, Stored, runningFor
<1>2. IsFiniteSet({}) /\ Cardinality({}) = 0
  BY FS_EmptySet
<1>3. CacheFits /\ StoreFits
  BY <1>1, <1>2, LimitsAssumption DEF CacheFits, StoreFits
<1>4. TypeOK
  BY DEF Init, TypeOK
<1>5. RunsMatch /\ EntriesMatch /\ JobsAreFiled /\ RunningRuns
  BY RunnerSets DEF Init, RunsMatch, EntriesMatch, JobsAreFiled, RunningRuns
<1> QED
  BY <1>3, <1>4, <1>5 DEF QInv

LEMMA QInvNext == QInv /\ [Next]_vars => QInv'
<1> SUFFICES ASSUME QInv, [Next]_vars PROVE QInv'
  OBVIOUS
<1>1. ASSUME NEW w \in Workers,
             \/ \E q \in Query, fresh \in BOOLEAN : Request(w, q, fresh)
             \/ Guarded(w) \/ Reply(w)
      PROVE  QInv'
  BY <1>1, RequestStep, GuardedStep, RunnerSets
<1>2. ASSUME NEW j \in JobIds,
             \/ Guarded(j) \/ finish(j)
             \/ \E u \in Users, isAdmin \in BOOLEAN : cancelJob(j, u, isAdmin)
      PROVE  QInv'
  BY <1>2, FinishStep, CancelStep, GuardedStep, RunnerSets
<1>3. ASSUME NEW q \in Query, NEW u \in Users, submitAsyncQuery(q, u)
      PROVE  QInv'
  BY <1>3, SubmitStep
<1>4. CASE (\E a \in Admins, t \in TTLs : SetTTL(a, t)) \/ Flush
  BY <1>4, SettingsStep
<1>5. CASE Tick
  BY <1>5, TickStep
<1>6. CASE UNCHANGED vars
  BY <1>6 DEF vars, QInv, TypeOK, RunsMatch, Matches, RowsOf, EntriesMatch,
     CacheFits, Entries, JobsAreFiled, RunningRuns, StoreFits, Stored, runningFor
<1> QED
  BY <1>1, <1>2, <1>3, <1>4, <1>5, <1>6 DEF Next

LEMMA QInvAlways == Spec => []QInv
<1>1. QInv /\ [Next]_vars => QInv'
  BY QInvNext
<1> QED
  BY QInvInit, <1>1, PTL DEF Spec

\* Every variable keeps its type.
THEOREM TypeCorrect == Spec => []TypeOK
<1>1. QInv => TypeOK
  BY DEF QInv
<1> QED
  BY QInvAlways, <1>1, PTL

\* Answers, from the database or the cache, belong to the query's text and
\* number of rows (cacheKey, executeGuarded).
THEOREM AnswersAlwaysMatch == Spec => []AnswersMatch
<1>1. QInv => AnswersMatch
  BY DEF QInv, RunsMatch, Matches, AnswersMatch, At
<1> QED
  BY QInvAlways, <1>1, PTL

\* The cache keeps its bound under every interleaving of puts (put).
THEOREM CacheAlwaysBounded == Spec => []CacheIsBounded
<1>1. QInv => CacheIsBounded
  BY DEF QInv, CacheFits, CacheIsBounded
<1> QED
  BY QInvAlways, <1>1, PTL

\* What really runs in the background keeps within both limits
\* (submitAsyncQuery, cancelJob).
THEOREM BackgroundAlwaysWithinLimits == Spec => []BackgroundWithinLimits
<1>1. QInv => BackgroundWithinLimits
  <2> SUFFICES ASSUME QInv PROVE BackgroundWithinLimits
    OBVIOUS
  <2>1. /\ {j \in JobIds : run[j] # None} \subseteq Stored(jobs)
        /\ \A u \in Users : {j \in JobIds : run[j] # None /\ run[j].user = u}
                              \subseteq runningFor(jobs, u)
        /\ \A u \in Users : runningFor(jobs, u) \subseteq Stored(jobs)
    BY DEF QInv, JobsAreFiled, Stored, runningFor
  <2>2. Cardinality({j \in JobIds : run[j] # None}) <= MaxTotal
    BY <2>1, FewerFit, LimitsAssumption DEF QInv, StoreFits
  <2>3. ASSUME NEW u \in Users
        PROVE  Cardinality({j \in JobIds : run[j] # None /\ run[j].user = u}) <= MaxPerUser
    <3>1. IsFiniteSet(runningFor(jobs, u)) /\ Cardinality(runningFor(jobs, u)) <= MaxPerUser
      BY <2>1, FS_Subset DEF QInv, StoreFits
    <3> QED
      BY <2>1, <3>1, FewerFit, LimitsAssumption
  <2> QED
    BY <2>2, <2>3 DEF BackgroundWithinLimits
<1> QED
  BY QInvAlways, <1>1, PTL

\* A job is kept until its result has expired, and never changes its outcome
\* (prune, jobView).
THEOREM JobsAlwaysKept == Spec => JobsAreKept
<1> DEFINE Kept(j) ==
      jobs[j] # None /\ (jobs[j].status = "running" \/ jobs[j].life > 0)
        => /\ jobs'[j] # None
           /\ jobs'[j].user = jobs[j].user
           /\ jobs[j].status # "running" => jobs'[j].status = jobs[j].status
<1>1. ASSUME QInv, Next, NEW j \in JobIds PROVE Kept(j)
  <2>1. jobs \in [JobIds -> Job \cup {None}]
    BY <1>1 DEF QInv, TypeOK
  <2>2. CASE UNCHANGED jobs
    BY <2>2
  <2>3. ASSUME NEW q \in Query, NEW u \in Users, submitAsyncQuery(q, u)
        PROVE  Kept(j)
    <3> DEFINE kept == prune(jobs)
    <3> DEFINE i == CHOOSE k \in JobIds \ Stored(kept) : TRUE
    <3>1. \/ jobs' = kept
          \/ /\ JobIds \ Stored(kept) # {}
             /\ \E job : jobs' = [kept EXCEPT ![i] = job]
      BY <2>3 DEF submitAsyncQuery
    <3>2. kept \in [JobIds -> Job \cup {None}]
      BY <2>1, PruneKeeps
    <3>3. jobs[j] # None /\ (jobs[j].status = "running" \/ jobs[j].life > 0)
            => kept[j] = jobs[j]
      BY <2>1, LimitsAssumption DEF prune, Job
    <3>4. JobIds \ Stored(kept) # {} => kept[i] = None
      BY DEF Stored
    <3> HIDE DEF kept, i
    <3> QED
      BY <3>1, <3>2, <3>3, <3>4
  <2>4. ASSUME NEW i \in JobIds, finish(i)
        PROVE  Kept(j)
    <3>1. PICK s \in {"done", "failed"} : jobs' = [jobs EXCEPT ![i].status = s]
      BY <2>4 DEF finish
    <3>2. jobs[i] # None /\ jobs[i] \in Job /\ jobs[i].status = "running"
      BY <1>1, <2>1, <2>4 DEF finish, At, QInv, JobsAreFiled
    <3>3. CASE j = i
      <4>1. jobs'[j] = [jobs[j] EXCEPT !.status = s]
        BY <2>1, <3>1, <3>3
      <4>2. jobs'[j] \in Job /\ jobs'[j].user = jobs[j].user
        BY <3>2, <3>3, <4>1 DEF Job
      <4> QED
        BY <3>2, <3>3, <4>2, NoneAssumption
    <3>4. CASE j # i
      BY <2>1, <3>1, <3>4
    <3> QED
      BY <3>3, <3>4
  <2>5. CASE Tick
    <3>1. CASE jobs[j].status = "running"
      BY <2>1, <2>5, <3>1 DEF Tick
    <3>2. ASSUME jobs[j] # None, jobs[j].status # "running" PROVE Kept(j)
      <4>1. jobs'[j] = [jobs[j] EXCEPT !.life = Down(@)] /\ jobs[j] \in Job
        BY <2>1, <2>5, <3>2 DEF Tick
      <4>2. Down(jobs[j].life) \in 0 .. JobTTL
        BY <4>1, LimitsAssumption DEF Down, Job
      <4>3. /\ jobs'[j] \in Job /\ jobs'[j].user = jobs[j].user
            /\ jobs'[j].status = jobs[j].status
        BY <4>1, <4>2 DEF Job
      <4> QED
        BY <4>3, NoneAssumption
    <3> QED
      BY <3>1, <3>2
  <2> HIDE DEF Kept
  <2> QED
    BY <1>1, <2>2, <2>3, <2>4, <2>5
    DEF Next, Request, Guarded, Enabled, Lookup, Exec, EndExec, ReadTTL, Insert,
        Reply, cancelJob, SetTTL, Flush
<1>2. QInv /\ [Next]_vars => [\A j \in JobIds : Kept(j)]_vars
  BY <1>1
<1> QED
  BY QInvAlways, <1>2, PTL DEF Spec, JobsAreKept

-----------------------------------------------------------------------------
(* Whose binds an answer has.  The run `binds' shows an answer from the      *)
(* cache that was computed with other binds than the request's; here it is   *)
(* shown that only the cache can do that.                                    *)

\* What never asks the cache: a job, and everybody while no lifetime but 0 can
\* be set.
Uncached(r) == r \in JobIds \/ TTLs = {0}

OwnBinds(e) == e.result.binds = e.query.binds

\* What was computed here has the binds of its query, and who never asks the
\* cache is never about to.
FollowsBinds(r, e) ==
  /\ e.step \in {"put", "insert"} => OwnBinds(e)
  /\ Uncached(r) /\ e.step = "reply" => OwnBinds(e)
  /\ Uncached(r) => e.step # "lookup"
  /\ r \in JobIds => e.step # "get"

BInv == \A r \in Runners : run[r] # None => FollowsBinds(r, run[r])

\* One runner goes on and the others stay where they were.
LEMMA OneGoesOn ==
  ASSUME TypeOK, BInv, NEW r \in Runners, NEW e, e # None => FollowsBinds(r, e),
         run' = [run EXCEPT ![r] = e]
  PROVE  BInv'
<1>1. \A s \in Runners : run'[s] = IF s = r THEN e ELSE run[s]
  BY DEF TypeOK
<1>2. \A s \in Runners : run'[s] # None => FollowsBinds(s, run'[s])
  BY <1>1 DEF BInv
<1> QED
  BY <1>2 DEF BInv, FollowsBinds, OwnBinds, Uncached

\* A step inside executeGuarded.
LEMMA GuardedFollowsBinds ==
  ASSUME TypeOK, BInv, NEW r \in Runners, Guarded(r)
  PROVE  BInv'
<1>1. run[r] # None
  BY DEF Guarded, Enabled, Lookup, Exec, EndExec, ReadTTL, Insert, At
<1>2. run[r] \in Execution /\ run[r].query \in Query
  BY <1>1, TypeOfRun
<1>3. FollowsBinds(r, run[r])
  BY <1>1 DEF BInv
<1>4. \E e : FollowsBinds(r, e) /\ run' = [run EXCEPT ![r] = e]
  <2>1. CASE Enabled(r)
    <3> DEFINE e == [run[r] EXCEPT !.step = IF ttl > 0 THEN "lookup" ELSE "exec"]
    <3>1. run[r].step = "get" /\ run' = [run EXCEPT ![r] = e]
      BY <2>1 DEF Enabled, At
    <3>2. TTLs = {0} => ~(ttl > 0)
      BY DEF TypeOK
    <3>3. FollowsBinds(r, e)
      BY <1>2, <1>3, <3>1, <3>2 DEF FollowsBinds, Uncached, Execution
    <3> QED
      BY <3>1, <3>3
  <2>2. CASE Lookup(r)
    <3>1. run[r].step = "lookup" /\ ~Uncached(r) /\ r \notin JobIds
      BY <1>3, <2>2 DEF Lookup, At, FollowsBinds, Uncached
    <3>2. CASE Fresh(cacheKey(run[r].query))
      <4> DEFINE e == [run[r] EXCEPT !.step = "reply",
                                     !.result = cache[cacheKey(run[r].query)].result]
      <4>1. run' = [run EXCEPT ![r] = e]
        BY <2>2, <3>2 DEF Lookup
      <4>2. e.step = "reply"
        BY <1>2 DEF Execution
      <4>3. FollowsBinds(r, e)
        BY <3>1, <4>2 DEF FollowsBinds
      <4> QED
        BY <4>1, <4>3
    <3>3. CASE ~Fresh(cacheKey(run[r].query))
      <4> DEFINE e == [run[r] EXCEPT !.step = "exec"]
      <4>1. run' = [run EXCEPT ![r] = e]
        BY <2>2, <3>3 DEF Lookup
      <4>2. FollowsBinds(r, e)
        BY <1>2 DEF FollowsBinds, Execution
      <4> QED
        BY <4>1, <4>2
    <3> QED
      BY <3>2, <3>3
  <2>3. CASE Exec(r)
    <3>1. PICK s \in {"running", "failed"} : run' = [run EXCEPT ![r].step = s]
      BY <2>3 DEF Exec
    <3> DEFINE e == [run[r] EXCEPT !.step = s]
    <3>2. FollowsBinds(r, e)
      BY <1>2, <3>1 DEF FollowsBinds, Execution
    <3> QED
      BY <3>1, <3>2
  <2>4. CASE EndExec(r)
    <3>1. CASE run' = [run EXCEPT ![r].step = "failed"]
      <4> DEFINE e == [run[r] EXCEPT !.step = "failed"]
      <4>1. FollowsBinds(r, e)
        BY <1>2 DEF FollowsBinds, Execution
      <4> QED
        BY <3>1, <4>1
    <3>2. CASE run' = [run EXCEPT ![r].step = IF run[r].query.preview
                                                THEN "reply" ELSE "put",
                                  ![r].result = Answer(run[r].query)]
      <4> DEFINE e == [run[r] EXCEPT !.step = IF run[r].query.preview
                                                THEN "reply" ELSE "put",
                                     !.result = Answer(run[r].query)]
      <4>1. /\ e.step \in {"reply", "put"}
            /\ e.query = run[r].query
            /\ e.result = Answer(run[r].query)
        BY <1>2 DEF Execution
      <4>2. OwnBinds(e)
        BY <4>1 DEF OwnBinds, Answer
      <4>3. FollowsBinds(r, e)
        BY <4>1, <4>2 DEF FollowsBinds
      <4> QED
        BY <3>2, <4>3
    <3> QED
      BY <2>4, <3>1, <3>2 DEF EndExec
  <2>5. CASE ReadTTL(r) \/ Insert(r)
    <3>1. OwnBinds(run[r])
      BY <1>3, <2>5 DEF ReadTTL, Insert, At, FollowsBinds
    <3>2. CASE run' = [run EXCEPT ![r].step = "reply"]
      <4> DEFINE e == [run[r] EXCEPT !.step = "reply"]
      <4>1. e.step = "reply" /\ e.query = run[r].query /\ e.result = run[r].result
        BY <1>2 DEF Execution
      <4>2. FollowsBinds(r, e)
        BY <3>1, <4>1 DEF FollowsBinds, OwnBinds
      <4> QED
        BY <3>2, <4>2
    <3>3. CASE run' = [run EXCEPT ![r].step = "insert", ![r].life = ttl]
      <4> DEFINE e == [run[r] EXCEPT !.step = "insert", !.life = ttl]
      <4>1. e.step = "insert" /\ e.query = run[r].query /\ e.result = run[r].result
        BY <1>2 DEF Execution
      <4>2. FollowsBinds(r, e)
        BY <3>1, <4>1 DEF FollowsBinds, OwnBinds
      <4> QED
        BY <3>3, <4>2
    <3>4. CASE run' = [run EXCEPT ![r].step = "reply", ![r].life = 0]
      <4> DEFINE e == [run[r] EXCEPT !.step = "reply", !.life = 0]
      <4>1. e.step = "reply" /\ e.query = run[r].query /\ e.result = run[r].result
        BY <1>2 DEF Execution
      <4>2. FollowsBinds(r, e)
        BY <3>1, <4>1 DEF FollowsBinds, OwnBinds
      <4> QED
        BY <3>4, <4>2
    <3> QED
      BY <2>5, <3>2, <3>3, <3>4 DEF ReadTTL, Insert
  <2> QED
    BY <2>1, <2>2, <2>3, <2>4, <2>5 DEF Guarded
<1> QED
  BY <1>4, OneGoesOn, NoneAssumption

\* A job is submitted: it asks the database, never the cache.
LEMMA SubmitFollowsBinds ==
  ASSUME TypeOK, BInv, NEW q \in Query, NEW u \in Users, submitAsyncQuery(q, u)
  PROVE  BInv'
<1> DEFINE free == JobIds \ Stored(prune(jobs))
<1> DEFINE j == CHOOSE i \in free : TRUE
<1> DEFINE e == Start(q, u, TRUE)
<1>1. CASE UNCHANGED run
  BY <1>1 DEF BInv, FollowsBinds, OwnBinds, Uncached
<1>2. CASE free # {} /\ run' = [run EXCEPT ![j] = e]
  <2>1. j \in Runners
    BY <1>2, RunnerSets
  <2>2. e.step = "exec"
    BY DEF Start
  <2>3. FollowsBinds(j, e)
    BY <2>2 DEF FollowsBinds
  <2> HIDE DEF e, j
  <2> QED
    BY <1>2, <2>1, <2>3, OneGoesOn
<1> QED
  BY <1>1, <1>2 DEF submitAsyncQuery

\* A request asks the cache unless it wants fresh rows; a preview never does.
LEMMA RequestFollowsBinds ==
  ASSUME TypeOK, BInv, NEW w \in Workers, NEW q \in Query, NEW fresh \in BOOLEAN,
         Request(w, q, fresh)
  PROVE  BInv'
<1> DEFINE e == Start(q, None, fresh)
<1>1. e.step \in {"exec", "get"}
  BY StartIsExecution
<1>2. w \in Runners /\ w \notin JobIds
  BY RunnerSets, RunnersAssumption
<1>3. FollowsBinds(w, e) /\ run' = [run EXCEPT ![w] = e]
  BY <1>1, <1>2 DEF FollowsBinds, Request
<1> HIDE DEF e
<1> QED
  BY <1>2, <1>3, OneGoesOn

\* A goroutine ends, by itself or before it has begun.
LEMMA EndFollowsBinds ==
  ASSUME TypeOK, BInv, NEW r \in Runners,
         \/ run' = [run EXCEPT ![r] = None]
         \/ At(r, "exec") /\ run' = [run EXCEPT ![r].step = "failed"]
  PROVE  BInv'
<1>1. CASE run' = [run EXCEPT ![r] = None]
  BY <1>1, OneGoesOn
<1>2. CASE At(r, "exec") /\ run' = [run EXCEPT ![r].step = "failed"]
  <2> DEFINE e == [run[r] EXCEPT !.step = "failed"]
  <2>1. run[r] \in Execution
    BY <1>2, TypeOfRun DEF At
  <2>2. FollowsBinds(r, e)
    BY <2>1 DEF FollowsBinds, Execution
  <2> QED
    BY <1>2, <2>2, OneGoesOn
<1> QED
  BY <1>1, <1>2

LEMMA BInvNext == TypeOK /\ BInv /\ [Next]_vars => BInv'
<1> SUFFICES ASSUME TypeOK, BInv, [Next]_vars
             PROVE  BInv'
  OBVIOUS
<1>1. ASSUME NEW w \in Workers, NEW q \in Query, NEW fresh \in BOOLEAN, Request(w, q, fresh)
      PROVE  BInv'
  BY <1>1, RequestFollowsBinds
<1>2. ASSUME NEW r \in Runners, Guarded(r)
      PROVE  BInv'
  BY <1>2, GuardedFollowsBinds
<1>3. ASSUME NEW r \in Runners, Reply(r) \/ finish(r)
      PROVE  BInv'
  BY <1>3, EndFollowsBinds DEF Reply, finish
<1>4. CASE UNCHANGED run
  BY <1>4 DEF BInv, FollowsBinds, OwnBinds, Uncached
<1>5. ASSUME NEW j \in JobIds, NEW u \in Users, NEW isAdmin \in BOOLEAN,
             cancelJob(j, u, isAdmin)
      PROVE  BInv'
  BY <1>4, <1>5, RunnerSets, EndFollowsBinds DEF cancelJob
<1>6. ASSUME NEW q \in Query, NEW u \in Users, submitAsyncQuery(q, u)
      PROVE  BInv'
  BY <1>6, SubmitFollowsBinds
<1>7. ASSUME (\E a \in Admins, t \in TTLs : SetTTL(a, t)) \/ Flush \/ Tick \/ UNCHANGED vars
      PROVE  UNCHANGED run
  BY <1>7 DEF SetTTL, Flush, Tick, vars
<1> QED
  BY <1>1, <1>2, <1>3, <1>4, <1>5, <1>6, <1>7, RunnerSets DEF Next

\* What never asks the cache answers with its own binds: every job, and every
\* request while caching cannot be enabled (executeGuarded, submitAsyncQuery).
THEOREM UncachedAnswersHaveOwnBinds ==
  Spec => [](\A r \in Runners : Uncached(r) /\ At(r, "reply") => OwnBinds(run[r]))
<1>1. Init => BInv
  BY DEF Init, BInv
<1>2. QInv => TypeOK
  BY DEF QInv
<1>3. TypeOK /\ BInv /\ [Next]_vars => BInv'
  BY BInvNext
<1>4. BInv => \A r \in Runners : Uncached(r) /\ At(r, "reply") => OwnBinds(run[r])
  BY DEF BInv, FollowsBinds, At
<1> QED
  BY QInvAlways, <1>1, <1>2, <1>3, <1>4, PTL DEF Spec

\* With caching disabled every answer belongs to the binds of its request: the
\* disagreement the run `binds' shows is the cache's alone (cacheKey).
THEOREM BindsMixOnlyThroughCache ==
  ASSUME TTLs = {0}
  PROVE  Spec => []AnswersHaveOwnBinds
<1>1. (\A r \in Runners : Uncached(r) /\ At(r, "reply") => OwnBinds(run[r]))
        => AnswersHaveOwnBinds
  BY DEF Uncached, OwnBinds, AnswersHaveOwnBinds
<1> QED
  BY UncachedAnswersHaveOwnBinds, <1>1, PTL

-----------------------------------------------------------------------------
(* The jobs implement JobBoard                                              *)

\* What a submitter is shown of a job that is in the store.
Shown(job) == [user |-> job.user, status |-> job.status,
               stale |-> job.status # "running" /\ job.life = 0]

ShownJobs(js) == [j \in JobIds |-> IF js[j] = None THEN None ELSE Shown(js[j])]

LEMMA ShownIsBoardJob ==
  ASSUME NEW job \in Job
  PROVE  /\ Shown(job) \in Board!BoardJob
         /\ Shown(job) # None
         /\ Shown(job).user = job.user
         /\ Shown(job).status = job.status
         /\ Shown(job).stale = (job.status # "running" /\ job.life = 0)
<1>1. Shown(job) \in Board!BoardJob
  BY DEF Shown, Job, Board!BoardJob
<1> QED
  BY <1>1, BoardAssumption DEF Shown

\* Records of this shape, one field of which changes.
LEMMA StaleExcept ==
  ASSUME NEW r, NEW u, NEW t, NEW b, NEW x,
         r = [user |-> u, status |-> t, stale |-> b]
  PROVE  [r EXCEPT !.stale = x] = [user |-> u, status |-> t, stale |-> x]
OBVIOUS

LEMMA StatusExcept ==
  ASSUME NEW r, NEW u, NEW t, NEW b, NEW s,
         r = [user |-> u, status |-> t, stale |-> b]
  PROVE  [r EXCEPT !.status = s] = [user |-> u, status |-> s, stale |-> b]
OBVIOUS

LEMMA ShownExcept ==
  ASSUME NEW job, NEW s, NEW x
  PROVE  /\ [Shown(job) EXCEPT !.stale = x]
              = [user |-> job.user, status |-> job.status, stale |-> x]
         /\ [Shown(job) EXCEPT !.status = s, !.stale = x]
              = [user |-> job.user, status |-> s, stale |-> x]
<1> DEFINE b == job.status # "running" /\ job.life = 0
           r == Shown(job)
           q == [r EXCEPT !.status = s]
<1>1. r = [user |-> job.user, status |-> job.status, stale |-> b]
  BY Zenon DEF Shown
<1>2. [r EXCEPT !.status = s, !.stale = x] = [q EXCEPT !.stale = x]
  OBVIOUS
<1> HIDE DEF b, r
<1>3. [r EXCEPT !.stale = x]
        = [user |-> job.user, status |-> job.status, stale |-> x]
  BY <1>1, StaleExcept
<1>4. q = [user |-> job.user, status |-> s, stale |-> b]
  BY <1>1, StatusExcept
<1> HIDE DEF q
<1>5. [q EXCEPT !.stale = x] = [user |-> job.user, status |-> s, stale |-> x]
  BY <1>4, StaleExcept
<1> QED
  BY <1>2, <1>3, <1>5 DEF r

\* The store never says that a job is over while its goroutine runs.
LEMMA ViewIsShown == QInv => BoardView = ShownJobs(jobs)
<1> SUFFICES ASSUME QInv, NEW j \in JobIds, jobs[j] # None
             PROVE  (IF run[j] # None THEN "running" ELSE jobs[j].status) = jobs[j].status
  BY DEF BoardView, ShownJobs, Shown
<1> QED
  BY DEF QInv, JobsAreFiled

LEMMA ViewIsShownNext == QInv' => BoardView' = ShownJobs(jobs')
<1> SUFFICES ASSUME QInv', NEW j \in JobIds, jobs'[j] # None
             PROVE  (IF run'[j] # None THEN "running" ELSE jobs'[j].status) = jobs'[j].status
  BY DEF BoardView, ShownJobs, Shown
<1> QED
  BY DEF QInv, JobsAreFiled

\* The sets of JobBoard, in terms of the store.
LEMMA BoardSets ==
  ASSUME NEW js \in [JobIds -> Job \cup {None}]
  PROVE  LET b == ShownJobs(js) IN
         /\ b \in [JobIds -> Board!BoardJob \cup {None}]
         /\ Board!Known(b) = Stored(js)
         /\ Board!Runs(b) = {j \in Stored(js) : js[j].status = "running"}
         /\ \A u : {i \in Board!Runs(b) : b[i].user = u} = runningFor(js, u)
         /\ Board!StaleJobs(b) =
              {j \in Stored(js) : js[j].status # "running" /\ js[j].life = 0}
<1> DEFINE b == ShownJobs(js)
<1>1. \A j \in JobIds :
        /\ js[j] = None => b[j] = None
        /\ js[j] # None => /\ b[j] \in Board!BoardJob /\ b[j] # None
                           /\ b[j].user = js[j].user
                           /\ b[j].status = js[j].status
                           /\ b[j].stale = (js[j].status # "running" /\ js[j].life = 0)
  BY ShownIsBoardJob DEF ShownJobs
<1>2. b \in [JobIds -> Board!BoardJob \cup {None}]
  <2>1. b = [j \in JobIds |-> b[j]]
    BY DEF ShownJobs
  <2> QED
    BY <1>1, <2>1
<1> HIDE DEF b
<1>3. Board!Known(b) = Stored(js)
  BY <1>1 DEF Board!Known, Stored
<1>4. Board!Runs(b) = {j \in Stored(js) : js[j].status = "running"}
  BY <1>1, <1>3 DEF Board!Runs, Stored
<1>5. \A u : {i \in Board!Runs(b) : b[i].user = u} = runningFor(js, u)
  BY <1>1, <1>4 DEF runningFor, Stored
<1>6. Board!StaleJobs(b) = {j \in Stored(js) : js[j].status # "running" /\ js[j].life = 0}
  BY <1>1, <1>3, <1>4 DEF Board!StaleJobs, Stored
<1> QED
  BY <1>2, <1>3, <1>4, <1>5, <1>6 DEF b

\* Making room forgets stale jobs, and nothing but them.
LEMMA PruneForgets ==
  ASSUME QInv, NEW gone, gone = Stored(jobs) \ Stored(prune(jobs))
  PROVE  /\ gone \in SUBSET JobIds
         /\ gone \subseteq Board!StaleJobs(BoardView)
         /\ Board!Without(gone) = ShownJobs(prune(jobs))
<1>1. jobs \in [JobIds -> Job \cup {None}]
  BY DEF QInv, TypeOK
<1>2. BoardView = ShownJobs(jobs)
  BY ViewIsShown
<1>3. Board!StaleJobs(BoardView) =
        {j \in Stored(jobs) : jobs[j].status # "running" /\ jobs[j].life = 0}
  BY <1>1, <1>2, BoardSets
<1>4. \A j \in JobIds : j \in gone <=> jobs[j] # None /\ prune(jobs)[j] = None
  BY DEF Stored
<1>5. \A j \in gone : jobs[j].status # "running" /\ jobs[j].life = 0
  BY <1>4 DEF prune, Stored
<1>6. \A j \in JobIds : ShownJobs(prune(jobs))[j] = IF j \in gone THEN None ELSE ShownJobs(jobs)[j]
  <2> TAKE j \in JobIds
  <2>1. prune(jobs)[j] \in {jobs[j], None}
    BY <1>1, PruneKeeps
  <2> QED
    BY <1>4, <2>1 DEF ShownJobs
<1>7. Board!Without(gone) = ShownJobs(prune(jobs))
  BY <1>2, <1>6 DEF Board!Without, ShownJobs
<1> QED
  BY <1>3, <1>5, <1>7 DEF Stored

\* Cardinalities are the same in both modules.
LEMMA SameCount == ASSUME NEW S PROVE Board!Cardinality(S) = Cardinality(S)
BY DEF Cardinality, Board!Cardinality

LEMMA SubmitIsAccept ==
  ASSUME QInv, QInv', NEW q \in Query, NEW u \in Users, submitAsyncQuery(q, u)
  PROVE  \E gone \in SUBSET JobIds :
           (\E j \in JobIds : Board!Accept(j, u, gone)) \/ Board!Forget(gone)
<1> DEFINE kept == prune(jobs)
<1> DEFINE gone == Stored(jobs) \ Stored(kept)
<1>1. /\ gone \in SUBSET JobIds
      /\ gone \subseteq Board!StaleJobs(BoardView)
      /\ Board!Without(gone) = ShownJobs(kept)
  BY PruneForgets
<1>2. BoardView' = ShownJobs(jobs')
  BY ViewIsShownNext
<1>3. jobs \in [JobIds -> Job \cup {None}]
  BY DEF QInv, TypeOK
<1>4. kept \in [JobIds -> Job \cup {None}]
  BY <1>3, PruneKeeps
<1>5. CASE jobs' = kept
  <2>1. Board!Forget(gone)
    BY <1>1, <1>2, <1>5 DEF Board!Forget
  <2> QED
    BY <1>1, <2>1
<1>6. CASE jobs' # kept
  <2> DEFINE free == JobIds \ Stored(kept)
  <2> DEFINE j == CHOOSE i \in free : TRUE
  <2> DEFINE job == [user |-> u, status |-> "running", life |-> JobTTL]
  <2>1. /\ ~(Cardinality(Stored(kept)) >= MaxTotal)
        /\ ~(Cardinality(runningFor(kept, u)) >= MaxPerUser)
        /\ free # {}
        /\ jobs' = [kept EXCEPT ![j] = job]
    BY <1>6 DEF submitAsyncQuery
  <2>2. j \in JobIds /\ kept[j] = None
    BY <2>1 DEF Stored
  <2>3. /\ IsFiniteSet(Stored(kept))
        /\ IsFiniteSet(runningFor(kept, u))
    BY PrunedIsFine
  <2>4. /\ Cardinality(Stored(kept)) \in Nat /\ Cardinality(runningFor(kept, u)) \in Nat
        /\ MaxTotal \in Nat /\ MaxPerUser \in Nat
    BY <2>3, FS_CardinalityType, LimitsAssumption
  <2> HIDE DEF j, kept, gone
  <2>5. /\ Cardinality(Stored(kept)) < MaxTotal
        /\ Cardinality(runningFor(kept, u)) < MaxPerUser
    BY <2>1, <2>4
  <2>6. /\ Board!Known(ShownJobs(kept)) = Stored(kept)
        /\ {i \in Board!Runs(ShownJobs(kept)) : ShownJobs(kept)[i].user = u}
             = runningFor(kept, u)
    BY <1>4, BoardSets
  <2>7. job \in Job /\ job # None
    BY LimitsAssumption, NoneAssumption DEF Job
  <2>8. Shown(job) = [user |-> u, status |-> "running", stale |-> FALSE]
    BY DEF Shown
  <2>9. ShownJobs(jobs') = [ShownJobs(kept) EXCEPT ![j] = Shown(job)]
    <3> HIDE DEF job
    <3>1. ShownJobs(jobs') = [i \in JobIds |-> IF i = j THEN Shown(job) ELSE ShownJobs(kept)[i]]
      BY <1>4, <2>1, <2>2, <2>7 DEF ShownJobs
    <3>2. ShownJobs(kept) = [i \in JobIds |-> ShownJobs(kept)[i]]
      BY DEF ShownJobs
    <3> QED
      BY <3>1, <3>2
  <2>10. ShownJobs(kept)[j] = None
    BY <2>2 DEF ShownJobs
  <2>11. Board!Accept(j, u, gone)
    BY <1>1, <1>2, <2>5, <2>6, <2>8, <2>9, <2>10, SameCount DEF Board!Accept
  <2> QED
    BY <1>1, <2>2, <2>11
<1> QED
  BY <1>5, <1>6

LEMMA FinishIsEnd ==
  ASSUME QInv, QInv', NEW j \in JobIds, finish(j)
  PROVE  Board!End(j)
<1>1. jobs \in [JobIds -> Job \cup {None}]
  BY DEF QInv, TypeOK
<1>2. BoardView = ShownJobs(jobs) /\ BoardView' = ShownJobs(jobs')
  BY ViewIsShown, ViewIsShownNext
<1>3. jobs[j] # None /\ jobs[j] \in Job /\ jobs[j].status = "running"
  BY <1>1 DEF finish, At, QInv, JobsAreFiled
<1>4. PICK s \in {"done", "failed"} : jobs' = [jobs EXCEPT ![j].status = s]
  BY DEF finish
<1> DEFINE job == [jobs[j] EXCEPT !.status = s]
<1> DEFINE stale == job.life = 0
<1>5. job \in Job /\ job # None /\ job.status = s /\ job.user = jobs[j].user
  BY <1>3, <1>4, NoneAssumption DEF Job
<1>6. jobs' = [jobs EXCEPT ![j] = job]
  BY <1>4
<1>7. j \in Board!Runs(BoardView)
  BY <1>1, <1>2, <1>3, BoardSets DEF Stored
<1>8. Shown(job) = [Shown(jobs[j]) EXCEPT !.status = s, !.stale = stale]
  <2>1. (job.status # "running" /\ job.life = 0) = stale
    BY <1>4, <1>5
  <2> HIDE DEF stale
  <2>2. Shown(job) = [user |-> jobs[j].user, status |-> s, stale |-> stale]
    BY <1>5, <2>1 DEF Shown
  <2> QED
    BY <2>2, ShownExcept
<1> HIDE DEF job, stale
<1>9. \A i \in JobIds : ShownJobs(jobs')[i] = IF i = j THEN Shown(job) ELSE ShownJobs(jobs)[i]
  BY <1>1, <1>5, <1>6 DEF ShownJobs
<1>10. ShownJobs(jobs)[j] = Shown(jobs[j])
  BY <1>3 DEF ShownJobs
<1>11. ShownJobs(jobs') = [ShownJobs(jobs) EXCEPT ![j].status = s, ![j].stale = stale]
  BY <1>8, <1>9, <1>10 DEF ShownJobs
<1>12. stale \in BOOLEAN
  BY DEF stale
<1> QED
  BY <1>2, <1>4, <1>7, <1>11, <1>12 DEF Board!End

LEMMA TickIsAge ==
  ASSUME QInv, QInv', Tick
  PROVE  \E old \in SUBSET JobIds : Board!Age(old)
<1>1. jobs \in [JobIds -> Job \cup {None}] /\ jobs' \in [JobIds -> Job \cup {None}]
  BY DEF QInv, TypeOK
<1>2. BoardView = ShownJobs(jobs) /\ BoardView' = ShownJobs(jobs')
  BY ViewIsShown, ViewIsShownNext
<1> DEFINE old == {j \in Stored(jobs) : jobs[j].status # "running" /\ jobs'[j].life = 0}
<1>3. Board!Known(BoardView) \ Board!Runs(BoardView) =
        {j \in Stored(jobs) : jobs[j].status # "running"}
  BY <1>1, <1>2, BoardSets
<1>4. \A j \in JobIds : ShownJobs(jobs')[j] =
        IF j \in old THEN [ShownJobs(jobs)[j] EXCEPT !.stale = TRUE] ELSE ShownJobs(jobs)[j]
  <2> TAKE j \in JobIds
  <2>1. CASE jobs[j] = None
    BY <2>1 DEF Tick, Stored, ShownJobs
  <2>2. CASE jobs[j] # None /\ jobs[j].status = "running"
    BY <1>1, <2>2 DEF Tick, Stored, ShownJobs
  <2>3. CASE jobs[j] # None /\ jobs[j].status # "running"
    <3>1. jobs[j] \in Job /\ jobs'[j] = [jobs[j] EXCEPT !.life = Down(@)]
      BY <1>1, <2>3 DEF Tick
    <3>2. Down(jobs[j].life) \in 0 .. JobTTL /\ (jobs[j].life = 0 => Down(jobs[j].life) = 0)
      BY <3>1, LimitsAssumption DEF Down, Job
    <3>3. /\ jobs'[j] \in Job /\ jobs'[j] # None
          /\ jobs'[j].user = jobs[j].user /\ jobs'[j].status = jobs[j].status
          /\ jobs'[j].life = Down(jobs[j].life)
      BY <3>1, <3>2, NoneAssumption DEF Job
    <3>4. ShownJobs(jobs)[j] = Shown(jobs[j]) /\ ShownJobs(jobs')[j] = Shown(jobs'[j])
      BY <2>3, <3>3 DEF ShownJobs
    <3>5. j \in old <=> jobs'[j].life = 0
      BY <2>3 DEF Stored
    <3>6. /\ Shown(jobs'[j]).user = Shown(jobs[j]).user
          /\ Shown(jobs'[j]).status = Shown(jobs[j]).status
          /\ Shown(jobs'[j]).stale <=> jobs'[j].life = 0
          /\ Shown(jobs[j]).stale <=> jobs[j].life = 0
      BY <2>3, <3>3 DEF Shown
    <3>7. \A job : Shown(job).stale \in BOOLEAN
      BY DEF Shown
    <3>8. CASE j \in old
      <4>1. Shown(jobs'[j]).stale = TRUE
        BY <3>5, <3>6, <3>7, <3>8
      <4>2. Shown(jobs'[j]) = [user |-> jobs[j].user, status |-> jobs[j].status, stale |-> TRUE]
        BY <3>3, <4>1 DEF Shown
      <4>3. [Shown(jobs[j]) EXCEPT !.stale = TRUE]
              = [user |-> jobs[j].user, status |-> jobs[j].status, stale |-> TRUE]
        BY ShownExcept
      <4>4. ShownJobs(jobs')[j] = [Shown(jobs[j]) EXCEPT !.stale = TRUE]
        BY <3>4, <4>2, <4>3, Zenon
      <4>5. ShownJobs(jobs')[j] = [ShownJobs(jobs)[j] EXCEPT !.stale = TRUE]
        BY <3>4, <4>4, Zenon
      <4> QED
        BY <3>8, <4>5, Zenon
    <3>9. CASE j \notin old
      <4>1. jobs[j].life # 0
        BY <3>2, <3>3, <3>5, <3>9
      <4>2. Shown(jobs'[j]).stale = Shown(jobs[j]).stale
        BY <3>5, <3>6, <3>7, <3>9, <4>1
      <4>3. Shown(jobs'[j]) = Shown(jobs[j])
        BY <3>3, <4>2 DEF Shown
      <4> QED
        BY <3>4, <3>9, <4>3
    <3> QED
      BY <3>8, <3>9
  <2> QED
    BY <2>1, <2>2, <2>3
<1>5. old \in SUBSET JobIds /\ old \subseteq Board!Known(BoardView) \ Board!Runs(BoardView)
  BY <1>3 DEF Stored
<1> HIDE DEF old
<1>6. ShownJobs(jobs') =
        [j \in JobIds |-> IF j \in old THEN [ShownJobs(jobs)[j] EXCEPT !.stale = TRUE]
                                       ELSE ShownJobs(jobs)[j]]
  BY <1>4 DEF ShownJobs
<1>7. Board!Age(old)
  BY <1>2, <1>5, <1>6 DEF Board!Age
<1> QED
  BY <1>5, <1>7

\* What leaves the store alone is invisible: a goroutine's step neither starts
\* nor ends a job.
LEMMA QuietIsStutter ==
  ASSUME QInv, QInv', UNCHANGED jobs
  PROVE  UNCHANGED BoardView
<1>1. BoardView = ShownJobs(jobs) /\ BoardView' = ShownJobs(jobs')
  BY ViewIsShown, ViewIsShownNext
<1> QED
  BY <1>1

\* Every step of the jobs is a step JobBoard allows, or none that a submitter
\* sees (submitAsyncQuery, finish, cancelJob, prune).
LEMMA StepImplements ==
  ASSUME QInv, QInv', [Next]_vars
  PROVE  [Board!BoardNext]_BoardView
<1>1. CASE UNCHANGED jobs
  BY <1>1, QuietIsStutter
<1>2. ASSUME NEW q \in Query, NEW u \in Users, submitAsyncQuery(q, u)
      PROVE  Board!BoardNext
  <2>1. PICK gone \in SUBSET JobIds :
          (\E j \in JobIds : Board!Accept(j, u, gone)) \/ Board!Forget(gone)
    BY <1>2, SubmitIsAccept
  <2> QED
    BY <2>1 DEF Board!BoardNext
<1>3. ASSUME NEW j \in JobIds, finish(j)
      PROVE  Board!BoardNext
  <2>1. Board!End(j)
    BY <1>3, FinishIsEnd
  <2> QED
    BY <2>1 DEF Board!BoardNext
<1>4. ASSUME Tick
      PROVE  Board!BoardNext
  <2>1. PICK old \in SUBSET JobIds : Board!Age(old)
    BY <1>4, TickIsAge
  <2> QED
    BY <2>1 DEF Board!BoardNext
<1> QED
  BY <1>1, <1>2, <1>3, <1>4
  DEF Next, vars, Request, Guarded, Enabled, Lookup, Exec, EndExec, ReadTTL, Insert,
      Reply, cancelJob, SetTTL, Flush

LEMMA InitImplements == Init => Board!BoardInit
BY DEF Init, BoardView, Board!BoardInit

\* The jobs implement JobBoard: the bounds hold of what really runs, an outcome
\* stays until it is stale, and no job is over twice (submitAsyncQuery, finish).
\* That every job ends is liveness, and left to the run.
THEOREM JobsImplementBoard == Spec => Board!BoardSafety
<1>1. QInv /\ QInv' /\ [Next]_vars => [Board!BoardNext]_BoardView
  BY StepImplements
<1> QED
  BY QInvAlways, InitImplements, <1>1, PTL DEF Spec, Board!BoardSafety
=============================================================================
