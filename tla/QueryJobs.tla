----------------------------- MODULE QueryJobs ------------------------------
(***************************************************************************)
(* Query execution behind the API: the result cache every execution goes   *)
(* through (executeGuarded) and the asynchronous jobs, whose goroutines    *)
(* outlive the request that submitted them.                                *)
(*                                                                         *)
(* A runner is a goroutine inside executeGuarded: a worker serving one     *)
(* request at a time, or the goroutine of a job.  The cache and the job    *)
(* store each have a mutex, held for one call; the cache's lifetime is an  *)
(* atomic that is read outside of it.                                      *)
(***************************************************************************)
EXTENDS Naturals, FiniteSets

CONSTANTS
  Workers,     \* goroutines serving synchronous requests
  JobIds,      \* ids of asynchronous jobs, more than MaxTotal
  Admins,      \* goroutines applying settings
  Users,
  Texts,       \* a profile and the text of a statement
  Limits,      \* requested row limits, 0 for none
  DefaultRows, \* default_max_rows of the profile
  Binds,       \* values bound to the statement
  NoBinds,     \* a statement without any
  TTLs,        \* lifetimes cache_ttl_seconds can be set to, 0 to disable
  JobTTL,      \* jobResultTTL; both lifetimes in ticks
  MaxEntries,  \* cacheMaxEntries
  MaxPerUser,  \* jobMaxPerUser
  MaxTotal,    \* jobMaxTotal
  None

ASSUME RunnersAssumption == Workers \cap JobIds = {}
ASSUME LimitsAssumption ==
  /\ Limits \subseteq Nat /\ DefaultRows \in Nat
  /\ TTLs \subseteq Nat /\ 0 \in TTLs /\ JobTTL \in Nat
  /\ MaxEntries \in Nat \ {0} /\ MaxPerUser \in Nat /\ MaxTotal \in Nat
  /\ NoBinds \in Binds

VARIABLES
  ttl,      \* ttlSeconds of the cache
  cache,    \* cache[k]: the entry under key k, or None
  jobs,     \* jobs[j]: the job in the store, or None
  run,      \* run[r]: what runner r is doing, or None
  applying  \* the admin inside ApplySettings who has yet to flush, or None

vars == <<ttl, cache, jobs, run, applying>>

Runners == Workers \cup JobIds

\* The rows a query returns are told apart by what they were asked for.
Result == [text: Texts, rows: Nat, binds: Binds]

Query == [text: Texts, limit: Limits, binds: Binds, preview: BOOLEAN]

Keys == [text: Texts, limit: Limits]

\* Of a job, `user' is the submitter.
Execution == [query: Query, user: Users \cup {None},
              step: {"get", "lookup", "exec", "running", "put", "insert",
                     "reply", "failed"},
              life: TTLs,  \* ttl as put read it
              result: Result \cup {None}]

Job == [user: Users, status: {"running", "done", "failed"}, life: 0 .. JobTTL]

Entry == [result: Result, life: Nat]

ASSUME NoneAssumption == None \notin Job \cup Execution \cup Entry

-----------------------------------------------------------------------------
cacheKey(q) == [text |-> q.text, limit |-> q.limit]

\* Execute: previews and queries without a limit get the default number of rows.
RowsOf(q) == IF q.preview \/ q.limit = 0 THEN DefaultRows ELSE q.limit

Answer(q) == [text |-> q.text, rows |-> RowsOf(q), binds |-> q.binds]

\* Mutated form: every entry that is too many is left to the next put.
MakeRoomLazily(c) == [k \in Keys |-> IF c[k] # None /\ c[k].life = 0
                                       THEN None ELSE c[k]]

Entries(c) == {k \in Keys : c[k] # None}

\* A full cache drops what expired and, if it is still full, everything.
MakeRoom(c) ==
  LET live == [k \in Keys |-> IF c[k] # None /\ c[k].life = 0
                                THEN None ELSE c[k]] IN
  IF Cardinality(Entries(c)) < MaxEntries THEN c
  ELSE IF Cardinality(Entries(live)) < MaxEntries THEN live
  ELSE [k \in Keys |-> None]

\* Mutated form: a job goes as soon as it is over.
pruneFinished(js) ==
  [j \in JobIds |->
     IF js[j] # None /\ js[j].status # "running" THEN None ELSE js[j]]

prune(js) ==
  [j \in JobIds |->
     IF js[j] # None /\ js[j].status # "running" /\ js[j].life = 0
       THEN None ELSE js[j]]

Stored(js) == {j \in JobIds : js[j] # None}

runningFor(js, u) ==
  {j \in Stored(js) : js[j].status = "running" /\ js[j].user = u}

-----------------------------------------------------------------------------
Init ==
  /\ ttl \in TTLs
  /\ cache = [k \in Keys |-> None]
  /\ jobs = [j \in JobIds |-> None]
  /\ run = [r \in Runners |-> None]
  /\ applying = None

-----------------------------------------------------------------------------
(* executeGuarded                                                          *)

Start(q, u, fresh) ==
  [query |-> q, user |-> u,
   step |-> IF fresh \/ q.preview THEN "exec" ELSE "get",
   life |-> 0, result |-> None]

\* A validated request of a user who may use the profile.
Request(w, q, fresh) ==
  /\ run[w] = None
  /\ run' = [run EXCEPT ![w] = Start(q, None, fresh)]
  /\ UNCHANGED <<ttl, cache, jobs, applying>>

At(r, step) == run[r] # None /\ run[r].step = step

\* Whether caching is enabled is read before the lock is taken.
Enabled(r) ==
  /\ At(r, "get")
  /\ run' = [run EXCEPT ![r].step = IF ttl > 0 THEN "lookup" ELSE "exec"]
  /\ UNCHANGED <<ttl, cache, jobs, applying>>

Fresh(k) == cache[k] # None /\ cache[k].life > 0

\* A hit, or a miss that removes an entry that has expired.
Lookup(r) ==
  LET k == cacheKey(run[r].query) IN
  /\ At(r, "lookup")
  /\ IF Fresh(k)
       THEN /\ run' = [run EXCEPT ![r].step = "reply",
                                  ![r].result = cache[k].result]
            /\ UNCHANGED cache
       ELSE /\ run' = [run EXCEPT ![r].step = "exec"]
            /\ cache' = [cache EXCEPT ![k] = None]
  /\ UNCHANGED <<ttl, jobs, applying>>

\* The query starts, or is refused: by a breaker, by the plan gate.
Exec(r) ==
  /\ At(r, "exec")
  /\ \/ run' = [run EXCEPT ![r].step = "running"]
     \/ run' = [run EXCEPT ![r].step = "failed"]
  /\ UNCHANGED <<ttl, cache, jobs, applying>>

\* Mutated form: previews are cached like complete results.
EndExecCachingPreviews(r) ==
  /\ At(r, "running")
  /\ \/ run' = [run EXCEPT ![r].step = "put",
                           ![r].result = Answer(run[r].query)]
     \/ run' = [run EXCEPT ![r].step = "failed"]
  /\ UNCHANGED <<ttl, cache, jobs, applying>>

\* The query ends; what comes back is masked before anybody sees it.
EndExec(r) ==
  /\ At(r, "running")
  /\ \/ run' = [run EXCEPT ![r].step = IF run[r].query.preview
                                         THEN "reply" ELSE "put",
                           ![r].result = Answer(run[r].query)]
     \/ run' = [run EXCEPT ![r].step = "failed"]
  /\ UNCHANGED <<ttl, cache, jobs, applying>>

\* put reads the lifetime; too large a result is not kept either.
ReadTTL(r) ==
  /\ At(r, "put")
  /\ \/ ttl > 0 /\ run' = [run EXCEPT ![r].step = "insert", ![r].life = ttl]
     \/ run' = [run EXCEPT ![r].step = "reply"]
  /\ UNCHANGED <<ttl, cache, jobs, applying>>

Insert(r) ==
  /\ At(r, "insert")
  /\ cache' = [MakeRoom(cache) EXCEPT
                 ![cacheKey(run[r].query)] =
                    [result |-> run[r].result, life |-> run[r].life]]
  /\ run' = [run EXCEPT ![r].step = "reply", ![r].life = 0]
  /\ UNCHANGED <<ttl, jobs, applying>>

\* The response of a request is written.
Reply(w) ==
  /\ At(w, "reply") \/ At(w, "failed")
  /\ run' = [run EXCEPT ![w] = None]
  /\ UNCHANGED <<ttl, cache, jobs, applying>>

-----------------------------------------------------------------------------
(* Jobs                                                                    *)

\* Expired results make room, then both limits are checked and the job is
\* registered, under one lock.  Ids are random: any free one will do.
submitAsyncQuery(q, u) ==
  LET kept == prune(jobs)
      free == JobIds \ Stored(kept)
      j == CHOOSE i \in free : TRUE IN
  /\ q.binds = NoBinds /\ ~q.preview
  /\ IF \/ Cardinality(Stored(kept)) >= MaxTotal
        \/ Cardinality(runningFor(kept, u)) >= MaxPerUser
       THEN jobs' = kept /\ UNCHANGED run
       ELSE /\ free # {}
            /\ jobs' = [kept EXCEPT ![j] = [user |-> u, status |-> "running",
                                            life |-> JobTTL]]
            /\ run' = [run EXCEPT ![j] = Start(q, u, TRUE)]
  /\ UNCHANGED <<ttl, cache, applying>>

\* Mutated form: the error of a query leaves the job as it is.
finishQuietly(j) ==
  /\ At(j, "reply") \/ At(j, "failed")
  /\ jobs' = IF At(j, "reply") THEN [jobs EXCEPT ![j].status = "done"] ELSE jobs
  /\ run' = [run EXCEPT ![j] = None]
  /\ UNCHANGED <<ttl, cache, applying>>

\* Mutated form: a failure is reported with a status nobody polls for.
finishUnknown(j) ==
  /\ At(j, "reply") \/ At(j, "failed")
  /\ jobs' = [jobs EXCEPT ![j].status = IF At(j, "reply") THEN "done"
                                                          ELSE "error"]
  /\ run' = [run EXCEPT ![j] = None]
  /\ UNCHANGED <<ttl, cache, applying>>

\* The goroutine's last step: the result is kept for jobResultTTL.
finish(j) ==
  /\ At(j, "reply") \/ At(j, "failed")
  /\ jobs' = [jobs EXCEPT ![j].status = IF At(j, "reply") THEN "done"
                                                          ELSE "failed"]
  /\ run' = [run EXCEPT ![j] = None]
  /\ UNCHANGED <<ttl, cache, applying>>

\* Mutated form: a cancelled job counts as failed at once.
cancelJobNow(j, u, isAdmin) ==
  /\ jobs[j] # None
  /\ isAdmin \/ jobs[j].user = u
  /\ jobs[j].status = "running"
  /\ jobs' = [jobs EXCEPT ![j].status = "failed"]
  /\ IF At(j, "exec") THEN run' = [run EXCEPT ![j].step = "failed"]
                       ELSE UNCHANGED run
  /\ UNCHANGED <<ttl, cache, applying>>

\* Cancelling only ends the context: a query that has yet to start fails, one
\* that runs may, and the job is over when its goroutine says so.
cancelJob(j, u, isAdmin) ==
  /\ jobs[j] # None
  /\ isAdmin \/ jobs[j].user = u
  /\ jobs[j].status = "running"
  /\ IF At(j, "exec") THEN run' = [run EXCEPT ![j].step = "failed"]
                       ELSE UNCHANGED run
  /\ UNCHANGED <<ttl, cache, jobs, applying>>

-----------------------------------------------------------------------------
(* Settings and time                                                       *)

\* SetTTL stores the lifetime; ApplySettings holds settingsMu until the flush.
SetTTL(a, t) ==
  /\ applying = None
  /\ ttl' = t
  /\ applying' = IF t = 0 THEN a ELSE None
  /\ UNCHANGED <<cache, jobs, run>>

Flush ==
  /\ applying # None
  /\ cache' = [k \in Keys |-> None]
  /\ applying' = None
  /\ UNCHANGED <<ttl, jobs, run>>

Down(n) == IF n > 0 THEN n - 1 ELSE 0

\* Entries and the results of finished jobs grow older.
Tick ==
  /\ cache' = [k \in Keys |-> IF cache[k] = None THEN None
                              ELSE [cache[k] EXCEPT !.life = Down(@)]]
  /\ jobs' = [j \in JobIds |->
                IF jobs[j] = None THEN None
                ELSE IF jobs[j].status = "running" THEN jobs[j]
                ELSE [jobs[j] EXCEPT !.life = Down(@)]]
  /\ <<cache', jobs'>> # <<cache, jobs>>
  /\ UNCHANGED <<ttl, run, applying>>

-----------------------------------------------------------------------------
Guarded(r) ==
  \/ Enabled(r) \/ Lookup(r) \/ Exec(r) \/ EndExec(r)
  \/ ReadTTL(r) \/ Insert(r)

Next ==
  \/ \E w \in Workers :
       \/ \E q \in Query, fresh \in BOOLEAN : Request(w, q, fresh)
       \/ Guarded(w) \/ Reply(w)
  \/ \E j \in JobIds :
       \/ Guarded(j) \/ finish(j)
       \/ \E u \in Users, isAdmin \in BOOLEAN : cancelJob(j, u, isAdmin)
  \/ \E q \in Query, u \in Users : submitAsyncQuery(q, u)
  \/ \E a \in Admins, t \in TTLs : SetTTL(a, t)
  \/ Flush
  \/ Tick

Spec == Init /\ [][Next]_vars

\* A job's goroutine is scheduled, and its query ends: every query runs under
\* a timeout.  Nobody has to poll, cancel or submit.
Fairness == \A j \in JobIds : WF_vars(Guarded(j)) /\ WF_vars(finish(j))

FairSpec == Spec /\ Fairness

-----------------------------------------------------------------------------
TypeOK ==
  /\ ttl \in TTLs
  /\ cache \in [Keys -> Entry \cup {None}]
  /\ jobs \in [JobIds -> Job \cup {None}]
  /\ run \in [Runners -> Execution \cup {None}]
  /\ applying \in Admins \cup {None}

-----------------------------------------------------------------------------
(* Safety                                                                  *)

\* An answer, from the database or from the cache, was computed for the same
\* profile, text and number of rows, never a preview passed off as the whole
\* (cacheKey, executeGuarded).
AnswersMatch ==
  \A r \in Runners : At(r, "reply") =>
    /\ run[r].result.text = run[r].query.text
    /\ run[r].result.rows = RowsOf(run[r].query)

\* Never more entries than the bound, whatever is inserted meanwhile (put).
CacheIsBounded == Cardinality(Entries(cache)) <= MaxEntries

\* The limits bound the queries that really run in the background, not only
\* the jobs that are listed as running: neither cancelling nor pruning frees
\* a place before the goroutine has ended (submitAsyncQuery, cancelJob).
BackgroundWithinLimits ==
  /\ Cardinality({j \in JobIds : run[j] # None}) <= MaxTotal
  /\ \A u \in Users :
       Cardinality({j \in JobIds : run[j] # None /\ run[j].user = u})
         <= MaxPerUser

\* A submitter finds the job until its result has expired, and what it said
\* when it was over it goes on saying (prune, jobView).
JobsAreKept ==
  [][\A j \in JobIds :
       jobs[j] # None /\ (jobs[j].status = "running" \/ jobs[j].life > 0)
         => /\ jobs'[j] # None
            /\ jobs'[j].user = jobs[j].user
            /\ jobs[j].status # "running" => jobs'[j].status = jobs[j].status
    ]_vars

\* The binds are not part of the key: does a cached answer belong to the
\* request?  (cacheKey)
AnswersHaveOwnBinds ==
  \A r \in Runners : At(r, "reply") => run[r].result.binds = run[r].query.binds

-----------------------------------------------------------------------------
(* What it implements                                                      *)

\* A job as its submitter knows it: it runs as long as its goroutine does,
\* whatever the store says of it.
BoardView ==
  [j \in JobIds |->
     IF jobs[j] = None THEN None
     ELSE [user |-> jobs[j].user,
           status |-> IF run[j] # None THEN "running" ELSE jobs[j].status,
           stale |-> jobs[j].status # "running" /\ jobs[j].life = 0]]

Board == INSTANCE JobBoard WITH board <- BoardView

ASSUME BoardAssumption == None \notin Board!BoardJob

\* The store, the goroutines and the cancellations keep what JobBoard promises
\* the submitters: bounds on what really runs, one outcome that stays until it
\* is stale, and an end of every job (submitAsyncQuery, finish, cancelJob).
ImplementsBoard == Board!BoardSpec
=============================================================================
