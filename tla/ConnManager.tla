---------------------------- MODULE ConnManager ----------------------------
(***************************************************************************)
(* The database connector: one connection pool per profile, rebuilt when   *)
(* the definition of the profile changed, a circuit breaker per profile,   *)
(* the gate that explains a query before it runs, and the registry of      *)
(* running executions that cancellation goes through.                      *)
(*                                                                         *)
(* A slot is a goroutine that serves one request at a time: an "execute"   *)
(* (Execute: registered, and explained first when it is gated) or a        *)
(* "probe" (Ping, CountRows, Metadata, SystemQuery, the router's look at   *)
(* the tables of a database).  Manager.mu is taken for one call at a time, *)
(* so a call that takes it is one step and anything may happen between two *)
(* of them.                                                                *)
(***************************************************************************)
EXTENDS Integers, FiniteSets

CONSTANTS
  Slots,      \* goroutines serving query requests
  Admins,     \* goroutines serving profile changes
  Profiles,   \* profile ids
  Configs,    \* definitions a profile can have (one profileSignature each)
  Users,      \* callers of executions
  PoolIds,    \* tell the *sql.DB objects of one definition apart; with more
              \* of them than slots one is always free
  Threshold,  \* breakerThreshold: consecutive failures that open a breaker
  Cooldown,   \* breakerCooldown, in ticks
  None        \* no definition, no pool, no profile, no request

ASSUME BreakerAssumption == Threshold \in Nat \ {0} /\ Cooldown \in Nat \ {0}
ASSUME NoneAssumption == None \notin Configs \cup Profiles

\* A *sql.DB: the profile and the definition it was opened for.
Pool == [prof: Profiles, cfg: Configs, id: PoolIds]

ASSUME PoolAssumption == None \notin Pool
VARIABLES
  defs,       \* defs[p]: the definition in the profile store, or None
  pools,      \* pools[p]: the pool the manager holds for p, or None
  open,       \* the pools that are not closed
  brk,        \* brk[p]: failures counted and ticks left to wait
  execs,      \* slots whose execution is in the registry
  cancelled,  \* slots whose context was cancelled by CancelAs
  pc,         \* pc[s]: the step slot s takes next
  req,        \* req[s]: the request s serves and its local variables, or None
  editing,    \* editing[a]: the profile a saved and has yet to invalidate
  streak      \* history: failures recorded for p since the last success

vars == <<defs, pools, open, brk, execs, cancelled, pc, req, editing, streak>>
breakers == <<brk, streak>>

Steps == {"idle", "read", "check", "pool", "register", "start", "running",
          "record", "release"}

\* `cfg' is the definition the request read, `plan' the one its ExplainPlan
\* read, `ex' that the EXPLAIN is under way, `ok' how the last query ended.
Request == [kind: {"execute", "probe"}, prof: Profiles, user: Users,
            gated: BOOLEAN, cfg: Configs, plan: Configs \cup {None},
            ex: BOOLEAN, pool: Pool \cup {None}, ok: BOOLEAN]

Closed == [failures |-> 0, wait |-> 0]

\* Counting stops at the threshold, the code only compares with it.
Bump(n) == IF n < Threshold THEN n + 1 ELSE n

-----------------------------------------------------------------------------
Go(s, step) == pc' = [pc EXCEPT ![s] = step]

\* The request returns; its context is gone with it.
Finish(s) ==
  /\ Go(s, "idle")
  /\ req' = [req EXCEPT ![s] = None]
  /\ cancelled' = cancelled \ {s}

\* Whatever became of the EXPLAIN, the query goes on with a pool of its own
\* and without a second look at the breaker.
Proceed(s) ==
  /\ Go(s, "pool")
  /\ req' = [req EXCEPT ![s].ex = FALSE, ![s].plan = None, ![s].pool = None,
                        ![s].ok = FALSE]
  /\ UNCHANGED cancelled

\* An error return: of ExplainPlan, which Execute ignores, or of the request.
Abandon(s) == IF req[s].ex THEN Proceed(s) ELSE Finish(s)

\* The definition whose pool is asked for.
Wanted(s) == IF req[s].ex THEN req[s].plan ELSE req[s].cfg

\* The query is over, the request has no more use for the pool.
Result(s, ok) == [req EXCEPT ![s].ok = ok, ![s].pool = None]

\* Mutated form: nobody is ever turned away.
BlockedNever(p) == FALSE

\* breakerCheck
Blocked(p) == brk[p].wait > 0

\* Mutated form: a success closes the breaker but keeps counting.
SucceededKeepsCount(p) == [brk EXCEPT ![p].wait = 0]

\* breakerRecord(p, nil)
Succeeded(p) == [brk EXCEPT ![p] = Closed]

\* breakerRecord(p, err)
Failed(p) ==
  LET n == Bump(brk[p].failures) IN
  [brk EXCEPT ![p] = [failures |-> n,
                      wait |-> IF n >= Threshold THEN Cooldown ELSE @.wait]]

-----------------------------------------------------------------------------
Init ==
  /\ defs \in [Profiles -> Configs \cup {None}]
  /\ pools = [p \in Profiles |-> None]
  /\ open = {}
  /\ brk = [p \in Profiles |-> Closed]
  /\ execs = {}
  /\ cancelled = {}
  /\ pc = [s \in Slots |-> "idle"]
  /\ req = [s \in Slots |-> None]
  /\ editing = [a \in Admins |-> None]
  /\ streak = [p \in Profiles |-> 0]

-----------------------------------------------------------------------------
(* A request.                                                              *)

\* Mutated form: the error of GetProfileByID is dropped.
BeginUnchecked(s, p, u, kind, gated) ==
  /\ pc[s] = "idle"
  /\ kind = "probe" => ~gated
  /\ req' = [req EXCEPT ![s] =
       [kind |-> kind, prof |-> p, user |-> u, gated |-> gated,
        cfg |-> defs[p], plan |-> None, ex |-> FALSE, pool |-> None,
        ok |-> FALSE]]
  /\ Go(s, "check")
  /\ UNCHANGED <<defs, pools, open, breakers, execs, cancelled, editing>>

\* The profile is read from the store and the SQL passes the guard; a request
\* that fails here changes nothing.
Begin(s, p, u, kind, gated) ==
  /\ pc[s] = "idle"
  /\ defs[p] # None
  /\ kind = "probe" => ~gated
  /\ req' = [req EXCEPT ![s] =
       [kind |-> kind, prof |-> p, user |-> u, gated |-> gated,
        cfg |-> defs[p], plan |-> None, ex |-> FALSE, pool |-> None,
        ok |-> FALSE]]
  /\ Go(s, "check")
  /\ UNCHANGED <<defs, pools, open, breakers, execs, cancelled, editing>>

Check(s) ==
  LET r == req[s] IN
  /\ pc[s] = "check"
  /\ IF Blocked(r.prof)
       THEN Abandon(s)
       ELSE /\ Go(s, IF r.gated /\ ~r.ex THEN "read" ELSE "pool")
            /\ UNCHANGED <<req, cancelled>>
  /\ UNCHANGED <<defs, pools, open, breakers, execs, editing>>

\* ExplainPlan reads the profile again; it may be gone, or changed so that the
\* SQL does not pass any more.
ReadForPlan(s) ==
  LET p == req[s].prof IN
  /\ pc[s] = "read"
  /\ \/ /\ defs[p] # req[s].cfg
        /\ Proceed(s)
     \/ /\ defs[p] # None
        /\ req' = [req EXCEPT ![s].ex = TRUE, ![s].plan = defs[p]]
        /\ Go(s, "check")
        /\ UNCHANGED cancelled
  /\ UNCHANGED <<defs, pools, open, breakers, execs, editing>>

\* Mutated form: the replaced pool is dropped without closing it.
DroppedNothing(p, c) == open

\* The pools left open when the pool of p is not the one for c.
Dropped(p, c) == open \ {pools[p]}

\* Pools nobody refers to: what openDB may return.
Fresh(p, c) ==
  {h \in Pool : /\ h.prof = p
                /\ h.cfg = c
                /\ h \notin open
                /\ \A s \in Slots : req[s] # None => req[s].pool # h}

\* Mutated form: any pool of the profile will do.
ReusableAny(p, c) == pools[p] # None

Reusable(p, c) == pools[p] # None /\ pools[p].cfg = c

\* m.db: the pool of the profile, if it was opened for this definition;
\* otherwise that one is closed and a new one opened.
GetPool(s) ==
  LET p == req[s].prof
      c == Wanted(s) IN
  /\ pc[s] = "pool"
  /\ \/ /\ Reusable(p, c)
        /\ req' = [req EXCEPT ![s].pool = pools[p]]
        /\ UNCHANGED <<pools, open>>
     \/ /\ ~Reusable(p, c)
        /\ Fresh(p, c) # {}
        /\ LET h == CHOOSE f \in Fresh(p, c) : TRUE IN
           /\ open' = Dropped(p, c) \cup {h}
           /\ pools' = [pools EXCEPT ![p] = h]
           /\ req' = [req EXCEPT ![s].pool = h]
  /\ Go(s, IF req[s].kind = "execute" /\ ~req[s].ex THEN "register"
           ELSE "start")
  /\ UNCHANGED <<defs, breakers, execs, cancelled, editing>>

\* The password does not resolve or the driver refuses: the old pool is gone.
GetPoolFails(s) ==
  LET p == req[s].prof
      c == Wanted(s) IN
  /\ pc[s] = "pool"
  /\ ~Reusable(p, c)
  /\ open' = Dropped(p, c)
  /\ pools' = [pools EXCEPT ![p] = None]
  /\ req' = Result(s, FALSE)
  /\ Go(s, "record")
  /\ UNCHANGED <<defs, breakers, execs, cancelled, editing>>

Register(s) ==
  /\ pc[s] = "register"
  /\ execs' = execs \cup {s}
  /\ Go(s, "start")
  /\ UNCHANGED <<defs, pools, open, breakers, cancelled, req, editing>>

\* A closed pool and a cancelled context refuse the query at once.
Start(s) ==
  /\ pc[s] = "start"
  /\ IF req[s].pool \in open /\ s \notin cancelled
       THEN Go(s, "running") /\ UNCHANGED req
       ELSE Go(s, "record") /\ req' = Result(s, FALSE)
  /\ UNCHANGED <<defs, pools, open, breakers, execs, cancelled, editing>>

\* Rows, or an error: of the database, a timeout, a cancellation.  A query that
\* has started survives the closing of its pool.
Run(s) ==
  /\ pc[s] = "running"
  /\ \E ok \in BOOLEAN : req' = Result(s, ok)
  /\ Go(s, "record")
  /\ UNCHANGED <<defs, pools, open, breakers, execs, cancelled, editing>>

RecordResult(s) ==
  LET r == req[s] IN
  /\ brk' = IF r.ok THEN Succeeded(r.prof) ELSE Failed(r.prof)
  /\ streak' = [streak EXCEPT ![r.prof] = IF r.ok THEN 0 ELSE Bump(@)]

\* The result is recorded.  A registered execution has a deferred step left;
\* after an EXPLAIN the gate may refuse the query.
RecordAndReturn(s) ==
  /\ pc[s] = "record"
  /\ RecordResult(s)
  /\ IF s \in execs
       THEN Go(s, "release") /\ UNCHANGED <<req, cancelled>>
       ELSE \/ Abandon(s)
            \/ req[s].ex /\ req[s].ok /\ Finish(s)
  /\ UNCHANGED <<defs, pools, open, execs, editing>>

\* The paths that record nothing: an EXPLAIN whose output cannot be analysed, a
\* result whose columns cannot be read, the router's inventory.
ReturnUnrecorded(s) ==
  /\ pc[s] = "record"
  /\ req[s].kind = "probe" \/ (req[s].ex /\ req[s].ok)
  /\ Abandon(s)
  /\ UNCHANGED <<defs, pools, open, breakers, execs, editing>>

\* Mutated form: a cancelled execution stays in the registry.
ReleaseUnlessCancelled(s) ==
  /\ pc[s] = "release"
  /\ execs' = IF s \in cancelled THEN execs ELSE execs \ {s}
  /\ Finish(s)
  /\ UNCHANGED <<defs, pools, open, breakers, editing>>

\* The deferred cancel and unregisterExec.
Release(s) ==
  /\ pc[s] = "release"
  /\ execs' = execs \ {s}
  /\ Finish(s)
  /\ UNCHANGED <<defs, pools, open, breakers, editing>>

-----------------------------------------------------------------------------
(* Cancellation, profile changes, time.                                    *)

\* A caller cancels executions of their own, an admin any.
CancelAs(s, u, admin) ==
  /\ s \in execs
  /\ admin \/ req[s].user = u
  /\ cancelled' = cancelled \cup {s}
  /\ UNCHANGED <<defs, pools, open, breakers, execs, pc, req, editing>>

\* A profile is saved or deleted; the pool is dropped by the next step.
SaveProfile(a, p, c) ==
  /\ editing[a] = None
  /\ defs' = [defs EXCEPT ![p] = c]
  /\ editing' = [editing EXCEPT ![a] = p]
  /\ UNCHANGED <<pools, open, breakers, execs, cancelled, pc, req>>

Invalidate(a) ==
  LET p == editing[a] IN
  /\ p # None
  /\ open' = open \ {pools[p]}
  /\ pools' = [pools EXCEPT ![p] = None]
  /\ brk' = [brk EXCEPT ![p] = Closed]
  /\ editing' = [editing EXCEPT ![a] = None]
  /\ UNCHANGED <<defs, execs, cancelled, pc, req, streak>>

Tick ==
  /\ \E p \in Profiles : brk[p].wait > 0
  /\ brk' = [p \in Profiles |->
               [brk[p] EXCEPT !.wait = IF @ > 0 THEN @ - 1 ELSE 0]]
  /\ UNCHANGED <<defs, pools, open, execs, cancelled, pc, req, editing,
                 streak>>

-----------------------------------------------------------------------------
RequestStep(s) ==
  \/ Check(s) \/ ReadForPlan(s) \/ GetPool(s) \/ GetPoolFails(s)
  \/ Register(s) \/ Start(s) \/ Run(s)
  \/ RecordAndReturn(s) \/ ReturnUnrecorded(s) \/ Release(s)

Next ==
  \/ \E s \in Slots :
       \/ \E p \in Profiles, u \in Users, kind \in {"execute", "probe"},
             gated \in BOOLEAN : Begin(s, p, u, kind, gated)
       \/ RequestStep(s)
       \/ \E u \in Users, admin \in BOOLEAN : CancelAs(s, u, admin)
  \/ \E a \in Admins :
       \/ \E p \in Profiles, c \in Configs \cup {None} : SaveProfile(a, p, c)
       \/ Invalidate(a)
  \/ Tick

Spec == Init /\ [][Next]_vars

\* A request takes its next step (every query runs under a timeout) and time
\* passes; nobody has to send requests or change profiles.
Fairness == WF_vars(Tick) /\ \A s \in Slots : WF_vars(RequestStep(s))

FairSpec == Spec /\ Fairness

-----------------------------------------------------------------------------
TypeOK ==
  /\ defs \in [Profiles -> Configs \cup {None}]
  /\ pools \in [Profiles -> Pool \cup {None}]
  /\ open \subseteq Pool
  /\ brk \in [Profiles -> [failures: 0 .. Threshold, wait: 0 .. Cooldown]]
  /\ execs \subseteq Slots
  /\ cancelled \subseteq Slots
  /\ pc \in [Slots -> Steps]
  /\ req \in [Slots -> Request \cup {None}]
  /\ editing \in [Admins -> Profiles \cup {None}]
  /\ streak \in [Profiles -> 0 .. Threshold]

-----------------------------------------------------------------------------
(* Safety.                                                                 *)

\* The open pools are exactly the ones the manager holds: replacing, failing to
\* replace and invalidating a pool close it, and no request is given a pool
\* that somebody else has closed already (db, Invalidate).
PoolsAreOwned == open = {pools[p] : p \in Profiles} \ {None}

\* A query runs on a pool that was opened for the definition its request read,
\* checked and takes its limits from, however the profile changes meanwhile
\* (the signature of a pool).
RightPool ==
  \A s \in Slots :
    pc[s] \in {"register", "start", "running"}
      => /\ req[s].pool # None
         /\ req[s].pool.prof = req[s].prof
         /\ req[s].pool.cfg = Wanted(s)

\* A profile is only blocked after breakerThreshold failures without a success
\* in between, whichever requests and changes overlap (breakerRecord).
BlockedOnlyAfterFailures ==
  \A p \in Profiles : brk[p].wait > 0 => streak[p] = Threshold

\* The registry lists executions that are in flight, and every execution whose
\* query runs is in it and can be cancelled (registerExec, unregisterExec).
RegistryIsExact ==
  \A s \in Slots :
    /\ s \in execs => pc[s] \in {"start", "running", "record", "release"}
    /\ pc[s] = "running" /\ req[s].kind = "execute" => s \in execs \/ req[s].ex

-----------------------------------------------------------------------------
(* Liveness.                                                               *)

\* A blocked profile is let in again, even if everything that still runs
\* fails: the requests already past the check are few and the others do not
\* extend the wait (breakerCheck, breakerCooldown).
BreakersRecover == \A p \in Profiles : brk[p].wait > 0 ~> brk[p].wait = 0
=============================================================================
