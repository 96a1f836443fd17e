------------------------ MODULE ConnManager_proofs -------------------------
(* The safety of the database connector, for any number of goroutines,      *)
(* profiles and definitions and for every threshold and cooldown.           *)
EXTENDS MCConnTimeouts, FiniteSetTheorems, TLAPS

-----------------------------------------------------------------------------
(* The inductive invariant, in parts.                                       *)

\* A slot that is not idle serves a request.
Serving == \A s \in Slots : pc[s] # "idle" => req[s] \in Request

\* The manager never files a pool under another profile.
PoolsAreFiled == \A p \in Profiles : pools[p] # None => pools[p].prof = p

\* The count of a breaker starts over more often than the history, and the
\* breaker waits only with a full count.
BreakersCount ==
  \A p \in Profiles :
    /\ brk[p].failures <= streak[p]
    /\ brk[p].wait > 0 => brk[p].failures = Threshold

\* Only queries of executions are registered, never an EXPLAIN or a probe.
Registered ==
  \A s \in Slots :
    /\ s \in execs =>
         /\ pc[s] \in {"start", "running", "record", "release"}
         /\ req[s].kind = "execute"
         /\ ~req[s].ex
    /\ pc[s] = "register" => req[s].kind = "execute" /\ ~req[s].ex
    /\ pc[s] \in {"start", "running"} /\ req[s].kind = "execute" =>
         s \in execs \/ req[s].ex

CInv ==
  /\ TypeOK
  /\ Serving
  /\ PoolsAreFiled
  /\ PoolsAreOwned
  /\ RightPool
  /\ BreakersCount
  /\ Registered

-----------------------------------------------------------------------------
(* What one call does to a breaker.                                         *)

\* A count stays within the threshold and bumping keeps the order.
LEMMA BumpBounds ==
  ASSUME NEW m \in 0 .. Threshold, NEW n \in 0 .. Threshold, m <= n
  PROVE  /\ Bump(n) \in 0 .. Threshold
         /\ Bump(m) <= Bump(n)
BY BreakerAssumption DEF Bump

Breakers == [Profiles -> [failures: 0 .. Threshold, wait: 0 .. Cooldown]]

\* A failure counts once and opens the breaker exactly at the threshold
\* (breakerRecord with an error).
LEMMA FailedCounts ==
  ASSUME brk \in Breakers, NEW p \in Profiles
  PROVE  /\ Failed(p) \in Breakers
         /\ Failed(p)[p].failures = Bump(brk[p].failures)
         /\ Failed(p)[p].wait = IF Bump(brk[p].failures) >= Threshold
                                  THEN Cooldown ELSE brk[p].wait
         /\ \A q \in Profiles : q # p => Failed(p)[q] = brk[q]
<1>1. brk[p] \in [failures: 0 .. Threshold, wait: 0 .. Cooldown]
  BY DEF Breakers
<1>2. Bump(brk[p].failures) \in 0 .. Threshold
  BY <1>1, BreakerAssumption DEF Bump
<1> QED
  BY <1>1, <1>2, BreakerAssumption DEF Failed, Breakers

\* A success forgets every failure (breakerRecord without an error).
LEMMA SucceededForgets ==
  ASSUME brk \in Breakers, NEW p \in Profiles
  PROVE  /\ Succeeded(p) \in Breakers
         /\ Succeeded(p)[p] = Closed
         /\ \A q \in Profiles : q # p => Succeeded(p)[q] = brk[q]
BY BreakerAssumption DEF Succeeded, Closed, Breakers

-----------------------------------------------------------------------------
(* Types.                                                                   *)

LEMMA InitTypes == Init => TypeOK /\ Serving
BY BreakerAssumption DEF Init, TypeOK, Serving, Closed, Steps

\* Slot s moves on, the other slots do not notice.
OnlySlot(s) ==
  /\ pc' \in [Slots -> Steps]
  /\ req' \in [Slots -> Request \cup {None}]
  /\ cancelled' \subseteq Slots
  /\ pc'[s] # "idle" => req'[s] \in Request
  /\ \A t \in Slots \ {s} : pc'[t] = pc[t] /\ req'[t] = req[t]

\* How the helpers of the actions change a request.
LEMMA ProceedSlot ==
  ASSUME TypeOK, NEW s \in Slots, req[s] \in Request, Proceed(s)
  PROVE  /\ OnlySlot(s)
         /\ pc'[s] = "pool"
         /\ ~req'[s].ex
         /\ req'[s].kind = req[s].kind
BY DEF TypeOK, Proceed, Go, Steps, Request, OnlySlot

LEMMA FinishSlot ==
  ASSUME TypeOK, NEW s \in Slots, Finish(s)
  PROVE  OnlySlot(s) /\ pc'[s] = "idle"
BY DEF TypeOK, Finish, Go, Steps, OnlySlot

LEMMA AbandonSlot ==
  ASSUME TypeOK, NEW s \in Slots, req[s] \in Request, Abandon(s)
  PROVE  /\ OnlySlot(s)
         /\ pc'[s] \in {"idle", "pool"}
BY ProceedSlot, FinishSlot DEF Abandon

LEMMA ResultSlot ==
  ASSUME TypeOK, NEW s \in Slots, req[s] \in Request, NEW ok \in BOOLEAN,
         req' = Result(s, ok), Go(s, "record"), UNCHANGED cancelled
  PROVE  /\ OnlySlot(s)
         /\ req'[s] = [req[s] EXCEPT !.ok = ok, !.pool = None]
BY DEF TypeOK, Go, Steps, Result, Request, OnlySlot

LEMMA PoolSlot ==
  ASSUME TypeOK, NEW s \in Slots, req[s] \in Request, NEW h \in Pool,
         req' = [req EXCEPT ![s].pool = h], UNCHANGED cancelled,
         NEW step \in {"register", "start"}, Go(s, step)
  PROVE  /\ OnlySlot(s)
         /\ pc'[s] = step
         /\ req'[s] = [req[s] EXCEPT !.pool = h]
BY DEF TypeOK, Go, Steps, Request, OnlySlot

\* A request that does not change, at another step.
LEMMA MovedSlot ==
  ASSUME TypeOK, NEW s \in Slots, req[s] \in Request, UNCHANGED <<req, cancelled>>,
         NEW step \in Steps, Go(s, step)
  PROVE  OnlySlot(s) /\ pc'[s] = step
BY DEF TypeOK, Go, OnlySlot

\* The pool m.db hands out or builds is one of the profile, for the definition
\* that was asked for, and the manager holds it (db).
LEMMA PoolFound ==
  ASSUME TypeOK, PoolsAreFiled, NEW s \in Slots, req[s] \in Request, GetPool(s)
  PROVE  LET h == pools'[req[s].prof] IN
         /\ h \in Pool
         /\ h.prof = req[s].prof
         /\ h.cfg = Wanted(s)
         /\ req' = [req EXCEPT ![s].pool = h]
         /\ \/ pools' = pools /\ open' = open
            \/ /\ pools' = [pools EXCEPT ![req[s].prof] = h]
               /\ open' = (open \ {pools[req[s].prof]}) \cup {h}
<1> DEFINE p == req[s].prof
           c == Wanted(s)
<1>1. p \in Profiles
  BY DEF Request
<1>2. CASE Reusable(p, c) /\ req' = [req EXCEPT ![s].pool = pools[p]]
           /\ UNCHANGED <<pools, open>>
  BY <1>1, <1>2 DEF TypeOK, PoolsAreFiled, Reusable
<1>3. CASE ~(Reusable(p, c) /\ req' = [req EXCEPT ![s].pool = pools[p]]
             /\ UNCHANGED <<pools, open>>)
  <2> DEFINE h == CHOOSE f \in Fresh(p, c) : TRUE
  <2>1. /\ Fresh(p, c) # {}
        /\ open' = Dropped(p, c) \cup {h}
        /\ pools' = [pools EXCEPT ![p] = h]
        /\ req' = [req EXCEPT ![s].pool = h]
    BY <1>3 DEF GetPool
  <2>2. h \in Fresh(p, c)
    BY <2>1
  <2>3. h \in Pool /\ h.prof = p /\ h.cfg = c
    BY <2>2 DEF Fresh
  <2>4. pools'[p] = h
    BY <1>1, <2>1 DEF TypeOK
  <2> QED
    BY <2>1, <2>3, <2>4 DEF Dropped
<1> QED
  BY <1>2, <1>3

LEMMA PoolStep ==
  ASSUME TypeOK, Serving, PoolsAreFiled, NEW s \in Slots, GetPool(s)
  PROVE  /\ OnlySlot(s)
         /\ pc'[s] = IF req[s].kind = "execute" /\ ~req[s].ex
                       THEN "register" ELSE "start"
         /\ req'[s] = [req[s] EXCEPT !.pool = pools'[req[s].prof]]
<1>1. req[s] \in Request
  BY DEF GetPool, Serving
<1>2. pools'[req[s].prof] \in Pool
      /\ req' = [req EXCEPT ![s].pool = pools'[req[s].prof]]
  BY <1>1, PoolFound
<1> DEFINE step == IF req[s].kind = "execute" /\ ~req[s].ex
                     THEN "register" ELSE "start"
<1>3. Go(s, step) /\ UNCHANGED cancelled /\ step \in {"register", "start"}
  BY DEF GetPool
<1> HIDE DEF step
<1>4. OnlySlot(s) /\ pc'[s] = step
      /\ req'[s] = [req[s] EXCEPT !.pool = pools'[req[s].prof]]
  BY <1>1, <1>2, <1>3, PoolSlot
<1> QED
  BY <1>4 DEF step

\* Every step of a request is a step of its slot alone.
LEMMA RequestLocal ==
  ASSUME TypeOK, Serving, PoolsAreFiled, NEW s \in Slots, RequestStep(s)
  PROVE  req[s] \in Request /\ OnlySlot(s)
<1>1. req[s] \in Request
  BY DEF Serving, RequestStep, Check, ReadForPlan, GetPool, GetPoolFails,
         Register, Start, Run, RecordAndReturn, ReturnUnrecorded, Release
<1>2. CASE Check(s)
  BY <1>1, <1>2, AbandonSlot, MovedSlot DEF Check, Steps
<1>3. CASE ReadForPlan(s)
  <2>1. CASE Proceed(s)
    BY <1>1, <2>1, ProceedSlot
  <2>2. CASE /\ defs[req[s].prof] # None
             /\ req' = [req EXCEPT ![s].ex = TRUE,
                                   ![s].plan = defs[req[s].prof]]
             /\ Go(s, "check")
             /\ UNCHANGED cancelled
    BY <1>1, <2>2 DEF TypeOK, Go, Steps, Request, OnlySlot
  <2> QED
    BY <1>3, <2>1, <2>2 DEF ReadForPlan
<1>4. CASE GetPool(s)
  BY <1>1, <1>4, PoolStep
<1>5. CASE GetPoolFails(s)
  BY <1>1, <1>5, ResultSlot DEF GetPoolFails
<1>6. CASE Register(s)
  BY <1>1, <1>6, MovedSlot DEF Register, Steps
<1>7. CASE Start(s)
  BY <1>1, <1>7, ResultSlot, MovedSlot DEF Start, Steps
<1>8. CASE Run(s)
  BY <1>1, <1>8, ResultSlot DEF Run
<1>9. CASE RecordAndReturn(s)
  BY <1>1, <1>9, MovedSlot, AbandonSlot, FinishSlot DEF RecordAndReturn, Steps
<1>10. CASE ReturnUnrecorded(s)
  BY <1>1, <1>10, AbandonSlot DEF ReturnUnrecorded
<1>11. CASE Release(s)
  BY <1>1, <1>11, FinishSlot DEF Release
<1> QED
  BY <1>1, <1>2, <1>3, <1>4, <1>5, <1>6, <1>7, <1>8, <1>9, <1>10, <1>11
  DEF RequestStep

\* The pools and the breakers keep their types too.
LEMMA RequestTypes ==
  ASSUME TypeOK, Serving, PoolsAreFiled, NEW s \in Slots, RequestStep(s)
  PROVE  TypeOK' /\ Serving'
<1>1. req[s] \in Request /\ OnlySlot(s)
  BY RequestLocal
<1>2. Serving'
  BY <1>1 DEF Serving, OnlySlot
<1>3. req[s].prof \in Profiles
  BY <1>1 DEF Request
<1>4. pools' \in [Profiles -> Pool \cup {None}] /\ open' \subseteq Pool
  <2>1. CASE GetPool(s)
    BY <1>1, <1>3, <2>1, PoolFound DEF TypeOK
  <2>2. CASE GetPoolFails(s)
    BY <2>2 DEF TypeOK, GetPoolFails, Dropped
  <2>3. CASE UNCHANGED <<pools, open>>
    BY <2>3 DEF TypeOK
  <2> QED
    BY <2>1, <2>2, <2>3
    DEF RequestStep, Check, ReadForPlan, Register, Start, Run,
        RecordAndReturn, ReturnUnrecorded, Release
<1>5. brk' \in Breakers /\ streak' \in [Profiles -> 0 .. Threshold]
  <2>1. brk \in Breakers
    BY DEF TypeOK, Breakers
  <2>2. CASE RecordResult(s)
    <3>1. brk' \in Breakers
      BY <1>3, <2>1, <2>2, FailedCounts, SucceededForgets DEF RecordResult
    <3>2. streak[req[s].prof] \in 0 .. Threshold
      BY <1>3 DEF TypeOK
    <3>3. Bump(streak[req[s].prof]) \in 0 .. Threshold /\ 0 \in 0 .. Threshold
      BY <3>2, BreakerAssumption DEF Bump
    <3> QED
      BY <2>2, <3>1, <3>3 DEF RecordResult, TypeOK
  <2>3. CASE UNCHANGED breakers
    BY <2>1, <2>3 DEF TypeOK, breakers
  <2> QED
    BY <2>2, <2>3
    DEF RequestStep, Check, ReadForPlan, GetPool, GetPoolFails, Register,
        Start, Run, RecordAndReturn, ReturnUnrecorded, Release
<1>6. /\ defs' \in [Profiles -> Configs \cup {None}]
      /\ execs' \subseteq Slots
      /\ editing' \in [Admins -> Profiles \cup {None}]
  BY DEF TypeOK, RequestStep, Check, ReadForPlan, GetPool, GetPoolFails,
         Register, Start, Run, RecordAndReturn, ReturnUnrecorded, Release
<1> QED
  BY <1>1, <1>2, <1>4, <1>5, <1>6 DEF TypeOK, OnlySlot, Breakers

\* Requests arrive for a definition that exists; everybody else leaves the
\* requests alone.
LEMMA OtherTypes ==
  ASSUME TypeOK, Serving
  PROVE  /\ \A s \in Slots, p \in Profiles, u \in Users,
              kind \in {"execute", "probe"}, gated \in BOOLEAN :
              Begin(s, p, u, kind, gated) => TypeOK' /\ Serving'
         /\ \A s \in Slots, u \in Users, admin \in BOOLEAN :
              CancelAs(s, u, admin) => TypeOK' /\ Serving'
         /\ \A a \in Admins, p \in Profiles, c \in Configs \cup {None} :
              SaveProfile(a, p, c) => TypeOK' /\ Serving'
         /\ \A a \in Admins : Invalidate(a) => TypeOK' /\ Serving'
         /\ Tick => TypeOK' /\ Serving'
<1>1. ASSUME NEW s \in Slots, NEW p \in Profiles, NEW u \in Users,
             NEW kind \in {"execute", "probe"}, NEW gated \in BOOLEAN,
             Begin(s, p, u, kind, gated)
      PROVE  TypeOK' /\ Serving'
  <2> DEFINE r == [kind |-> kind, prof |-> p, user |-> u, gated |-> gated,
                   cfg |-> defs[p], plan |-> None, ex |-> FALSE,
                   pool |-> None, ok |-> FALSE]
  <2>1. defs[p] \in Configs
    BY <1>1 DEF TypeOK, Begin
  <2>2. r \in Request
    BY <2>1 DEF Request
  <2>3. req' = [req EXCEPT ![s] = r]
    BY <1>1 DEF Begin
  <2> HIDE DEF r
  <2> QED
    BY <1>1, <2>2, <2>3 DEF TypeOK, Serving, Begin, Go, Steps, breakers
<1>2. ASSUME NEW s \in Slots, NEW u \in Users, NEW admin \in BOOLEAN,
             CancelAs(s, u, admin)
      PROVE  TypeOK' /\ Serving'
  BY <1>2 DEF TypeOK, Serving, CancelAs, breakers
<1>3. ASSUME NEW a \in Admins, NEW p \in Profiles,
             NEW c \in Configs \cup {None}, SaveProfile(a, p, c)
      PROVE  TypeOK' /\ Serving'
  BY <1>3 DEF TypeOK, Serving, SaveProfile, breakers
<1>4. ASSUME NEW a \in Admins, Invalidate(a)
      PROVE  TypeOK' /\ Serving'
  BY <1>4, BreakerAssumption DEF TypeOK, Serving, Invalidate, Closed
<1>5. ASSUME Tick
      PROVE  TypeOK' /\ Serving'
  <2>1. \A p \in Profiles :
          [brk[p] EXCEPT !.wait = IF @ > 0 THEN @ - 1 ELSE 0]
            \in [failures: 0 .. Threshold, wait: 0 .. Cooldown]
    BY BreakerAssumption DEF TypeOK
  <2> QED
    BY <1>5, <2>1 DEF TypeOK, Serving, Tick
<1> QED
  BY <1>1, <1>2, <1>3, <1>4, <1>5

-----------------------------------------------------------------------------
(* The pools.                                                               *)

\* No step files a pool under another profile or leaves open a pool nobody
\* owns: only db and Invalidate touch them.
LEMMA OwnedStep ==
  ASSUME TypeOK, Serving, PoolsAreFiled, PoolsAreOwned, Next
  PROVE  PoolsAreFiled' /\ PoolsAreOwned'
<1>1. ASSUME NEW s \in Slots, GetPool(s)
      PROVE  PoolsAreFiled' /\ PoolsAreOwned'
  <2> DEFINE p == req[s].prof
             h == pools'[p]
  <2>1. req[s] \in Request
    BY <1>1 DEF Serving, GetPool
  <2>2. /\ p \in Profiles
        /\ h \in Pool
        /\ h.prof = p
        /\ \/ pools' = pools /\ open' = open
           \/ /\ pools' = [pools EXCEPT ![p] = h]
              /\ open' = (open \ {pools[p]}) \cup {h}
    BY <1>1, <2>1, PoolFound DEF Request
  <2> HIDE DEF h, p
  <2>3. CASE pools' = pools /\ open' = open
    BY <2>3 DEF PoolsAreFiled, PoolsAreOwned
  <2>4. CASE /\ pools' = [pools EXCEPT ![p] = h]
             /\ open' = (open \ {pools[p]}) \cup {h}
    <3>1. PoolsAreFiled'
      BY <2>2, <2>4 DEF PoolsAreFiled, TypeOK
    <3>2. \A q \in Profiles : q # p => pools[q] # pools[p] \/ pools[q] = None
      BY <2>2 DEF PoolsAreFiled
    <3>3. h # None
      BY <2>2, PoolAssumption
    <3>4. \A q \in Profiles : pools'[q] = IF q = p THEN h ELSE pools[q]
      BY <2>2, <2>4 DEF TypeOK
    <3>5. \A x : x \in open' <=> x \in {pools'[q] : q \in Profiles} \ {None}
      BY <2>2, <2>4, <3>2, <3>3, <3>4 DEF PoolsAreOwned
    <3> QED
      BY <3>1, <3>5 DEF PoolsAreOwned
  <2> QED
    BY <2>2, <2>3, <2>4
<1>2. ASSUME NEW p \in Profiles, open' = open \ {pools[p]},
             pools' = [pools EXCEPT ![p] = None]
      PROVE  PoolsAreFiled' /\ PoolsAreOwned'
  <2>1. PoolsAreFiled'
    BY <1>2 DEF PoolsAreFiled, TypeOK
  <2>2. \A q \in Profiles : q # p => pools[q] # pools[p] \/ pools[q] = None
    BY <1>2 DEF PoolsAreFiled
  <2>3. \A q \in Profiles : pools'[q] = IF q = p THEN None ELSE pools[q]
    BY <1>2 DEF TypeOK
  <2>4. \A x : x \in open' <=> x \in {pools'[q] : q \in Profiles} \ {None}
    BY <1>2, <2>2, <2>3 DEF PoolsAreOwned
  <2> QED
    BY <2>1, <2>4 DEF PoolsAreOwned
<1>3. ASSUME NEW s \in Slots, GetPoolFails(s)
      PROVE  PoolsAreFiled' /\ PoolsAreOwned'
  BY <1>2, <1>3 DEF GetPoolFails, Dropped, Serving, Request
<1>4. ASSUME NEW a \in Admins, Invalidate(a)
      PROVE  PoolsAreFiled' /\ PoolsAreOwned'
  BY <1>2, <1>4 DEF Invalidate, TypeOK
<1>5. CASE UNCHANGED <<pools, open>>
  BY <1>5 DEF PoolsAreFiled, PoolsAreOwned
<1> QED
  BY <1>1, <1>3, <1>4, <1>5
  DEF Next, RequestStep, Begin, Check, ReadForPlan, Register, Start, Run,
      RecordAndReturn, ReturnUnrecorded, Release, CancelAs, SaveProfile, Tick

\* The pool a query runs on stays the one its request asked for: nobody else
\* writes the request, and its definition is part of the pool.
LEMMA RightPoolStep ==
  ASSUME TypeOK, Serving, PoolsAreFiled, RightPool, Next
  PROVE  RightPool'
<1>1. ASSUME NEW s \in Slots, RequestStep(s)
      PROVE  RightPool'
  <2>1. req[s] \in Request /\ OnlySlot(s)
    BY <1>1, RequestLocal
  <2>2. ASSUME pc'[s] \in {"register", "start", "running"}
        PROVE  /\ req'[s].pool # None
               /\ req'[s].pool.prof = req'[s].prof
               /\ req'[s].pool.cfg = Wanted(s)'
    <3>1. CASE GetPool(s)
      <4> DEFINE h == pools'[req[s].prof]
      <4>1. h \in Pool /\ h.prof = req[s].prof /\ h.cfg = Wanted(s)
        BY <2>1, <3>1, PoolFound
      <4>2. req'[s] = [req[s] EXCEPT !.pool = h]
        BY <3>1, PoolStep
      <4> HIDE DEF h
      <4> QED
        BY <2>1, <4>1, <4>2, PoolAssumption DEF Wanted, Request
    <3>2. CASE /\ pc[s] \in {"register", "start"}
               /\ UNCHANGED req
      BY <3>2 DEF RightPool, Wanted
    <3> QED
      BY <1>1, <2>1, <2>2, <3>1, <3>2
      DEF RequestStep, Check, ReadForPlan, GetPoolFails, Register, Start, Run,
          RecordAndReturn, ReturnUnrecorded, Release, Abandon, Proceed,
          Finish, Go, TypeOK
  <2> QED
    BY <2>1, <2>2 DEF RightPool, OnlySlot, Wanted
<1>2. ASSUME NEW s \in Slots, NEW p \in Profiles, NEW u \in Users,
             NEW kind \in {"execute", "probe"}, NEW gated \in BOOLEAN,
             Begin(s, p, u, kind, gated)
      PROVE  RightPool'
  BY <1>2 DEF Begin, Go, RightPool, Wanted, TypeOK
<1>3. CASE UNCHANGED <<pc, req>>
  BY <1>3 DEF RightPool, Wanted
<1> QED
  BY <1>1, <1>2, <1>3 DEF Next, CancelAs, SaveProfile, Invalidate, Tick

-----------------------------------------------------------------------------
(* The breakers and the registry.                                           *)

\* A breaker opens exactly when the count is full, and nothing counts twice.
LEMMA BreakersStep ==
  ASSUME TypeOK, Serving, PoolsAreFiled, BreakersCount, Next
  PROVE  BreakersCount'
<1>1. brk \in Breakers /\ streak \in [Profiles -> 0 .. Threshold]
  BY DEF TypeOK, Breakers
<1>2. ASSUME NEW s \in Slots, RecordAndReturn(s)
      PROVE  BreakersCount'
  <2>1. req[s] \in Request
    BY <1>2 DEF Serving, RecordAndReturn
  <2> DEFINE p == req[s].prof
  <2>2. p \in Profiles /\ RecordResult(s)
    BY <1>2, <2>1 DEF Request, RecordAndReturn
  <2>3. CASE req[s].ok
    BY <1>1, <2>2, <2>3, SucceededForgets
    DEF RecordResult, BreakersCount, Closed, Breakers
  <2>4. CASE ~req[s].ok
    <3>1. brk' = Failed(p) /\ streak' = [streak EXCEPT ![p] = Bump(@)]
      BY <2>2, <2>4 DEF RecordResult
    <3>2. /\ brk[p].failures \in 0 .. Threshold
          /\ brk[p].wait \in 0 .. Cooldown
          /\ streak[p] \in 0 .. Threshold
      BY <1>1, <2>2 DEF Breakers
    <3>3. brk[p].failures <= streak[p]
      BY <2>2 DEF BreakersCount
    <3>4. /\ Bump(brk[p].failures) <= Bump(streak[p])
          /\ Bump(brk[p].failures) \in 0 .. Threshold
      BY <3>2, <3>3, BumpBounds
    <3>5. brk[p].wait > 0 => Bump(brk[p].failures) >= Threshold
      BY <2>2, <3>2, BreakerAssumption DEF BreakersCount, Bump
    <3>6. /\ brk'[p].failures = Bump(brk[p].failures)
          /\ brk'[p].wait = IF Bump(brk[p].failures) >= Threshold
                              THEN Cooldown ELSE brk[p].wait
          /\ \A q \in Profiles : q # p => brk'[q] = brk[q]
      BY <1>1, <2>2, <3>1, FailedCounts
    <3>7. /\ streak'[p] = Bump(streak[p])
          /\ \A q \in Profiles : q # p => streak'[q] = streak[q]
      BY <1>1, <2>2, <3>1
    <3> HIDE DEF p
    <3> QED
      BY <3>4, <3>5, <3>6, <3>7, BreakerAssumption DEF BreakersCount
  <2> QED
    BY <2>3, <2>4
<1>3. ASSUME NEW a \in Admins, Invalidate(a)
      PROVE  BreakersCount'
  BY <1>1, <1>3 DEF Invalidate, BreakersCount, Closed, Breakers
<1>4. CASE Tick
  <2>1. \A p \in Profiles :
          /\ brk[p].failures \in 0 .. Threshold /\ brk[p].wait \in 0 .. Cooldown
          /\ brk'[p].failures = brk[p].failures
          /\ brk'[p].wait = IF brk[p].wait > 0 THEN brk[p].wait - 1 ELSE 0
    BY <1>1, <1>4 DEF Tick, Breakers
  <2>2. UNCHANGED streak
    BY <1>4 DEF Tick
  <2> QED
    BY <2>1, <2>2, BreakerAssumption DEF BreakersCount
<1>5. CASE UNCHANGED breakers
  BY <1>5 DEF BreakersCount, breakers
<1> QED
  BY <1>2, <1>3, <1>4, <1>5
  DEF Next, RequestStep, Begin, Check, ReadForPlan, GetPool, GetPoolFails,
      Register, Start, Run, ReturnUnrecorded, Release, CancelAs, SaveProfile

\* The deferred removal is the only way out of a registered execution.
LEMMA RegisteredStep ==
  ASSUME TypeOK, Serving, PoolsAreFiled, Registered, Next
  PROVE  Registered'
<1> DEFINE Good(s) ==
      /\ s \in execs =>
           /\ pc[s] \in {"start", "running", "record", "release"}
           /\ req[s].kind = "execute"
           /\ ~req[s].ex
      /\ pc[s] = "register" => req[s].kind = "execute" /\ ~req[s].ex
      /\ pc[s] \in {"start", "running"} /\ req[s].kind = "execute" =>
           s \in execs \/ req[s].ex
<1>1. ASSUME NEW s \in Slots, RequestStep(s)
      PROVE  Registered'
  <2>1. req[s] \in Request /\ OnlySlot(s)
    BY <1>1, RequestLocal
  <2>2. \A t \in Slots \ {s} : t \in execs' <=> t \in execs
    BY <1>1 DEF RequestStep, Check, ReadForPlan, GetPool, GetPoolFails,
       Register, Start, Run, RecordAndReturn, ReturnUnrecorded, Release
  <2>3. Good(s)
    BY DEF Registered
  <2>4. Good(s)'
    <3>1. CASE Check(s) \/ ReadForPlan(s)
      BY <2>1, <2>3, <3>1
      DEF Check, ReadForPlan, Abandon, Proceed, Finish, Go, TypeOK
    <3>2. CASE GetPool(s)
      <4>1. /\ pc[s] = "pool"
            /\ execs' = execs
            /\ pc'[s] = IF req[s].kind = "execute" /\ ~req[s].ex
                          THEN "register" ELSE "start"
            /\ req'[s] = [req[s] EXCEPT !.pool = pools'[req[s].prof]]
        BY <3>2, PoolStep DEF GetPool
      <4>2. req'[s].kind = req[s].kind /\ req'[s].ex = req[s].ex
        BY <2>1, <4>1 DEF Request
      <4> QED
        BY <2>3, <4>1, <4>2
    <3>3. CASE GetPoolFails(s)
      BY <2>3, <3>3 DEF GetPoolFails, Go, TypeOK
    <3>4. CASE Register(s)
      <4>1. pc[s] = "register" /\ pc'[s] = "start" /\ req' = req
            /\ execs' = execs \cup {s}
        BY <3>4 DEF Register, Go, TypeOK
      <4> QED
        BY <2>1, <2>3, <4>1
    <3>5. CASE Start(s) \/ Run(s)
      <4>1. \/ pc'[s] = "running" /\ req' = req
            \/ pc'[s] = "record" /\ \E ok \in BOOLEAN : req' = Result(s, ok)
        BY <3>5 DEF Start, Run, Go, TypeOK
      <4>2. /\ pc[s] \in {"start", "running"}
            /\ execs' = execs
        BY <3>5 DEF Start, Run
      <4>3. ASSUME NEW ok \in BOOLEAN, req' = Result(s, ok)
            PROVE  req'[s].kind = req[s].kind /\ req'[s].ex = req[s].ex
        <5>1. req'[s] = [req[s] EXCEPT !.ok = ok, !.pool = None]
          BY <4>3 DEF Result, TypeOK
        <5> QED
          BY <2>1, <5>1 DEF Request
      <4> QED
        BY <2>3, <3>5, <4>1, <4>2, <4>3
    <3>6. CASE RecordAndReturn(s)
      BY <2>1, <2>3, <3>6, AbandonSlot, FinishSlot
      DEF RecordAndReturn, Go, TypeOK
    <3>7. CASE ReturnUnrecorded(s)
      BY <2>1, <2>3, <3>7, AbandonSlot DEF ReturnUnrecorded
    <3>8. CASE Release(s)
      BY <3>8, FinishSlot DEF Release
    <3> QED
      BY <1>1, <3>1, <3>2, <3>3, <3>4, <3>5, <3>6, <3>7, <3>8
      DEF RequestStep
  <2> QED
    BY <2>1, <2>2, <2>4 DEF Registered, OnlySlot
<1>2. ASSUME NEW s \in Slots, NEW p \in Profiles, NEW u \in Users,
             NEW kind \in {"execute", "probe"}, NEW gated \in BOOLEAN,
             Begin(s, p, u, kind, gated)
      PROVE  Registered'
  BY <1>2 DEF Begin, Go, Registered, TypeOK
<1>3. CASE UNCHANGED <<pc, req, execs>>
  BY <1>3 DEF Registered
<1> QED
  BY <1>1, <1>2, <1>3 DEF Next, CancelAs, SaveProfile, Invalidate, Tick

-----------------------------------------------------------------------------
(* The invariant is inductive.                                              *)

LEMMA InvariantInit == Init => CInv
<1>1. Init => PoolsAreFiled /\ PoolsAreOwned
  BY DEF Init, PoolsAreFiled, PoolsAreOwned
<1>2. Init => RightPool /\ Registered
  BY DEF Init, RightPool, Registered
<1>3. Init => BreakersCount
  BY BreakerAssumption DEF Init, BreakersCount, Closed
<1> QED
  BY <1>1, <1>2, <1>3, InitTypes DEF CInv

LEMMA InvariantStep == CInv /\ [Next]_vars => CInv'
<1> SUFFICES ASSUME CInv, [Next]_vars PROVE CInv'
  OBVIOUS
<1>1. CASE Next
  <2>1. TypeOK' /\ Serving'
    BY <1>1, RequestTypes, OtherTypes DEF CInv, Next
  <2> QED
    BY <1>1, <2>1, OwnedStep, RightPoolStep, BreakersStep, RegisteredStep
    DEF CInv
<1>2. CASE UNCHANGED vars
  BY <1>2 DEF vars, CInv, TypeOK, Serving, PoolsAreFiled, PoolsAreOwned,
     RightPool, Wanted, BreakersCount, Registered
<1> QED
  BY <1>1, <1>2

LEMMA Invariant == Spec => []CInv
BY InvariantInit, InvariantStep, PTL DEF Spec

-----------------------------------------------------------------------------
\* The state has its types whatever requests and changes overlap (Manager).
THEOREM TypeCorrect == Spec => []TypeOK
<1>1. CInv => TypeOK
  BY DEF CInv
<1> QED
  BY Invariant, <1>1, PTL

\* No *sql.DB leaks and none the manager hands out was closed (db, Invalidate).
THEOREM PoolsOwned == Spec => []PoolsAreOwned
<1>1. CInv => PoolsAreOwned
  BY DEF CInv
<1> QED
  BY Invariant, <1>1, PTL

\* A query never runs on a pool of another profile or of another definition
\* than the one its request read (db, Execute).
THEOREM QueriesUseRightPool == Spec => []RightPool
<1>1. CInv => RightPool
  BY DEF CInv
<1> QED
  BY Invariant, <1>1, PTL

\* A profile is refused only after breakerThreshold failures in a row
\* (breakerRecord, breakerCheck).
THEOREM BlockedAfterFailures == Spec => []BlockedOnlyAfterFailures
<1>1. CInv => BlockedOnlyAfterFailures
  <2> SUFFICES ASSUME CInv, NEW p \in Profiles, brk[p].wait > 0
               PROVE  streak[p] = Threshold
    BY DEF BlockedOnlyAfterFailures
  <2>1. brk[p].failures = Threshold /\ brk[p].failures <= streak[p]
    BY DEF CInv, BreakersCount
  <2>2. streak[p] \in 0 .. Threshold
    BY DEF CInv, TypeOK
  <2> QED
    BY <2>1, <2>2, BreakerAssumption
<1> QED
  BY Invariant, <1>1, PTL

\* What runs can be cancelled and what is listed runs (registerExec,
\* unregisterExec).
THEOREM RegistryExact == Spec => []RegistryIsExact
<1>1. CInv => RegistryIsExact
  BY DEF CInv, Registered, RegistryIsExact
<1> QED
  BY Invariant, <1>1, PTL
-----------------------------------------------------------------------------
(* The ids of pools never run out.                                          *)

\* A pool that is still held by a request belongs to one of the slots.
LEMMA SomeIdIsUnused ==
  ASSUME IsFiniteSet(Slots), IsFiniteSet(PoolIds),
         Cardinality(PoolIds) > Cardinality(Slots), NEW held
  PROVE  \E i \in PoolIds : \A s \in Slots : held[s] # i
<1> DEFINE f == [s \in Slots |-> held[s]]
           T == {held[s] : s \in Slots}
<1> SUFFICES ASSUME PoolIds \subseteq T PROVE FALSE
  OBVIOUS
<1>1. f \in Surjection(Slots, T)
  BY DEF Surjection
<1>2. IsFiniteSet(T) /\ Cardinality(T) <= Cardinality(Slots)
  BY <1>1, FS_Surjection
<1>3. Cardinality(PoolIds) <= Cardinality(T)
  BY <1>2, FS_Subset
<1>4. /\ Cardinality(PoolIds) \in Nat
      /\ Cardinality(Slots) \in Nat
      /\ Cardinality(T) \in Nat
  BY <1>2, FS_CardinalityType
<1> QED
  BY <1>2, <1>3, <1>4

\* An EXPLAIN that is under way has the definition ExplainPlan read.
Planned == \A s \in Slots : pc[s] # "idle" /\ req[s].ex => req[s].plan # None

LEMMA PlannedStep == CInv /\ Planned /\ [Next]_vars => Planned'
<1> SUFFICES ASSUME CInv, Planned, [Next]_vars PROVE Planned'
  OBVIOUS
<1>1. ASSUME NEW s \in Slots,
             \A t \in Slots \ {s} : req'[t] = req[t] /\ pc'[t] = pc[t],
             \/ pc'[s] = "idle"
             \/ ~req'[s].ex
             \/ req'[s].plan # None
             \/ /\ pc[s] # "idle"
                /\ req'[s].ex = req[s].ex
                /\ req'[s].plan = req[s].plan
      PROVE  Planned'
  BY <1>1 DEF Planned
<1>2. ASSUME NEW s \in Slots, RequestStep(s) PROVE Planned'
  <2>1. /\ pc[s] # "idle"
        /\ \E step : pc' = [pc EXCEPT ![s] = step]
    BY <1>2 DEF RequestStep, Check, ReadForPlan, GetPool, GetPoolFails, Register,
       Start, Run, RecordAndReturn, ReturnUnrecorded, Release, Abandon, Proceed,
       Finish, Go
  <2>2. /\ req[s] \in Request /\ req \in [Slots -> Request \cup {None}]
        /\ \A t \in Slots \ {s} : pc'[t] = pc[t]
    BY <2>1 DEF CInv, Serving, TypeOK
  <2>3. CASE req' = req
    BY <1>1, <2>1, <2>2, <2>3
  <2>4. CASE Proceed(s)
    BY <1>1, <2>2, <2>4 DEF Proceed, Request
  <2>5. CASE Finish(s)
    BY <1>1, <2>2, <2>5 DEF Finish, Go, CInv, TypeOK
  <2>6. CASE /\ defs[req[s].prof] # None
             /\ req' = [req EXCEPT ![s].ex = TRUE, ![s].plan = defs[req[s].prof]]
    BY <1>1, <2>2, <2>6 DEF Request
  <2>7. CASE \E h : req' = [req EXCEPT ![s].pool = h]
    BY <1>1, <2>1, <2>2, <2>7 DEF Request
  <2>8. CASE \E ok : req' = Result(s, ok)
    BY <1>1, <2>1, <2>2, <2>8 DEF Result, Request
  <2> QED
    BY <1>2, <2>3, <2>4, <2>5, <2>6, <2>7, <2>8
    DEF RequestStep, Check, ReadForPlan, GetPool, GetPoolFails, Register, Start,
        Run, RecordAndReturn, ReturnUnrecorded, Release, Abandon
<1>3. ASSUME NEW s \in Slots, NEW p \in Profiles, NEW u \in Users,
             NEW kind \in {"execute", "probe"}, NEW gated \in BOOLEAN,
             Begin(s, p, u, kind, gated)
      PROVE  Planned'
  BY <1>1, <1>3 DEF Begin, Go, CInv, TypeOK
<1>4. CASE UNCHANGED <<pc, req>>
  BY <1>4 DEF Planned
<1> QED
  BY <1>2, <1>3, <1>4 DEF Next, CancelAs, SaveProfile, Invalidate, Tick, vars

LEMMA AlwaysPlanned == Spec => []Planned
<1>1. Init => Planned
  BY DEF Init, Planned
<1> QED
  BY <1>1, PlannedStep, Invariant, PTL DEF Spec

\* With more ids than goroutines no request ever waits for an id: opening a
\* pool (openDB) is possible whenever db finds none to reuse, so that the
\* finite set of pools takes no behaviour of the manager away.
THEOREM PoolAlwaysAvailable ==
  ASSUME IsFiniteSet(Slots), IsFiniteSet(PoolIds),
         Cardinality(PoolIds) > Cardinality(Slots)
  PROVE  Spec => [](\A s \in Slots :
                      pc[s] = "pool" => \/ Reusable(req[s].prof, Wanted(s))
                                        \/ Fresh(req[s].prof, Wanted(s)) # {})
<1> DEFINE Available ==
             \A s \in Slots :
               pc[s] = "pool" => \/ Reusable(req[s].prof, Wanted(s))
                                 \/ Fresh(req[s].prof, Wanted(s)) # {}
<1>1. ASSUME CInv, Planned, NEW s \in Slots, pc[s] = "pool",
             ~Reusable(req[s].prof, Wanted(s))
      PROVE  Fresh(req[s].prof, Wanted(s)) # {}
  <2> DEFINE p == req[s].prof
             c == Wanted(s)
  <2>1. p \in Profiles /\ c \in Configs
    <3>1. req[s] \in Request
      BY <1>1 DEF CInv, Serving
    <3>2. req[s].ex => req[s].plan # None
      BY <1>1, <3>1 DEF Planned
    <3> QED
      BY <3>1, <3>2 DEF Request, Wanted
  <2>2. PICK i \in PoolIds : \A t \in Slots : req[t].pool.id # i
    <3> DEFINE held == [t \in Slots |-> req[t].pool.id]
    <3>1. \E i \in PoolIds : \A t \in Slots : held[t] # i
      BY SomeIdIsUnused
    <3> QED
      BY <3>1
  <2> DEFINE h == [prof |-> p, cfg |-> c, id |-> i]
  <2>3. h \in Pool
    BY <2>1 DEF Pool
  <2>4. h \notin open
    <3> SUFFICES ASSUME NEW q \in Profiles, pools[q] = h, pools[q] # None
                 PROVE  FALSE
      BY <1>1 DEF CInv, PoolsAreOwned
    <3>1. q = p
      BY <1>1 DEF CInv, PoolsAreFiled
    <3> QED
      BY <1>1, <3>1 DEF Reusable
  <2>5. \A t \in Slots : req[t].pool # h
    BY <2>2
  <2> QED
    BY <2>3, <2>4, <2>5 DEF Fresh
<1>2. CInv /\ Planned => Available
  BY <1>1
<1> QED
  BY <1>2, Invariant, AlwaysPlanned, PTL

-----------------------------------------------------------------------------
(* When repeated failures do block.  The run `conn_timeouts' shows timeouts  *)
(* in a row that never open the breaker; here it is shown that nothing but   *)
(* the EXPLAIN before a gated execution keeps the breaker closed.            *)

NotExplained == \A s \in Slots : pc[s] # "idle" => ~req[s].ex

\* The breaker counts every execution that fails.
FailuresCount ==
  /\ failed \in [Profiles -> 0 .. Threshold]
  /\ \A p \in Profiles : failed[p] <= brk[p].failures

CountedStep == Next /\ failed' = [p \in Profiles |-> Counted(p)]

FailureBlocks(p) ==
  failed[p] < Threshold /\ failed'[p] = Threshold => brk'[p].wait > 0

\* A result is recorded by one slot at a time, and by no profile change.
LEMMA RecordMoves ==
  ASSUME TypeOK, NEW s \in Slots, RecordAndReturn(s)
  PROVE  /\ pc[s] = "record" /\ pc'[s] # "record"
         /\ \A t \in Slots \ {s} : pc'[t] = pc[t]
         /\ RecordResult(s)
<1>1. pc[s] = "record" /\ RecordResult(s)
  BY DEF RecordAndReturn
<1>2. \E step \in {"release", "pool", "idle"} : pc' = [pc EXCEPT ![s] = step]
  BY DEF RecordAndReturn, Abandon, Proceed, Finish, Go
<1>3. pc \in [Slots -> Steps]
  BY DEF TypeOK
<1> QED
  BY <1>1, <1>2, <1>3

LEMMA RecordIsAlone ==
  ASSUME TypeOK, NEW s \in Slots, RecordAndReturn(s)
  PROVE  /\ \A t \in Slots : RecordAndReturn(t) => t = s
         /\ \A a \in Admins : ~Invalidate(a)
<1>1. ASSUME NEW t \in Slots, RecordAndReturn(t), t # s
      PROVE  FALSE
  <2>1. pc[t] = "record" /\ pc'[t] # "record"
    BY <1>1, RecordMoves
  <2>2. pc'[t] = pc[t]
    BY <1>1, RecordMoves
  <2> QED
    BY <2>1, <2>2
<1>2. ASSUME NEW a \in Admins, Invalidate(a)
      PROVE  FALSE
  <2>1. pc' = pc
    BY <1>2 DEF Invalidate
  <2> QED
    BY <2>1, RecordMoves
<1> QED
  BY <1>1, <1>2

\* Without an EXPLAIN what is recorded is what is counted.
LEMMA RecordCounts ==
  ASSUME CInv, FailuresCount, NotExplained, NEW s \in Slots, RecordAndReturn(s),
         failed' = [p \in Profiles |-> Counted(p)]
  PROVE  FailuresCount' /\ \A p \in Profiles : FailureBlocks(p)
<1> DEFINE q == req[s].prof
<1>1. TypeOK /\ Serving /\ brk \in Breakers
  BY DEF CInv, TypeOK, Breakers
<1>2. pc[s] = "record" /\ RecordResult(s)
  BY <1>1, RecordMoves
<1>3. req[s] \in Request /\ q \in Profiles /\ ~req[s].ex
  BY <1>1, <1>2 DEF Serving, Request, NotExplained
<1>4. \A t \in Slots : RecordAndReturn(t) => t = s
  BY <1>1, RecordIsAlone
<1>5. \A a \in Admins : ~Invalidate(a)
  BY <1>1, RecordIsAlone
<1>6. (CHOOSE t \in Slots : RecordAndReturn(t)) = s
  BY <1>4
<1>7. Counted(q) = IF req[s].ok THEN 0
                   ELSE IF req[s].kind = "execute" THEN Bump(failed[q]) ELSE failed[q]
  BY <1>3, <1>6 DEF Counted
<1>8. ASSUME NEW p \in Profiles, p # q
      PROVE  failed'[p] = failed[p] /\ brk'[p] = brk[p]
  <2>1. Counted(p) = failed[p]
    BY <1>4, <1>5, <1>8 DEF Counted
  <2>2. brk'[p] = brk[p]
    BY <1>1, <1>2, <1>3, <1>8, FailedCounts, SucceededForgets DEF RecordResult
  <2> QED
    BY <2>1, <2>2
<1>9. failed[q] \in 0 .. Threshold /\ brk[q].failures \in 0 .. Threshold
      /\ failed[q] <= brk[q].failures
  BY <1>1, <1>3 DEF FailuresCount, TypeOK
<1>10. /\ failed'[q] \in 0 .. Threshold
       /\ failed'[q] <= brk'[q].failures
       /\ FailureBlocks(q)
  <2>1. failed'[q] = Counted(q)
    BY <1>3
  <2>2. CASE req[s].ok
    <3>1. failed'[q] = 0 /\ brk'[q] = Closed
      BY <1>1, <1>2, <1>3, <1>7, <2>1, <2>2, SucceededForgets DEF RecordResult
    <3> QED
      BY <3>1, BreakerAssumption DEF Closed, FailureBlocks
  <2>3. CASE ~req[s].ok
    <3>1. /\ brk'[q].failures = Bump(brk[q].failures)
          /\ brk'[q].wait = IF Bump(brk[q].failures) >= Threshold
                              THEN Cooldown ELSE brk[q].wait
      BY <1>1, <1>2, <1>3, <2>3, FailedCounts DEF RecordResult
    <3>2. failed'[q] \in {failed[q], Bump(failed[q])}
      BY <1>7, <2>1, <2>3
    <3>3. /\ Bump(failed[q]) \in 0 .. Threshold
          /\ Bump(failed[q]) <= Bump(brk[q].failures)
          /\ Bump(brk[q].failures) \in 0 .. Threshold
          /\ failed[q] <= Bump(brk[q].failures)
      BY <1>9, BreakerAssumption DEF Bump
    <3>4. failed'[q] \in 0 .. Threshold /\ failed'[q] <= brk'[q].failures
      BY <1>9, <3>1, <3>2, <3>3
    <3>5. failed'[q] = Threshold => brk'[q].wait = Cooldown
      BY <3>1, <3>3, <3>4, BreakerAssumption
    <3> QED
      BY <3>4, <3>5, BreakerAssumption DEF FailureBlocks
  <2> QED
    BY <2>2, <2>3
<1>11. \A p \in Profiles : /\ failed'[p] \in 0 .. Threshold
                           /\ failed'[p] <= brk'[p].failures
                           /\ FailureBlocks(p)
  <2>1. ASSUME NEW p \in Profiles, p # q
        PROVE  FailureBlocks(p)
    <3>1. failed'[p] = failed[p] /\ failed[p] \in 0 .. Threshold
      BY <1>8, <2>1 DEF FailuresCount
    <3> QED
      BY <3>1, BreakerAssumption DEF FailureBlocks
  <2> QED
    BY <1>8, <1>10, <2>1 DEF FailuresCount
<1> QED
  BY <1>11 DEF FailuresCount

\* The other steps count nothing; a breaker starts over with its profile.
LEMMA OthersCountNothing ==
  ASSUME CInv, FailuresCount, Next, failed' = [p \in Profiles |-> Counted(p)],
         \A s \in Slots : ~RecordAndReturn(s)
  PROVE  FailuresCount' /\ \A p \in Profiles : FailureBlocks(p)
<1>1. brk \in Breakers /\ TypeOK
  BY DEF CInv, TypeOK, Breakers
<1>2. ASSUME NEW p \in Profiles
      PROVE  /\ failed'[p] \in {0, failed[p]}
             /\ \/ brk'[p].failures = brk[p].failures
                \/ failed'[p] = 0 /\ brk'[p].failures = 0
  <2>1. CASE \E a \in Admins : Invalidate(a)
    <3>1. PICK a \in Admins : Invalidate(a)
      BY <2>1
    <3>2. CASE editing[a] = p
      <4>1. Counted(p) = 0
        BY <3>1, <3>2 DEF Counted
      <4>2. brk'[p] = Closed
        BY <1>1, <3>1, <3>2 DEF Invalidate, Breakers
      <4> QED
        BY <1>2, <4>1, <4>2 DEF Closed
    <3>3. CASE editing[a] # p
      <4>1. brk'[p] = brk[p]
        BY <1>1, <3>1, <3>3 DEF Invalidate, Breakers
      <4>2. Counted(p) \in {0, failed[p]}
        BY DEF Counted
      <4> QED
        BY <1>2, <4>1, <4>2
    <3> QED
      BY <3>2, <3>3
  <2>2. CASE ~\E a \in Admins : Invalidate(a)
    <3>1. Counted(p) = failed[p]
      BY <2>2 DEF Counted
    <3>2. UNCHANGED brk \/ Tick
      BY <2>2 DEF Next, RequestStep, Begin, Check, ReadForPlan, GetPool, GetPoolFails,
         Register, Start, Run, ReturnUnrecorded, Release, CancelAs, SaveProfile, breakers
    <3>3. brk'[p].failures = brk[p].failures
      BY <1>1, <3>2 DEF Tick, Breakers
    <3> QED
      BY <1>2, <3>1, <3>3
  <2> QED
    BY <2>1, <2>2
<1>3. ASSUME NEW p \in Profiles
      PROVE  /\ failed'[p] \in 0 .. Threshold
             /\ failed'[p] <= brk'[p].failures
             /\ FailureBlocks(p)
  <2>1. failed[p] \in 0 .. Threshold /\ failed[p] <= brk[p].failures
        /\ brk[p].failures \in 0 .. Threshold
    BY <1>1, <1>3 DEF FailuresCount, Breakers
  <2> QED
    BY <1>2, <2>1, BreakerAssumption DEF FailureBlocks
<1> QED
  BY <1>3 DEF FailuresCount

\* As long as nothing is explained, the execution that fails as the
\* breakerThreshold-th in a row leaves its profile blocked, whichever requests,
\* cancellations and profile changes overlap (breakerRecord, ExplainPlan).
THEOREM UnexplainedFailuresBlock ==
  CountedSpec /\ []NotExplained => RepeatedFailuresBlock
<1> DEFINE Blocks == \A p \in Profiles : FailureBlocks(p)
<1>1. CountedSpec => Spec
  <2>1. [Next /\ failed' = [p \in Profiles |-> Counted(p)]]_CountedVars => [Next]_vars
    BY DEF CountedVars
  <2> QED
    BY <2>1, PTL DEF CountedSpec, Spec
<1>2. Init /\ failed = [p \in Profiles |-> 0] => FailuresCount
  BY BreakerAssumption DEF Init, FailuresCount, Closed
<1>3. CInv /\ FailuresCount /\ NotExplained
      /\ [Next /\ failed' = [p \in Profiles |-> Counted(p)]]_CountedVars
        => FailuresCount' /\ [Blocks]_CountedVars
  <2> SUFFICES ASSUME CInv, FailuresCount, NotExplained,
                      [Next /\ failed' = [p \in Profiles |-> Counted(p)]]_CountedVars
               PROVE  FailuresCount' /\ [Blocks]_CountedVars
    OBVIOUS
  <2>1. CASE UNCHANGED CountedVars
    BY <2>1 DEF CountedVars, vars, FailuresCount
  <2>2. CASE CountedStep
    BY <2>2, RecordCounts, OthersCountNothing DEF CountedStep
  <2> QED
    BY <2>1, <2>2 DEF CountedStep
<1>4. [Blocks]_CountedVars =>
        [\A p \in Profiles : failed[p] < Threshold /\ failed'[p] = Threshold
                               => Blocked(p)']_CountedVars
  BY DEF FailureBlocks, Blocked
<1> HIDE DEF Blocks
<1> QED
  BY Invariant, <1>1, <1>2, <1>3, <1>4, PTL DEF CountedSpec, RepeatedFailuresBlock
=============================================================================
