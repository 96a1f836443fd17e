--------------------------- MODULE MCConnTimeouts ---------------------------
(* A small instance of ConnManager with a history of failed executions.     *)
EXTENDS ConnManager

MCPoolIds == 1 .. 3

VARIABLE failed  \* failed[p]: the failed executions of p in a row

CountedVars == <<vars, failed>>

\* Executions that fail count, an EXPLAIN is not an execution; a query or a
\* ping that succeeds and a change of the profile start over.
Counted(p) ==
  IF \E s \in Slots : RecordAndReturn(s) /\ req[s].prof = p /\ ~req[s].ex
    THEN LET s == CHOOSE s \in Slots : RecordAndReturn(s) IN
         IF req[s].ok THEN 0
         ELSE IF req[s].kind = "execute" THEN Bump(failed[p]) ELSE failed[p]
  ELSE IF \E a \in Admins : editing[a] = p /\ Invalidate(a) THEN 0
  ELSE failed[p]

CountedSpec ==
  /\ Init /\ failed = [p \in Profiles |-> 0]
  /\ [][Next /\ failed' = [p \in Profiles |-> Counted(p)]]_CountedVars

\* The execution that fails as the breakerThreshold-th in a row leaves the
\* profile blocked (breakerRecord).
RepeatedFailuresBlock ==
  [][\A p \in Profiles :
       failed[p] < Threshold /\ failed'[p] = Threshold
         => Blocked(p)']_CountedVars
=============================================================================
