------------------------------ MODULE JobBoard ------------------------------
(***************************************************************************)
(* What the asynchronous jobs promise a submitter, whatever goroutines,    *)
(* contexts and caches are behind them: an accepted job runs, with a bound *)
(* on what runs for one user and on what is remembered at all, it is over  *)
(* once, with one outcome, and the outcome stays to be read until it has   *)
(* become stale.                                                           *)
(***************************************************************************)
EXTENDS Naturals, FiniteSets

CONSTANTS JobIds, Users, MaxPerUser, MaxTotal, None

VARIABLE board  \* board[j]: what is known of job j, or None

\* The outcome of a job that is over may become stale.
BoardJob == [user: Users, status: {"running", "done", "failed"}, stale: BOOLEAN]

Known(b) == {j \in JobIds : b[j] # None}
Runs(b) == {j \in Known(b) : b[j].status = "running"}
StaleJobs(b) == {j \in Known(b) \ Runs(b) : b[j].stale}

Without(gone) == [j \in JobIds |-> IF j \in gone THEN None ELSE board[j]]

BoardInit == board = [j \in JobIds |-> None]

\* Stale outcomes make room for a job, or are forgotten though it is refused.
Accept(j, u, gone) ==
  LET kept == Without(gone) IN
  /\ gone \subseteq StaleJobs(board)
  /\ kept[j] = None
  /\ Cardinality(Known(kept)) < MaxTotal
  /\ Cardinality({i \in Runs(kept) : kept[i].user = u}) < MaxPerUser
  /\ board' = [kept EXCEPT ![j] =
                 [user |-> u, status |-> "running", stale |-> FALSE]]

Forget(gone) ==
  /\ gone \subseteq StaleJobs(board)
  /\ board' = Without(gone)

End(j) ==
  /\ j \in Runs(board)
  /\ \E status \in {"done", "failed"}, stale \in BOOLEAN :
       board' = [board EXCEPT ![j].status = status, ![j].stale = stale]

\* Time passes for what is over.
Age(old) ==
  /\ old \subseteq Known(board) \ Runs(board)
  /\ board' = [j \in JobIds |-> IF j \in old THEN [board[j] EXCEPT !.stale = TRUE]
                                              ELSE board[j]]

BoardNext ==
  \/ \E gone \in SUBSET JobIds :
       \/ \E j \in JobIds, u \in Users : Accept(j, u, gone)
       \/ Forget(gone)
       \/ Age(gone)
  \/ \E j \in JobIds : End(j)

BoardSafety == BoardInit /\ [][BoardNext]_board

\* Whatever runs is over some day.
BoardSpec == BoardSafety /\ \A j \in JobIds : WF_board(End(j))
=============================================================================
