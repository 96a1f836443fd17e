----------------------------- MODULE MCAccounts -----------------------------
(* Small instances of Accounts.                                              *)
EXTENDS Accounts, TLC

\* Appoint and activate, deactivate, demote, and ask for the role the database
\* does not know.
MCEdits ==
  {[role |-> "admin", active |-> TRUE], [role |-> None, active |-> FALSE],
   [role |-> "user", active |-> None], [role |-> "dba", active |-> FALSE]}

MCFewEdits == {[role |-> "admin", active |-> None],
               [role |-> "user", active |-> None]}

MCKeyLives == {Late}

WorkerSymmetry == Permutations(Workers)
==============================================================================
