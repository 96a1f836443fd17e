----------------------------- MODULE MCQueryJobs -----------------------------
(* Small instances of QueryJobs.                                             *)
EXTENDS QueryJobs

MCLimits == {0, 2}
MCTTLs == {0, 1}
==============================================================================
