--------------------------- MODULE MCConnManager ----------------------------
(* Small instances of ConnManager: the pool objects of one definition.      *)
EXTENDS ConnManager

MCPoolIds == 1 .. 4
=============================================================================
