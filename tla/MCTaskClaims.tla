---------------------------- MODULE MCTaskClaims ----------------------------
(* Small instances of TaskClaims for TLC. *)
EXTENDS TaskClaims, TLC

CONSTANTS c1, d1, d2, w1, w2
=============================================================================
