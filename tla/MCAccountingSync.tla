------------------------- MODULE MCAccountingSync -------------------------
(* Small instances of AccountingSync for TLC. *)
EXTENDS AccountingSync

CONSTANTS i1, s1, s2
=============================================================================
