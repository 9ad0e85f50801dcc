-------------------------- MODULE MCBillingMutation --------------------------
(* Small instances of BillingMutation for TLC. *)
EXTENDS BillingMutation, TLC

CONSTANTS o1, o2, e1, e2

\* Operations and executors are interchangeable.
Symmetry == Permutations(Operations) \cup Permutations(Executors)
=============================================================================
