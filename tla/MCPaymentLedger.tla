-------------------------- MODULE MCPaymentLedger --------------------------
(* Small instances of PaymentLedger for TLC. *)
EXTENDS PaymentLedger, TLC

CONSTANTS r1, r2

\* Requests are interchangeable.
Symmetry == Permutations({r1, r2})
=============================================================================
