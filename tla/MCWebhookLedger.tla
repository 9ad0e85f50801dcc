-------------------------- MODULE MCWebhookLedger --------------------------
(* Small instances of WebhookLedger for TLC. *)
EXTENDS WebhookLedger, TLC

CONSTANTS e1, e2, h1, h2, s1, s2

\* Events and requests are interchangeable (not where liveness is checked).
Symmetry == Permutations({e1, e2}) \cup Permutations({h1, h2})
=============================================================================
