-------------------------- MODULE ReminderContract --------------------------
(***************************************************************************)
(* What the reminder sequence promises the client of an invoice: each      *)
(* stage's email once at most and, unless the escalation policy may skip   *)
(* stages, only after the email of every earlier stage.  An address that   *)
(* cannot be mailed gets none.                                             *)
(***************************************************************************)
EXTENDS Naturals

CONSTANTS Invoices,     \* the account's tracked invoices
          Reachable,    \* those whose recipient can be mailed
          InOrder       \* stages are never skipped

VARIABLE delivered      \* delivered[i][s]: emails of stage s the client got

Init == delivered = [i \in Invoices |-> [s \in 1..3 |-> 0]]

Deliver(i, s) ==
    /\ delivered[i][s] = 0
    /\ InOrder => \A t \in 1..(s - 1) : delivered[i][t] = 1
    /\ delivered' = [delivered EXCEPT ![i][s] = 1]

Next == \E i \in Reachable, s \in 1..3 : Deliver(i, s)

Spec == Init /\ [][Next]_delivered
=============================================================================
