--------------------------- MODULE BillingContract ---------------------------
(***************************************************************************)
(* What the billing journal promises a customer: one operation at a time;  *)
(* its steps are done at Stripe at most once and only while it is open;    *)
(* it is reported done when all of them are, and failed when none is.      *)
(***************************************************************************)
EXTENDS Naturals

CONSTANT Operations

VARIABLES phase,   \* phase[o]: what the customer is told of o
          asked,   \* asked[o]: the steps o takes at Stripe
          done     \* done[o]: those done

Init ==
    /\ phase = [o \in Operations |-> "none"]
    /\ asked = [o \in Operations |-> 0]
    /\ done = [o \in Operations |-> 0]

Open(o) ==
    /\ \A p \in Operations : phase[p] # "open"
    /\ phase[o] = "none"
    /\ phase' = [phase EXCEPT ![o] = "open"]
    /\ \E n \in 0..2 : asked' = [asked EXCEPT ![o] = n]
    /\ UNCHANGED done

Do(o) ==
    /\ phase[o] = "open"
    /\ done[o] < asked[o]
    /\ done' = [done EXCEPT ![o] = @ + 1]
    /\ UNCHANGED <<phase, asked>>

Close(o) ==
    /\ phase[o] = "open"
    /\ \/ done[o] = asked[o] /\ phase' = [phase EXCEPT ![o] = "succeeded"]
       \/ done[o] = 0 /\ phase' = [phase EXCEPT ![o] = "failed"]
    /\ UNCHANGED <<asked, done>>

Next == \E o \in Operations : Open(o) \/ Do(o) \/ Close(o)

Spec == Init /\ [][Next]_<<phase, asked, done>>
=============================================================================
