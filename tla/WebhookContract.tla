-------------------------- MODULE WebhookContract --------------------------
(***************************************************************************)
(* What the billing webhooks promise a tenant: an event takes effect in    *)
(* the one step that settles it, and shows the subscription as it stood at *)
(* the provider when the event was sent or later; nothing newer is undone, *)
(* no binding is replaced, and Stripe is told to stop only afterwards.     *)
(***************************************************************************)
EXTENDS Naturals

CONSTANTS Events, Subscriptions,
          Older,  \* subscriptions older than the webhook endpoint
          Null

VARIABLES version,  \* version[s]: how often subscription s changed
          emitted,  \* emitted[e]: what the event announces
          profile,  \* the tenant's binding, and the version it shows
          risk,     \* risk[s]: the version the tenant's risk row shows, or 0
          settled,  \* events that are settled for good
          acked     \* events Stripe delivers no more

vars == <<version, emitted, profile, risk, settled, acked>>

NotEmitted == [kind |-> "none", sub |-> Null, version |-> 0]

Init ==
    /\ version = [s \in Subscriptions |-> IF s \in Older THEN 1 ELSE 0]
    /\ emitted = [e \in Events |-> NotEmitted]
    /\ profile = [sub |-> Null, version |-> 0]
    /\ risk = [s \in Subscriptions |-> 0]
    /\ settled = {}
    /\ acked = {}

\* A subscription changes, and an event announces it.
Announce(e) ==
    /\ emitted[e] = NotEmitted
    /\ \E s \in Subscriptions, kind \in {"checkout", "subscription", "risk", "other"} :
          /\ version' = [version EXCEPT ![s] = @ + 1]
          /\ emitted' = [emitted EXCEPT ![e] =
                [kind |-> kind, sub |-> s, version |-> version[s] + 1]]
    /\ UNCHANGED <<profile, risk, settled, acked>>

\* What the tenant may be shown of a subscription: never less than it was.
Shows(s, v) ==
    /\ v <= version[s]
    /\ profile.sub = s => v >= profile.version
    /\ profile' = [sub |-> s, version |-> v]

Since(e) == {v \in 1..version[emitted[e].sub] : v >= emitted[e].version}

Settle(e) ==
    LET s == emitted[e].sub IN
    /\ emitted[e] # NotEmitted
    /\ e \notin settled
    /\ settled' = settled \cup {e}
    /\ CASE emitted[e].kind = "risk" ->
              \E v \in Since(e) :
                 /\ v >= risk[s]
                 /\ risk' = [risk EXCEPT ![s] = v]
                 /\ IF profile.sub = s THEN Shows(s, v) ELSE UNCHANGED profile
         [] emitted[e].kind \in {"checkout", "subscription"} ->
              /\ IF profile.sub \in {Null, s} THEN \E v \in Since(e) : Shows(s, v)
                                              ELSE UNCHANGED profile
              /\ UNCHANGED risk
         [] emitted[e].kind = "other" -> UNCHANGED <<profile, risk>>
    /\ UNCHANGED <<version, emitted, acked>>

\* The customer comes back from the checkout.
Refresh(s) ==
    /\ profile.sub \in {Null, s}
    /\ \E v \in 1..version[s] : Shows(s, v)
    /\ UNCHANGED <<version, emitted, risk, settled, acked>>

Acknowledge(e) ==
    /\ e \in settled
    /\ acked' = acked \cup {e}
    /\ UNCHANGED <<version, emitted, profile, risk, settled>>

Next ==
    \/ \E e \in Events : Announce(e) \/ Settle(e) \/ Acknowledge(e)
    \/ \E s \in Subscriptions : Refresh(s)

Spec == Init /\ [][Next]_vars
=============================================================================
