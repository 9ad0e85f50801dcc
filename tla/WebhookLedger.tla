--------------------------- MODULE WebhookLedger ---------------------------
(***************************************************************************)
(* Stripe tells the application what changed in a tenant's billing by      *)
(* webhooks: delivered at least once, in any order, to handlers that may   *)
(* overlap.  A handler leases the event's row of the ledger                *)
(* (lib/billing/webhookLedger.ts), reads the provider under the tenant's   *)
(* lock, and commits the projection together with the row's final status   *)
(* (lib/billing/tenantBillingCoordinator.ts) if its lease is still its own.*)
(*                                                                         *)
(* One tenant.  What the provider knows of a subscription is a version     *)
(* number that grows; a projection is the version it was read at.          *)
(***************************************************************************)
EXTENDS Integers

CONSTANTS
    Events,         \* events the provider may emit
    Handlers,       \* requests that can run at the same time
    Subscriptions,  \* the customer's subscriptions at the provider
    Older,          \* those older than the webhook endpoint
    MaxVersion,     \* bound: changes of one subscription
    MaxFaults,      \* bound: crashes, failures, overrun leases, duplicates
    Null            \* no event, subscription or handler

ASSUME WebhookAssumption ==
    /\ Older \subseteq Subscriptions
    /\ MaxVersion \in Nat \ {0}
    /\ MaxFaults \in Nat
    /\ Null \notin Events \cup Subscriptions \cup Handlers

VARIABLES
    provider,  \* provider[s]: version and end of a subscription
    emitted,   \* emitted[e]: what the event is about
    ledger,    \* ledger[e]: stripe_billing_webhook_events
    acked,     \* events answered with a 2xx
    handler,   \* handler[h]: where a request is
    profile,   \* the tenant's binding and the version projected for it
    risk,      \* risk[s]: version of the tenant_billing_risks row, or 0
    applied,   \* applied[e]: committed reconciliations of e (history)
    faults     \* faults so far

vars == <<provider, emitted, ledger, acked, handler, profile, risk, applied, faults>>

Versions == 0..MaxVersion  \* 0: does not exist, not projected
Kinds == {"checkout", "subscription", "risk", "other"}
Terminal == {"processed", "skipped"}

About == [kind : Kinds, sub : Subscriptions, version : 1..MaxVersion]
NotEmitted == [kind |-> "none", sub |-> Null, version |-> 0]

\* Only a row in processing has a token and a lease.
Row ==
    [status : {"none", "received", "failed"} \cup Terminal, token : {Null},
     lease : {"none"}]
        \cup [status : {"processing"}, token : Handlers, lease : {"live", "lapsed"}]

\* Wrong on purpose (mutant of Unleased): the lease is left behind.
StillLeased(status) ==
    [status |-> status, token |-> Null,
     lease |-> IF status = "failed" THEN "live" ELSE "none"]

Unleased(status) == [status |-> status, token |-> Null, lease |-> "none"]

\* A request is in its transaction from "observe" to "commit".
Steps == {"idle", "claim", "refused", "finish", "lock",
          "observe", "fence", "commit", "reply", "fail"}
HandlerRecord == [pc : Steps, event : Events \cup {Null}, kind : Kinds,
                  sub : Subscriptions \cup {Null}, sees : Versions]
IdleHandler == [pc |-> "idle", event |-> Null, kind |-> "other",
                sub |-> Null, sees |-> 0]

Goto(h, step) == handler' = [handler EXCEPT ![h].pc = step]
Fault == faults < MaxFaults /\ faults' = faults + 1

-----------------------------------------------------------------------------
(* The provider.                                                           *)

Live(s) == provider[s].version > 0 /\ ~provider[s].ended

\* A subscription starts, changes or ends, and an event says so.
ProviderChanges(s, e) ==
    /\ emitted[e] = NotEmitted
    /\ provider[s].version < MaxVersion
    /\ ~provider[s].ended
    /\ \E ended \in BOOLEAN, kind \in Kinds :
          /\ kind = "checkout" => provider[s].version = 0
          /\ provider' = [provider EXCEPT ![s] =
                            [version |-> @.version + 1, ended |-> ended]]
          /\ emitted' = [emitted EXCEPT ![e] =
                [kind |-> kind, sub |-> s, version |-> provider[s].version + 1]]
    /\ UNCHANGED <<ledger, acked, handler, profile, risk, applied, faults>>

\* Stripe delivers until it is answered; a duplicate after that is a fault.
Deliver(h, e) ==
    /\ handler[h].pc = "idle"
    /\ emitted[e] # NotEmitted
    /\ IF e \in acked THEN Fault ELSE UNCHANGED faults
    /\ ledger' = IF ledger[e].status = "none"
                 THEN [ledger EXCEPT ![e] = Unleased("received")] ELSE ledger
    /\ handler' = [handler EXCEPT ![h] =
          [pc |-> "claim", event |-> e, kind |-> emitted[e].kind,
           sub |-> emitted[e].sub, sees |-> 0]]
    /\ UNCHANGED <<provider, emitted, acked, profile, risk, applied>>

-----------------------------------------------------------------------------
(* webhookLedger.ts                                                        *)

\* A conditional update waits for the transaction that holds the row.
RowLocked(e) == \E h \in Handlers : handler[h].pc = "commit" /\ handler[h].event = e

\* Wrong on purpose (mutant of Claimable): an abandoned row is not taken over.
ClaimableUnlessTaken(row) == row.status \in {"received", "failed"}

Claimable(row) ==
    \/ row.status \in {"received", "failed"}
    \/ row.status = "processing" /\ row.lease # "live"

\* claimWebhookEvent: compare-and-set with a fresh token.  What a handler
\* reads next, before it has the tenant's lock, only finds the tenant.
Claim(h) ==
    LET e == handler[h].event IN
    /\ handler[h].pc = "claim"
    /\ ~RowLocked(e)
    /\ IF Claimable(ledger[e])
       THEN /\ ledger' = [ledger EXCEPT ![e] =
                    [status |-> "processing", token |-> h, lease |-> "live"]]
            /\ Goto(h, IF handler[h].kind = "other" THEN "finish" ELSE "lock")
       ELSE Goto(h, "refused") /\ UNCHANGED ledger
    /\ UNCHANGED <<provider, emitted, acked, profile, risk, applied, faults>>

\* Wrong on purpose (mutant of Deduped): a busy event is answered as done.
DedupedWhileBusy(e) == ledger[e].status \in Terminal \cup {"processing"}

Deduped(e) == ledger[e].status \in Terminal

\* The row is read again: terminal is acknowledged, busy is a 503.
Refuse(h) ==
    LET e == handler[h].event IN
    /\ handler[h].pc = "refused"
    /\ acked' = IF Deduped(e) THEN acked \cup {e} ELSE acked
    /\ handler' = [handler EXCEPT ![h] = IdleHandler]
    /\ UNCHANGED <<provider, emitted, ledger, profile, risk, applied, faults>>

\* Wrong on purpose (mutant of Owned): a claim is owned for ever.
OwnedForEver(h) == TRUE

\* ownedClaimWhere
Owned(h) ==
    LET row == ledger[handler[h].event] IN
    row.status = "processing" /\ row.token = h /\ row.lease = "live"

\* finishWebhookEvent, of an event that needs no reconciliation.
Finish(h) ==
    /\ handler[h].pc = "finish"
    /\ IF Owned(h)
       THEN /\ \E status \in Terminal :
                  ledger' = [ledger EXCEPT ![handler[h].event] = Unleased(status)]
            /\ Goto(h, "reply")
       ELSE Goto(h, "fail") /\ UNCHANGED ledger
    /\ UNCHANGED <<provider, emitted, acked, profile, risk, applied, faults>>

\* The route's catch: finish as failed unless the fence is lost; answer 503.
Fail(h) ==
    /\ handler[h].pc = "fail"
    /\ ledger' = IF handler[h].event # Null /\ Owned(h)
                 THEN [ledger EXCEPT ![handler[h].event] = Unleased("failed")]
                 ELSE ledger
    /\ handler' = [handler EXCEPT ![h] = IdleHandler]
    /\ UNCHANGED <<provider, emitted, acked, profile, risk, applied, faults>>

Reply(h) ==
    /\ handler[h].pc = "reply"
    /\ acked' = acked \cup ({handler[h].event} \ {Null})
    /\ handler' = [handler EXCEPT ![h] = IdleHandler]
    /\ UNCHANGED <<provider, emitted, ledger, profile, risk, applied, faults>>

-----------------------------------------------------------------------------
(* tenantBillingCoordinator.ts                                             *)

\* The page Stripe returns the customer to reconciles without an event.
VisitSuccessPage(h, s) ==
    /\ handler[h].pc = "idle"
    /\ provider[s].version > 0
    /\ handler' = [handler EXCEPT ![h] = [pc |-> "lock", event |-> Null,
                      kind |-> "checkout", sub |-> s, sees |-> 0]]
    /\ UNCHANGED <<provider, emitted, ledger, acked, profile, risk, applied, faults>>

InTransaction(h) == handler[h].pc \in {"observe", "fence", "commit"}

\* Wrong on purpose (mutant of LockFree): nothing serializes the tenant.
LockFreeAlways == TRUE

LockFree == \A h \in Handlers : ~InTransaction(h)

\* lockTenantBilling
Lock(h) ==
    /\ handler[h].pc = "lock"
    /\ LockFree
    /\ Goto(h, "observe")
    /\ UNCHANGED <<provider, emitted, ledger, acked, profile, risk, applied, faults>>

Bound(s) == profile.sub \in {Null, s}

\* reconcileHostedCheckout refuses what it cannot attribute.
Conflict(s) ==
    /\ \/ \E other \in Subscriptions \ {s} : Live(other)
       \/ ~Bound(s)
    /\ ~(~Bound(s) /\ ~Live(s) /\ Live(profile.sub))

\* Wrong on purpose (mutant of Current): the delivered object is trusted.
CurrentAsDelivered(h) ==
    IF handler[h].event = Null THEN provider[handler[h].sub].version
    ELSE emitted[handler[h].event].version

\* retrieveSubscriptionWithLatestInvoice: what the provider says now.
Current(h) == provider[handler[h].sub].version

\* prepare: the provider is read under the lock; 0 means superseded.
Observe(h) ==
    LET s == handler[h].sub IN
    /\ handler[h].pc = "observe"
    /\ IF handler[h].kind = "checkout" /\ Conflict(s)
       THEN Goto(h, "fail")
       ELSE handler' = [handler EXCEPT ![h].pc = "fence", ![h].sees =
              IF handler[h].kind = "risk" \/ Bound(s) THEN Current(h) ELSE 0]
    /\ UNCHANGED <<provider, emitted, ledger, acked, profile, risk, applied, faults>>

\* assertWebhookClaim: locks the row to the end of the transaction.
Fence(h) ==
    /\ handler[h].pc = "fence"
    /\ ~RowLocked(handler[h].event)
    /\ Goto(h, IF handler[h].event = Null \/ Owned(h) THEN "commit" ELSE "fail")
    /\ UNCHANGED <<provider, emitted, ledger, acked, profile, risk, applied, faults>>

\* A risk event projects the subscription only if it is the bound one.
Projects(h) ==
    /\ handler[h].sees > 0
    /\ handler[h].kind = "risk" => profile.sub = handler[h].sub

\* Projection, risk and the row's final status commit together, if the lease
\* did not run out since the fence.
Commit(h) ==
    LET e == handler[h].event
        s == handler[h].sub
        v == handler[h].sees
    IN
    /\ handler[h].pc = "commit"
    /\ IF e # Null /\ ~Owned(h)
       THEN Goto(h, "fail") /\ UNCHANGED <<ledger, profile, risk, applied>>
       ELSE /\ profile' = IF Projects(h) THEN [sub |-> s, version |-> v] ELSE profile
            /\ risk' = IF handler[h].kind = "risk" THEN [risk EXCEPT ![s] = v] ELSE risk
            /\ IF e = Null THEN UNCHANGED <<ledger, applied>>
               ELSE /\ ledger' = [ledger EXCEPT ![e] =
                           Unleased(IF v = 0 THEN "skipped" ELSE "processed")]
                    /\ applied' = IF v = 0 THEN applied
                                  ELSE [applied EXCEPT ![e] = @ + 1]
            /\ Goto(h, "reply")
    /\ UNCHANGED <<provider, emitted, acked, faults>>

-----------------------------------------------------------------------------
(* Faults.                                                                 *)

\* A provider or database call fails, or the transaction takes 20 seconds.
CallFails(h) ==
    /\ handler[h].pc \in {"lock", "observe", "fence", "commit"}
    /\ Fault
    /\ Goto(h, "fail")
    /\ UNCHANGED <<provider, emitted, ledger, acked, profile, risk, applied>>

\* The function is killed; its transaction is rolled back.
Die(h) ==
    /\ handler[h].pc # "idle"
    /\ Fault
    /\ handler' = [handler EXCEPT ![h] = IdleHandler]
    /\ UNCHANGED <<provider, emitted, ledger, acked, profile, risk, applied>>

Held(e) == \E h \in Handlers :
    /\ handler[h].event = e
    /\ ledger[e].token = h
    /\ handler[h].pc \notin {"claim", "refused"}

\* 60 seconds pass: a fault only if the claimant is still at work.
LeaseRunsOut(e) ==
    /\ ledger[e].lease = "live"
    /\ IF Held(e) THEN Fault ELSE UNCHANGED faults
    /\ ledger' = [ledger EXCEPT ![e].lease = "lapsed"]
    /\ UNCHANGED <<provider, emitted, acked, handler, profile, risk, applied>>

-----------------------------------------------------------------------------
Init ==
    /\ provider = [s \in Subscriptions |->
                     [version |-> IF s \in Older THEN 1 ELSE 0, ended |-> FALSE]]
    /\ emitted = [e \in Events |-> NotEmitted]
    /\ ledger = [e \in Events |-> Unleased("none")]
    /\ acked = {}
    /\ handler = [h \in Handlers |-> IdleHandler]
    /\ profile = [sub |-> Null, version |-> 0]
    /\ risk = [s \in Subscriptions |-> 0]
    /\ applied = [e \in Events |-> 0]
    /\ faults = 0

HandlerStep(h) ==
    Claim(h) \/ Refuse(h) \/ Observe(h) \/ Fence(h)
        \/ Commit(h) \/ Finish(h) \/ Fail(h) \/ Reply(h)

Next ==
    \/ \E s \in Subscriptions, e \in Events : ProviderChanges(s, e)
    \/ \E e \in Events : LeaseRunsOut(e)
    \/ \E h \in Handlers :
          \/ HandlerStep(h) \/ Lock(h) \/ CallFails(h) \/ Die(h)
          \/ \E e \in Events : Deliver(h, e)
          \/ \E s \in Subscriptions : VisitSuccessPage(h, s)

Spec == Init /\ [][Next]_vars

\* Requests take their steps, Postgres grants the advisory lock in turn,
\* abandoned leases run out, and Stripe keeps delivering what is not answered.
Fairness ==
    /\ \A h \in Handlers : WF_vars(HandlerStep(h)) /\ SF_vars(Lock(h))
    /\ \A e \in Events :
          /\ WF_vars(LeaseRunsOut(e) /\ ~Held(e))
          /\ SF_vars(e \notin acked /\ \E h \in Handlers : Deliver(h, e))

FairSpec == Spec /\ Fairness

-----------------------------------------------------------------------------
(* Properties.                                                             *)

TypeOK ==
    /\ provider \in [Subscriptions -> [version : Versions, ended : BOOLEAN]]
    /\ emitted \in [Events -> About \cup {NotEmitted}]
    /\ ledger \in [Events -> Row]
    /\ acked \in SUBSET Events
    /\ handler \in [Handlers -> HandlerRecord]
    /\ profile \in [sub : Subscriptions \cup {Null}, version : Versions]
    /\ risk \in [Subscriptions -> Versions]
    /\ applied \in [Events -> Nat]
    /\ faults \in 0..MaxFaults

\* An event is reconciled at most once, and its row says so: however many
\* handlers overlapped, only the owner of the lease commits, and the effect
\* and the final status are one transaction (tenantBillingCoordinator.ts).
AppliedOnce ==
    \A e \in Events :
        /\ applied[e] <= 1
        /\ applied[e] = 1 => ledger[e].status = "processed"
        /\ ledger[e].status = "processed" /\ emitted[e].kind # "other"
              => applied[e] = 1

Settled(e) == ledger[e].status \in Terminal

\* A settled event is reflected: if it was about the subscription the tenant
\* is bound to, the projection is at least as new as the change it announced,
\* whatever order the events were delivered and committed in.
Reflected(e) ==
    LET about == emitted[e] IN
    /\ about.kind = "risk" =>
          ledger[e].status = "processed" /\ risk[about.sub] >= about.version
    /\ about.kind \in {"checkout", "subscription"} /\ about.sub = profile.sub =>
          profile.version >= about.version

SettledIsReflected ==
    \A e \in Events : Settled(e) /\ emitted[e] # NotEmitted => Reflected(e)

Forward ==
    /\ profile.sub # Null => profile'.sub = profile.sub
    /\ profile'.version >= profile.version
    /\ \A s \in Subscriptions : risk'[s] >= risk[s]

\* An older observation never replaces a newer one, in the projection or in
\* the risk facts, and a binding is never replaced by another subscription:
\* the provider is read under the tenant's lock (tenantBillingCoordinator.ts),
\* never before it.
NeverGoesBack == [][Forward]_vars

\* Stripe stops delivering an event only when the event is settled for good.
AckedIsSettled == \A e \in acked : Settled(e)

\* The handlers keep what is promised to the tenant: every step is one the
\* contract allows, or changes nothing the tenant or Stripe can tell.
Contract == INSTANCE WebhookContract
              WITH version <- [s \in Subscriptions |-> provider[s].version],
                   settled <- {e \in Events : Settled(e)}
KeepsContract == Contract!Spec

\* Every event is settled in the end, or the customer has subscriptions the
\* checkout cannot attribute, despite crashes, failures and overrun leases.
EventsSettle ==
    \A e \in Events :
        emitted[e] # NotEmitted
            ~> (Settled(e) \/ (emitted[e].kind = "checkout" /\ Conflict(emitted[e].sub)))
=============================================================================
