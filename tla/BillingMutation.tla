--------------------------- MODULE BillingMutation ---------------------------
(***************************************************************************)
(* The journal of a tenant's customer billing operations (lib/billing).    *)
(* An operation is planned against the tenant's profile, reserves the      *)
(* tenant, and is carried out at Stripe step by step by an executor that   *)
(* holds a lease on it; an executor that comes later, asked for by the     *)
(* customer, recovers what an earlier one left unknown.  Webhooks, the     *)
(* owner's trial operations and the customer's use of Stripe's own pages   *)
(* go on meanwhile.                                                        *)
(*                                                                         *)
(* Every function of the coordinator runs under the tenant's advisory      *)
(* lock, so it is one action here; calls to Stripe run outside it.  One    *)
(* tenant with at most one Stripe customer and one subscription: what it   *)
(* is bound to is a set of links.  The profile's version is abstracted to  *)
(* the set of requests it has not overtaken, a lease's token and owner to  *)
(* the executor that holds it.                                             *)
(***************************************************************************)
EXTENDS Integers

CONSTANTS
    Operations,   \* ids the customer's client gives its operations
    Executors,    \* runs of the executor: a request's or a recovery's
    Intents,      \* what the customer may ask for
    Starts,       \* tenants to start from
    Null

ASSUME BillingAssumption ==
    /\ Intents \subseteq
         {"checkout", "cancel", "portal", "downgrade", "undo_downgrade"}
    /\ Starts \subseteq {"trialing", "unbound", "subscriber", "downgrading"}
    /\ Null \notin Executors
    /\ Null \notin Operations \X {"root", "customer"}
    /\ Null \notin {{}, {"customer"}, {"customer", "subscription"}}

VARIABLES
    bound,        \* the profile's links to Stripe
    scheduled,    \* the profile has a downgrade scheduled
    trialing,     \* the local trial, which a subscription makes irrelevant
    pending,      \* the journal entry the tenant is reserved for
    owner,        \* the tenant is reserved for the owner's operation
    current,      \* requests whose expected version is the profile's
    plan,         \* plan[o]: the action o was planned as
    status,       \* status[i] of a journal entry
    execution,    \* execution[i]: the links i executes under, Null before
    holder,       \* holder[i]: the executor with the live lease on i
    step,         \* step[k]: status of a provider step
    attempts,     \* attempts[k]: dispatches; 2 stands for more than one
    closed,       \* steps first dispatched 24 hours ago
    effects,      \* effects[k]: times Stripe has done k; 2: more than once
    kept,         \* kept[k]: the answer Stripe keeps for k's key
    wire,         \* requests still on their way, their sender gone
    subscription, \* the customer's subscription at Stripe
    schedule,     \* its schedule at Stripe
    executor      \* executor[e]: where e is

profile  == <<bound, scheduled, trialing, pending, owner, current>>
journal  == <<status, execution, holder, step, attempts, closed>>
provider == <<effects, kept, wire, subscription, schedule>>
vars == <<profile, plan, journal, provider, executor>>

-----------------------------------------------------------------------------
(* Entries and steps.                                                      *)

Links == {"customer", "subscription"}
Bindings == {{}, {"customer"}, Links}  \* no subscription without a customer
Actions == {"checkout_create", "upgrade", "cancel", "cancel_portal_create",
            "schedule_downgrade", "undo_downgrade", "portal_create"}

\* An operation is its root entry and, where the tenant is not yet a customer
\* of Stripe, a prerequisite that creates one.
Entries == Operations \X {"root", "customer"}
Root(o) == <<o, "root">>
Prerequisite(o) == <<o, "customer">>
ActionOf(i) == IF i[2] = "customer" THEN "customer_create" ELSE plan[i[1]]

StepCount(i) == IF ActionOf(i) = "cancel" THEN 0
                ELSE IF ActionOf(i) = "schedule_downgrade" THEN 2 ELSE 1
Keys == Entries \X {1, 2}
StepsOf(i) == {k \in Keys : k[1] = i /\ k[2] <= StepCount(i)}

\* The first step of i that has not succeeded.
NextStep(i) == <<i, IF step[<<i, 1>>] = "succeeded" THEN 2 ELSE 1>>

OpenStatuses == {"pending", "reconciliation_required"}
Unresolved(i) == status[i] \in OpenStatuses

\* Stripe lets the object a step made be found again, with the operation in
\* its metadata; it lists no portal sessions, and a schedule made from a
\* subscription bears no metadata.
Traceable(k) ==
    \/ ActionOf(k[1]) \in
         {"customer_create", "checkout_create", "upgrade", "undo_downgrade"}
    \/ ActionOf(k[1]) = "schedule_downgrade" /\ k[2] = 2

\* Actions planned for a subscription that was found at Stripe.
ForSubscription == {"upgrade", "cancel_portal_create", "schedule_downgrade"}
MustBind(i) == ActionOf(i) \in ForSubscription /\ "subscription" \notin bound

-----------------------------------------------------------------------------
(* Requests: accept plans, reserve takes the tenant.                       *)

Found == "customer" \in bound /\ subscription = "live"

\* Wrong on purpose (mutant of Planned): what was asked is journaled as it is.
AsAsked(intent) == {intent}

\* The actions an intent may become; none when it is refused.
Planned(intent) ==
    CASE intent = "checkout" ->
           IF Found THEN {"upgrade"}
           ELSE IF "subscription" \notin bound THEN {"checkout_create"} ELSE {}
      [] intent = "cancel" ->
           IF trialing /\ "subscription" \notin bound THEN {"cancel"}
           ELSE IF Found THEN {"cancel_portal_create"} ELSE {}
      [] intent = "portal" -> {"portal_create"}
      [] intent = "downgrade" ->
           IF Found /\ schedule # "active" THEN {"schedule_downgrade"} ELSE {}
      [] intent = "undo_downgrade" ->
           IF bound = Links /\ scheduled /\ schedule = "active"
           THEN {"undo_downgrade"} ELSE {}

\* accept reads the profile without the lock, and plans; again when overtaken.
Accept(o) ==
    /\ status[Root(o)] = "absent"
    /\ o \notin current
    /\ \E intent \in Intents : \E a \in Planned(intent) :
          plan' = [plan EXCEPT ![o] = a]
    /\ current' = current \cup {o}
    /\ UNCHANGED <<bound, scheduled, trialing, pending, owner, journal, provider,
                   executor>>

\* Wrong on purpose (mutant of Unreserved): only the owner's reservation counts.
UnreservedByOwner == ~owner

\* assertBillingReservation without a fence.
Unreserved == ~owner /\ pending = Null

\* Wrong on purpose (mutant of VersionIsCurrent): an overtaken plan is taken.
VersionIsIgnored(o) == TRUE

VersionIsCurrent(o) == o \in current

At(pc, i, n, recovery) ==
    [pc |-> pc, entry |-> i, step |-> n, recovery |-> recovery]
New == At("new", Null, 1, FALSE)
Gone == At("gone", Null, 1, FALSE)
GotoStep(e, pc, n) ==
    executor' = [executor EXCEPT ![e] =
                   At(pc, executor[e].entry, n, executor[e].recovery)]
Goto(e, pc) == GotoStep(e, pc, executor[e].step)
Leave(e) == executor' = [executor EXCEPT ![e] = Gone]

\* reserve: the journal, the reservation and a new version in one transaction;
\* the request goes on as the operation's first executor.
Reserve(e, o) ==
    /\ executor[e].pc = "new"
    /\ plan[o] # Null
    /\ status[Root(o)] = "absent"
    /\ Unreserved
    /\ VersionIsCurrent(o)
    /\ LET i == IF plan[o] = "cancel" \/ "customer" \in bound
                THEN Root(o) ELSE Prerequisite(o)
       IN /\ status' = [status EXCEPT ![Root(o)] = "pending", ![i] = "pending"]
          /\ execution' = [execution EXCEPT ![i] = bound]
          /\ step' = IF StepCount(i) = 0 THEN step
                     ELSE [step EXCEPT ![<<i, 1>>] = "pending"]
          /\ pending' = i
          /\ executor' = [executor EXCEPT ![e] = At("claim", i, 1, FALSE)]
    /\ current' = {}
    /\ UNCHANGED <<bound, scheduled, trialing, owner, plan, holder, attempts,
                   closed, provider>>

\* The customer asks to reconcile an operation: readOwn finds what is reserved
\* for it.  A lost subscription link is supersedeKnown's, which refuses every
\* operation of a tenant whose subscription was never replaced.
Recover(e, o) ==
    /\ executor[e].pc = "new"
    /\ Unresolved(Root(o))
    /\ ~owner
    /\ \E i \in {Root(o), Prerequisite(o)} :
          /\ pending = i
          /\ holder[i] = Null
          /\ i = Root(o) => ("subscription" \in execution[i]
                               <=> "subscription" \in bound)
          /\ executor' = [executor EXCEPT ![e] = At("claim", i, 1, TRUE)]
    /\ UNCHANGED <<profile, plan, journal, provider>>

-----------------------------------------------------------------------------
(* Executors.                                                              *)

\* assertBillingReservation with a fence, and the rest of the fence's CAS.
Executable(i) ==
    /\ pending = i
    /\ ~owner
    /\ Unresolved(i)
    /\ execution[i] = bound

Claim(e) ==
    /\ executor[e].pc = "claim"
    /\ Executable(executor[e].entry)
    /\ holder[executor[e].entry] = Null
    /\ holder' = [holder EXCEPT ![executor[e].entry] = e]
    /\ Goto(e, "run")
    /\ UNCHANGED <<profile, plan, status, execution, step, attempts, closed,
                   provider>>

\* Wrong on purpose (mutant of Holds): any live lease will do.
HoldsAny(e, i) == holder[i] # Null

\* Lease owner, token and expiry.
Holds(e, i) == holder[i] = e

\* assertBillingFence: e is at place pc of its run, its lease not lost.
Fenced(e, pcs) ==
    /\ executor[e].pc \in pcs
    /\ Executable(executor[e].entry)
    /\ Holds(e, executor[e].entry)

\* bindDiscoveredSubscription.
Bind(e) ==
    /\ Fenced(e, {"run"})
    /\ LET i == executor[e].entry
       IN /\ MustBind(i)
          /\ "customer" \in bound
          /\ subscription # "none"
          /\ bound' = bound \cup {"subscription"}
          /\ execution' = [execution EXCEPT ![i] = bound']
    /\ current' = {}
    /\ UNCHANGED <<scheduled, trialing, pending, owner, plan, status, holder, step,
                   attempts, closed, provider, executor>>

\* freezeStep: the first step of a root whose customer is new, or the second.
Freeze(e) ==
    /\ Fenced(e, {"run"})
    /\ LET i == executor[e].entry
       IN /\ "customer" \in bound /\ ~MustBind(i)
          /\ NextStep(i) \in StepsOf(i)
          /\ step[NextStep(i)] = "absent"
          /\ step' = [step EXCEPT ![NextStep(i)] = "pending"]
    /\ UNCHANGED <<profile, plan, status, execution, holder, attempts, closed,
                   provider, executor>>

\* A step this run must dispatch or recover.
Ready(i) ==
    /\ ~MustBind(i)
    /\ NextStep(i) \in StepsOf(i)
    /\ step[NextStep(i)] \in OpenStatuses

\* recoverStep looks for the object before it dispatches again.
Lookup(e) ==
    /\ Fenced(e, {"run"})
    /\ executor[e].recovery
    /\ LET k == NextStep(executor[e].entry)
       IN /\ Ready(executor[e].entry)
          /\ attempts[k] > 0
          /\ \/ Traceable(k) /\ effects[k] = 1 /\ GotoStep(e, "verify", k[2])
             \/ (Traceable(k) => effects[k] = 0) /\ GotoStep(e, "dispatch", k[2])
    /\ UNCHANGED <<profile, plan, journal, provider>>

\* Wrong on purpose (mutant of WindowIsOpen): a key is replayed at any time.
WindowIsIgnored(k) == TRUE

WindowIsOpen(k) == attempts[k] > 0 => k \notin closed

\* dispatch: the attempt is committed, then the request is sent.
Dispatch(e) ==
    /\ Fenced(e, {"run", "dispatch"})
    /\ LET k == NextStep(executor[e].entry)
       IN /\ Ready(executor[e].entry)
          /\ executor[e].pc = "run" /\ executor[e].recovery => attempts[k] = 0
          /\ WindowIsOpen(k)
          /\ attempts' = [attempts EXCEPT ![k] = IF @ = 0 THEN 1 ELSE 2]
          /\ GotoStep(e, "wait", k[2])
    /\ UNCHANGED <<profile, plan, status, execution, holder, step, closed, provider>>

-----------------------------------------------------------------------------
(* Stripe.  A key that is kept answers as before; a request that is invalid *)
(* is refused without a trace; a failure may come before or after the fact. *)

Answers == {"done", "failed", "refused"}

\* The state of the tenant's Stripe objects that step k needs.
Applies(k) ==
    CASE ActionOf(k[1]) \in {"upgrade", "cancel_portal_create"} ->
           subscription = "live"
      [] ActionOf(k[1]) = "schedule_downgrade" /\ k[2] = 1 ->
           subscription = "live" /\ schedule # "active"
      [] ActionOf(k[1]) \in {"schedule_downgrade", "undo_downgrade"} ->
           schedule = "active"
      [] OTHER -> TRUE

ScheduleAfter(k) ==
    CASE ActionOf(k[1]) = "schedule_downgrade" -> "active"
      [] ActionOf(k[1]) = "undo_downgrade" -> "released"
      [] OTHER -> schedule

Perform(k) ==
    /\ Applies(k)
    /\ effects' = [effects EXCEPT ![k] = IF @ = 0 THEN 1 ELSE 2]
    /\ schedule' = ScheduleAfter(k)

\* Stripe handles a request with key k and answers a.
Handle(k, a) ==
    /\ \/ kept[k] # "none" /\ a = kept[k] /\ UNCHANGED <<effects, schedule>>
       \/ kept[k] = "none" /\ a # "refused" /\ Perform(k)
       \/ kept[k] = "none" /\ a # "done" /\ UNCHANGED <<effects, schedule>>
    /\ kept' = IF a = "refused" THEN kept ELSE [kept EXCEPT ![k] = a]
    /\ UNCHANGED subscription

\* The step executor e is at.
KeyOf(e) == <<executor[e].entry, executor[e].step>>

\* The answer reaches the executor.
Answered(e) ==
    /\ executor[e].pc = "wait"
    /\ \E a \in Answers :
          /\ Handle(KeyOf(e), a)
          /\ Goto(e, CASE a = "done" -> "record"
                       [] a = "failed" -> "uncertain"
                       [] a = "refused" -> "refused")
    /\ UNCHANGED <<profile, plan, journal, wire>>

\* A request whose sender is gone is handled late, or lost.
Late(k) ==
    /\ k \in wire
    /\ \/ \E a \in Answers : Handle(k, a)
       \/ UNCHANGED <<effects, kept, subscription, schedule>>
    /\ wire' = wire \ {k}
    /\ UNCHANGED <<profile, plan, journal, executor>>

\* Stripe drops a key at the earliest when the step's window has closed and no
\* request with it is on its way.
Forget(k) ==
    /\ kept[k] # "none"
    /\ k \in closed
    /\ k \notin wire
    /\ \A e \in Executors : executor[e].pc = "wait" => KeyOf(e) # k
    /\ kept' = [kept EXCEPT ![k] = "none"]
    /\ UNCHANGED <<profile, plan, journal, effects, wire, subscription, schedule,
                   executor>>

-----------------------------------------------------------------------------
(* Outcomes.                                                               *)

\* The executor waits for a request no longer, which may still be on its way.
Abandon(e) ==
    wire' = IF executor[e].pc = "wait" THEN wire \cup {KeyOf(e)} ELSE wire

\* The call times out or its connection breaks; or verify does not find what
\* Stripe answered.
Unknown(e) ==
    /\ executor[e].pc \in {"wait", "record"}
    /\ Goto(e, "uncertain")
    /\ Abandon(e)
    /\ UNCHANGED <<profile, plan, journal, effects, kept, subscription, schedule>>

\* uncertain: what a call that threw leaves behind.
MarkUncertain(e) ==
    /\ Fenced(e, {"uncertain", "refused"})
    /\ step[KeyOf(e)] \in OpenStatuses
    /\ step' = [step EXCEPT ![KeyOf(e)] = "reconciliation_required"]
    /\ status' = [status EXCEPT ![executor[e].entry] = "reconciliation_required"]
    /\ IF executor[e].pc = "refused" THEN Goto(e, "reject") ELSE Leave(e)
    /\ UNCHANGED <<profile, plan, execution, holder, attempts, closed, provider>>

\* recordStep of e's step as s, and on to the rest of the run.
RecordStep(e, s) ==
    /\ step[KeyOf(e)] \in OpenStatuses
    /\ attempts[KeyOf(e)] > 0
    /\ step' = [step EXCEPT ![KeyOf(e)] = s]
    /\ status' = [status EXCEPT ![executor[e].entry] = "reconciliation_required"]
    /\ GotoStep(e, "run", 1)
    /\ UNCHANGED <<profile, plan, execution, holder, attempts, closed, provider>>

RecordDone(e) ==
    /\ Fenced(e, {"record", "verify"})
    /\ RecordStep(e, "succeeded")

\* Wrong on purpose (mutant of ProvesNothingDone): any refusal will do.
AnyRefusal(k) == TRUE

\* A refusal proves that nothing was done only if no request came before.
ProvesNothingDone(k) == attempts[k] = 1

RecordRefused(e) ==
    /\ Fenced(e, {"reject"})
    /\ ProvesNothingDone(KeyOf(e))
    /\ RecordStep(e, "failed")

\* handoff: the customer is created, the reservation goes to the root.
Handoff(e) ==
    /\ Fenced(e, {"run"})
    /\ LET i == executor[e].entry
           root == Root(i[1])
       IN /\ i[2] = "customer"
          /\ step[<<i, 1>>] = "succeeded"
          /\ bound = {}
          /\ Unresolved(root) /\ execution[root] = Null
          /\ status' = [status EXCEPT ![i] = "succeeded"]
          /\ holder' = [holder EXCEPT ![i] = Null]
          /\ bound' = {"customer"}
          /\ execution' = [execution EXCEPT ![root] = bound']
          /\ pending' = root
          /\ executor' = [executor EXCEPT ![e] =
                            At("claim", root, 1, executor[e].recovery)]
    /\ current' = {}
    /\ UNCHANGED <<scheduled, trialing, owner, plan, step, attempts, closed, provider>>

AllDone(i) == \A k \in StepsOf(i) : step[k] = "succeeded"
Refused(i) == \E k \in StepsOf(i) : step[k] = "failed"

\* Wrong on purpose (mutant of NotPartial): what was done before is forgotten.
PartialIsIgnored(i) == TRUE

\* A refused step after one that succeeded is no failure of the whole.
NotPartial(i) ==
    /\ i[2] = "root" => status[Prerequisite(i[1])] = "absent"
    /\ \A k \in StepsOf(i) : step[k] # "succeeded"

\* What finalize asks of the profile and of Stripe before it projects success.
Confirmed(i) ==
    CASE ActionOf(i) = "cancel" -> "subscription" \notin bound /\ trialing
      [] ActionOf(i) = "schedule_downgrade" -> schedule = "active"
      [] ActionOf(i) = "undo_downgrade" -> scheduled /\ schedule = "released"
      [] OTHER -> "customer" \in bound

\* What finalize writes to the profile.
Project(i) ==
    /\ scheduled' = (ActionOf(i) = "schedule_downgrade"
                       \/ (scheduled /\ ActionOf(i) # "undo_downgrade"))
    /\ trialing' = (trialing /\ ActionOf(i) # "cancel")

Release(e) ==
    /\ holder' = [holder EXCEPT ![executor[e].entry] = Null]
    /\ pending' = Null
    /\ current' = {}
    /\ Leave(e)
    /\ UNCHANGED <<bound, owner, plan, execution, step, attempts, closed, provider>>

\* finalize, all steps done.
Succeed(e) ==
    /\ Fenced(e, {"run"})
    /\ LET i == executor[e].entry
       IN /\ i[2] = "root"
          /\ status[Prerequisite(i[1])] \in {"absent", "succeeded"}
          /\ AllDone(i)
          /\ Confirmed(i)
          /\ Project(i)
          /\ status' = [status EXCEPT ![i] = "succeeded"]
    /\ Release(e)

\* finalize, a step refused; a refused prerequisite fails its root as well.
Fail(e) ==
    /\ Fenced(e, {"run"})
    /\ LET i == executor[e].entry
       IN /\ Refused(i)
          /\ NotPartial(i)
          /\ status' = [status EXCEPT ![i] = "failed", ![Root(i[1])] = "failed"]
    /\ UNCHANGED <<scheduled, trialing>>
    /\ Release(e)

\* The executor dies, or throws: its fence is lost or a read fails.
Stop(e) ==
    /\ executor[e].pc \notin {"new", "gone"}
    /\ Leave(e)
    /\ Abandon(e)
    /\ UNCHANGED <<profile, plan, journal, effects, kept, subscription, schedule>>

-----------------------------------------------------------------------------
(* Time, webhooks, the owner, and the customer at Stripe.                  *)

\* Sixty seconds after the claim.
LeaseExpires(i) ==
    /\ holder[i] # Null
    /\ holder' = [holder EXCEPT ![i] = Null]
    /\ UNCHANGED <<profile, plan, status, execution, step, attempts, closed, provider,
                   executor>>

\* Twenty-four hours after the first attempt.  Nothing asks for the window of a
\* step that is concluded.
WindowCloses(k) ==
    /\ attempts[k] > 0
    /\ step[k] \in OpenStatuses
    /\ k \notin closed
    /\ closed' = closed \cup {k}
    /\ UNCHANGED <<profile, plan, status, execution, holder, step, attempts, provider,
                   executor>>

\* A subscription's webhook binds it, whatever the tenant is reserved for.
SubscriptionWebhook ==
    /\ "customer" \in bound
    /\ subscription # "none"
    /\ bound' = Links
    /\ current' = {}
    /\ UNCHANGED <<scheduled, trialing, pending, owner, plan, journal, provider,
                   executor>>

\* The webhook of a released schedule clears it from the profile.
ReleaseWebhook ==
    /\ scheduled
    /\ schedule = "released"
    /\ "subscription" \in bound
    /\ scheduled' = FALSE
    /\ current' = {}
    /\ UNCHANGED <<bound, trialing, pending, owner, plan, journal, provider, executor>>

\* The owner's operation takes and leaves the tenant.
OwnerReserves ==
    /\ Unreserved
    /\ owner' = TRUE
    /\ current' = {}
    /\ UNCHANGED <<bound, scheduled, trialing, pending, plan, journal, provider,
                   executor>>
OwnerReleases ==
    /\ owner
    /\ owner' = FALSE
    /\ current' = {}
    /\ UNCHANGED <<bound, scheduled, trialing, pending, plan, journal, provider,
                   executor>>

\* The customer completes a checkout session; its subscription ends.
Subscribe ==
    /\ subscription = "none"
    /\ \E o \in Operations : plan[o] = "checkout_create" /\ effects[<<Root(o), 1>>] > 0
    /\ subscription' = "live"
    /\ UNCHANGED <<profile, plan, journal, effects, kept, wire, schedule, executor>>
SubscriptionEnds ==
    /\ subscription = "live"
    /\ subscription' = "ended"
    /\ schedule' = IF schedule = "active" THEN "none" ELSE schedule
    /\ UNCHANGED <<profile, plan, journal, effects, kept, wire, executor>>

-----------------------------------------------------------------------------
\* A tenant on its local trial; one whose subscription no webhook has told of
\* yet; a subscriber; a subscriber with a downgrade scheduled.
Init ==
    /\ \E start \in Starts :
          /\ bound = CASE start = "trialing" -> {}
                       [] start = "unbound" -> {"customer"}
                       [] OTHER -> Links
          /\ scheduled = (start = "downgrading")
          /\ trialing = (start = "trialing")
          /\ subscription = IF start = "trialing" THEN "none" ELSE "live"
          /\ schedule = IF start = "downgrading" THEN "active" ELSE "none"
    /\ pending = Null
    /\ owner = FALSE
    /\ current = {}
    /\ plan = [o \in Operations |-> Null]
    /\ status = [i \in Entries |-> "absent"]
    /\ execution = [i \in Entries |-> Null]
    /\ holder = [i \in Entries |-> Null]
    /\ step = [k \in Keys |-> "absent"]
    /\ attempts = [k \in Keys |-> 0]
    /\ closed = {}
    /\ effects = [k \in Keys |-> 0]
    /\ kept = [k \in Keys |-> "none"]
    /\ wire = {}
    /\ executor = [e \in Executors |-> New]

ExecutorStep(e) ==
    \/ \E o \in Operations : Reserve(e, o) \/ Recover(e, o)
    \/ Claim(e) \/ Bind(e) \/ Freeze(e) \/ Lookup(e) \/ Dispatch(e)
    \/ Answered(e) \/ Unknown(e) \/ MarkUncertain(e) \/ RecordDone(e)
    \/ RecordRefused(e) \/ Handoff(e) \/ Succeed(e) \/ Fail(e) \/ Stop(e)

Environment ==
    \/ \E o \in Operations : Accept(o)
    \/ \E i \in Entries : LeaseExpires(i)
    \/ \E k \in Keys : WindowCloses(k) \/ Late(k) \/ Forget(k)
    \/ SubscriptionWebhook \/ ReleaseWebhook \/ OwnerReserves \/ OwnerReleases
    \/ Subscribe \/ SubscriptionEnds

Next == Environment \/ \E e \in Executors : ExecutorStep(e)

Spec == Init /\ [][Next]_vars

-----------------------------------------------------------------------------
(* Properties.                                                             *)

ExecutorRecord ==
    [pc : {"new", "gone", "claim", "run", "dispatch", "wait", "uncertain", "refused",
           "record", "verify", "reject"},
     entry : Entries \cup {Null}, step : {1, 2}, recovery : BOOLEAN]

TypeOK ==
    /\ bound \in Bindings
    /\ scheduled \in BOOLEAN
    /\ trialing \in BOOLEAN
    /\ pending \in Entries \cup {Null}
    /\ owner \in BOOLEAN
    /\ current \subseteq Operations
    /\ plan \in [Operations -> Actions \cup {Null}]
    /\ status \in [Entries -> OpenStatuses \cup {"absent", "succeeded", "failed"}]
    /\ execution \in [Entries -> Bindings \cup {Null}]
    /\ holder \in [Entries -> Executors \cup {Null}]
    /\ step \in [Keys -> OpenStatuses \cup {"absent", "succeeded", "failed"}]
    /\ attempts \in [Keys -> 0..2]
    /\ closed \subseteq Keys
    /\ effects \in [Keys -> 0..2]
    /\ kept \in [Keys -> {"none", "done", "failed"}]
    /\ wire \subseteq Keys
    /\ subscription \in {"none", "live", "ended"}
    /\ schedule \in {"none", "active", "released"}
    /\ executor \in [Executors -> ExecutorRecord]

\* No step is done twice at Stripe, however often it is dispatched and however
\* late requests arrive (dispatch's 24-hour window, the step's own key).
EffectOnce == \A k \in Keys : effects[k] <= 1

\* An operation that is reported done was done, and one that is reported
\* failed has done nothing and never will (recordStep, finalize).
EffectsOf(o) == {k \in Keys : k[1][1] = o /\ effects[k] > 0}
OutcomeIsTrue ==
    \A o \in Operations :
        /\ status[Root(o)] = "succeeded" => StepsOf(Root(o)) \subseteq EffectsOf(o)
        /\ status[Root(o)] = "failed" => EffectsOf(o) = {}

\* An operation keeps its tenant until its outcome is known, crashes, expired
\* leases and handoffs included, and the owner's operations stay out
\* (openspec stripe-billing-state-reconciliation: at most one unresolved
\* customer or owner mutation reserves a tenant).
ReservationHeld ==
    /\ pending # Null => Unresolved(pending) /\ ~owner
    /\ \A o \in Operations :
          Unresolved(Root(o)) => pending \in {Root(o), Prerequisite(o)}

\* What an operation does was planned for the links it executes under: no
\* checkout for a tenant that has a subscription, no downgrade to undo without
\* one (accept reads the profile before reserve locks it).
PlanFitsBinding ==
    \A o \in Operations :
        execution[Root(o)] # Null =>
          /\ plan[o] \in {"checkout_create", "cancel"} =>
               "subscription" \notin execution[Root(o)]
          /\ plan[o] = "undo_downgrade" => execution[Root(o)] = Links

\* While a tenant is reserved, only the executor with the live lease advances
\* the journal, commits its outcome or gives up the reservation (design.md:183).
StaleNeverWrites ==
    [][/\ pending # Null
       /\ <<pending, status, execution, step>>' # <<pending, status, execution, step>>
       => /\ holder[pending] # Null
          /\ executor[holder[pending]].entry = pending
          /\ \A e \in Executors \ {holder[pending]} : executor'[e] = executor[e]]_vars

\* Proof of success that is stored may finish a failed last commit without
\* another call (docs/DDD.md:1478).  Said of an undone downgrade.
ProofFinishes ==
    \A o \in Operations :
        LET i == Root(o)
        IN plan[o] = "undo_downgrade" /\ Executable(i) /\ AllDone(i) => Confirmed(i)

\* What the customer is told of an operation, the steps it takes at Stripe and
\* those done there.
PhaseOf(o) == IF status[Root(o)] = "absent" THEN "none"
              ELSE IF Unresolved(Root(o)) THEN "open" ELSE status[Root(o)]
AskedOf(o) == IF status[Root(o)] = "absent" THEN 0
              ELSE IF status[Prerequisite(o)] = "absent" THEN StepCount(Root(o))
              ELSE StepCount(Root(o)) + 1
DoneOf(o) == effects[<<Root(o), 1>>] + effects[<<Root(o), 2>>]
               + effects[<<Prerequisite(o), 1>>]
Phase == [o \in Operations |-> PhaseOf(o)]
Asked == [o \in Operations |-> AskedOf(o)]
Done == [o \in Operations |-> DoneOf(o)]

\* The journal implements its contract: every step is one the contract allows
\* of the operations' outcomes and of what was done at Stripe.
Contract == INSTANCE BillingContract WITH phase <- Phase, asked <- Asked, done <- Done
KeepsContract == Contract!Spec
=============================================================================
