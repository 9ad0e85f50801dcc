----------------------------- MODULE Agreements -----------------------------
(***************************************************************************)
(* What a debtor promised and what the user arranged with it: promises     *)
(* made by link (app/api/promise/[token]), one arrangement over several    *)
(* invoices (app/api/arrangements), the sweep that ends both when their    *)
(* date passes (lib/email/breachSweep.ts), and Stripe's report that an     *)
(* invoice is paid (app/api/webhooks/stripe-connect).  While one of them   *)
(* is active, the reminders of its invoices are held back.                 *)
(*                                                                         *)
(* Nothing here takes a lock.  Every statement reads what is committed     *)
(* when it begins, and an update of many rows looks again at those it      *)
(* found (READ COMMITTED): a row inserted meanwhile is not seen.           *)
(***************************************************************************)
EXTENDS Integers, FiniteSets

CONSTANTS
    Invoices,     \* the debtor's invoices
    Scenes,       \* debtors: which invoices have a promise link, which ones an
                  \* arrangement covers, which processes overlap
    MaxPromises,  \* bound: promises made
    RetryLimit,   \* broken promises after which links take no more
    Requests,     \* submissions of a promise that can overlap
    Handlers,     \* deliveries of invoice.paid that can overlap
    Sweeps,       \* runs of the breach sweep that can overlap
    MaxFaults,    \* bound: processes that die, mails that fail
    Null          \* no invoice, no promise, no change

Promises == 1..MaxPromises

ASSUME AgreementsAssumption ==
    /\ Scenes \subseteq [linked : SUBSET Invoices, covered : SUBSET Invoices,
                         submissions : SUBSET Requests, deliveries : SUBSET Handlers,
                         runs : SUBSET Sweeps]
    /\ MaxPromises \in Nat
    /\ RetryLimit \in Nat \ {0}
    /\ MaxFaults \in Nat
    /\ IsFiniteSet(Sweeps)
    /\ Null \notin Invoices \cup Int \cup STRING

VARIABLES
    scene,        \* the debtor's: it does not change
    settled,      \* settled[i]: the invoice is "paid" or "manually_resolved"
    promise,      \* promise[p]: a PromiseToPay row, in the order of creation
    latest,       \* latest[i]: the promise made last for the invoice
    arrangement,  \* the Arrangement row
    access,       \* the account's plan has promise tracking
    request,      \* request[r]: a submission of a promise
    handler,      \* handler[h]: a delivery of invoice.paid
    sweep,        \* sweep[s]: a run of the breach sweep
    change,       \* what the user's route is about to write
    heard,        \* covered invoices Stripe reported and that count as paid
    faults        \* faults so far

vars == <<scene, settled, promise, latest, arrangement, access, request, handler,
          sweep, change, heard, faults>>

Linked == scene.linked
Covered == scene.covered

-----------------------------------------------------------------------------
(* Rows and processes.                                                     *)

PromiseRecord ==
    [inv : Invoices \cup {Null},
     status : {"none", "active", "kept", "broken", "superseded"},
     past : BOOLEAN,   \* promisedPayBy has passed
     told : BOOLEAN,   \* breachNotifiedAt
     mails : Nat]      \* notices of the breach the user got
NoPromise == [inv |-> Null, status |-> "none", past |-> FALSE,
              told |-> FALSE, mails |-> 0]

ArrangementStatuses ==
    {"none", "active", "broken", "fulfilled", "expired", "cancelled"}

\* dated: it has a promisedPayBy; past: promisedPayBy, or expiresAt, has passed.
ArrangementRecord == [status : ArrangementStatuses, dated : BOOLEAN, past : BOOLEAN]

\* ALLOWED_TRANSITIONS
AllowedTransitions(status) ==
    CASE status = "active"  -> {"broken", "fulfilled", "expired", "cancelled"}
      [] status = "broken"  -> {"active", "fulfilled", "expired", "cancelled"}
      [] status = "expired" -> {"active", "fulfilled", "cancelled"}
      [] OTHER              -> {}

\* seen: active promises a statement found; late: another promise was made
\* for the invoice since.
RequestRecord == [pc : {"idle", "supersede", "create"}, inv : Invoices \cup {Null},
                  seen : SUBSET Promises, late : BOOLEAN]
IdleRequest == [pc |-> "idle", inv |-> Null, seen |-> {}, late |-> FALSE]

HandlerRecord == [pc : {"idle", "look", "keep", "find", "count", "fulfil"},
                  inv : Invoices \cup {Null}, seen : SUBSET Promises]
IdleHandler == [pc |-> "idle", inv |-> Null, seen |-> {}]

\* denied: the account had no access when the sweep chose its promises.
SweepRecord == [pc : {"idle", "promises", "mail", "tell", "arrangement"},
                todo : SUBSET Promises, denied : BOOLEAN,
                at : Promises \cup {Null}]
IdleSweep == [pc |-> "idle", todo |-> {}, denied |-> FALSE, at |-> Null]

Made == {p \in Promises : promise[p].status # "none"}
ActiveOn(i) == {p \in Promises : promise[p].inv = i /\ promise[p].status = "active"}
BrokenCount == Cardinality({p \in Promises : promise[p].status = "broken"})

With(ps, status) ==
    [p \in Promises |-> IF p \in ps THEN [promise[p] EXCEPT !.status = status]
                        ELSE promise[p]]

Fault == faults < MaxFaults /\ faults' = faults + 1

-----------------------------------------------------------------------------
(* A promise made by link.                                                 *)

\* The guards: not settled, and the debtor is below the retry limit.
Submit(r, i) ==
    /\ request[r].pc = "idle"
    /\ ~settled[i]
    /\ BrokenCount < RetryLimit
    /\ request' = [request EXCEPT ![r] = [IdleRequest EXCEPT !.pc = "supersede",
                                                             !.inv = i]]
    /\ UNCHANGED <<scene, settled, promise, latest, arrangement, access, handler,
                   sweep, change, heard, faults>>

\* The transaction's first statement finds the active promises ...
Supersede(r) ==
    /\ request[r].pc = "supersede"
    /\ request' = [request EXCEPT ![r].pc = "create",
                                  ![r].seen = ActiveOn(request[r].inv)]
    /\ UNCHANGED <<scene, settled, promise, latest, arrangement, access, handler,
                   sweep, change, heard, faults>>

\* Wrong on purpose (mutant of Superseded): not those whose date has passed.
SupersededAhead(r) ==
    {p \in request[r].seen \cap ActiveOn(request[r].inv) : ~promise[p].past}

\* ... and supersedes those that are still active when it writes them.
Superseded(r) == request[r].seen \cap ActiveOn(request[r].inv)

\* The commit, with the new promise; who else is at it has missed it.
Create(r) ==
    /\ request[r].pc = "create"
    /\ \E p \in Promises \ Made, i \in {request[r].inv} :
          /\ \A q \in Promises \ Made : p <= q
          /\ promise' = [With(Superseded(r), "superseded") EXCEPT ![p] =
                           [NoPromise EXCEPT !.inv = i, !.status = "active"]]
          /\ latest' = [latest EXCEPT ![i] = [promise |-> p, late |-> request[r].late]]
          /\ request' = [o \in Requests |->
                IF o = r THEN IdleRequest
                ELSE IF request[o].pc = "create" /\ request[o].inv = i
                     THEN [request[o] EXCEPT !.late = TRUE] ELSE request[o]]
    /\ UNCHANGED <<scene, settled, arrangement, access, handler, sweep, change,
                   heard, faults>>

AbortRequest(r) ==
    /\ request[r].pc # "idle"
    /\ request' = [request EXCEPT ![r] = IdleRequest]
    /\ UNCHANGED <<scene, settled, promise, latest, arrangement, access, handler,
                   sweep, change, heard, faults>>

-----------------------------------------------------------------------------
(* invoice.paid: statements in a row.  Stripe delivers at least once.      *)

Step(h, next) == handler' = [handler EXCEPT ![h].pc = next]

\* The invoice is marked paid first of all.
Deliver(h, i) ==
    /\ handler[h].pc = "idle"
    /\ settled' = [settled EXCEPT ![i] = TRUE]
    /\ handler' = [handler EXCEPT ![h] = [IdleHandler EXCEPT !.pc = "look",
                                                             !.inv = i]]
    /\ UNCHANGED <<scene, promise, latest, arrangement, access, request, sweep,
                   change, heard, faults>>

\* The update of its promises finds the active ones ...
LookForPromises(h) ==
    /\ handler[h].pc = "look"
    /\ handler' = [handler EXCEPT ![h].pc = "keep",
                                  ![h].seen = ActiveOn(handler[h].inv)]
    /\ UNCHANGED <<scene, settled, promise, latest, arrangement, access, request,
                   sweep, change, heard, faults>>

\* ... and keeps those that are still active when it writes them.
KeepPromises(h) ==
    /\ handler[h].pc = "keep"
    /\ promise' = With(handler[h].seen \cap ActiveOn(handler[h].inv), "kept")
    /\ handler' = [handler EXCEPT ![h].pc = "find", ![h].seen = {}]
    /\ UNCHANGED <<scene, settled, latest, arrangement, access, request, sweep,
                   change, heard, faults>>

\* It looks for an active arrangement of the invoice,
FindArrangement(h) ==
    /\ handler[h].pc = "find"
    /\ \/ /\ handler[h].inv \in Covered /\ arrangement.status = "active"
          /\ Step(h, "count")
       \/ /\ handler[h].inv \notin Covered \/ arrangement.status # "active"
          /\ handler' = [handler EXCEPT ![h] = IdleHandler]
    /\ UNCHANGED <<scene, settled, promise, latest, arrangement, access, request,
                   sweep, change, heard, faults>>

\* Wrong on purpose (mutant of Unresolved): an invoice counts as resolved only
\* after its own handler.
UnresolvedUntilHeard == {i \in Covered : i \notin heard}

Unresolved == {i \in Covered : ~settled[i]}

\* counts what is left of it,
CountUnresolved(h) ==
    /\ handler[h].pc = "count"
    /\ \/ /\ Unresolved = {}
          /\ Step(h, "fulfil")
          /\ UNCHANGED heard
       \/ /\ Unresolved # {}
          /\ handler' = [handler EXCEPT ![h] = IdleHandler]
          /\ heard' = heard \cup {i \in {handler[h].inv} : settled[i]}
    /\ UNCHANGED <<scene, settled, promise, latest, arrangement, access, request,
                   sweep, change, faults>>

\* and fulfils it, if it is still active.
Fulfil(h) ==
    /\ handler[h].pc = "fulfil"
    /\ arrangement' = [arrangement EXCEPT
          !.status = IF @ = "active" THEN "fulfilled" ELSE @]
    /\ handler' = [handler EXCEPT ![h] = IdleHandler]
    /\ heard' = heard \cup {i \in {handler[h].inv} : settled[i]}
    /\ UNCHANGED <<scene, settled, promise, latest, access, request, sweep,
                   change, faults>>

\* The handler dies; Stripe may deliver the event again.
AbortHandler(h) ==
    /\ handler[h].pc # "idle"
    /\ Fault
    /\ handler' = [handler EXCEPT ![h] = IdleHandler]
    /\ UNCHANGED <<scene, settled, promise, latest, arrangement, access, request,
                   sweep, change, heard>>

-----------------------------------------------------------------------------
(* The breach sweep: promises first, then arrangements.                    *)

\* Wrong on purpose (mutants of Due): what was broken is not told again; what
\* was told is told again.
DueActive == {p \in Promises :
    /\ promise[p].status = "active"
    /\ promise[p].past /\ ~promise[p].told /\ ~settled[promise[p].inv]}
DueTold == {p \in Promises :
    /\ promise[p].status \in {"active", "broken"}
    /\ promise[p].past /\ ~settled[promise[p].inv]}

\* Broken ones too, until the user was told.
Due == {p \in Promises :
    /\ promise[p].status \in {"active", "broken"}
    /\ promise[p].past /\ ~promise[p].told /\ ~settled[promise[p].inv]}

\* Wrong on purpose (mutant of Lapsed): only expiresAt is looked at.
LapsedUndated ==
    arrangement.status = "active" /\ ~arrangement.dated /\ arrangement.past

Lapsed == arrangement.status = "active" /\ arrangement.past

\* Which promises are due, and whether the account has access.
StartSweep(s) ==
    /\ sweep[s].pc = "idle"
    /\ Due # {} \/ Lapsed
    /\ sweep' = [sweep EXCEPT ![s] = [IdleSweep EXCEPT
          !.pc = "promises", !.todo = Due, !.denied = ~access]]
    /\ UNCHANGED <<scene, settled, promise, latest, arrangement, access, request,
                   handler, change, heard, faults>>

\* One promise after another: skipped without access, else broken, by id.
BreakPromise(s, p) ==
    /\ sweep[s].pc = "promises"
    /\ p \in sweep[s].todo
    /\ IF sweep[s].denied \/ ~access
       THEN sweep' = [sweep EXCEPT ![s].todo = @ \ {p}] /\ UNCHANGED promise
       ELSE /\ promise' = With({p}, "broken")
            /\ sweep' = [sweep EXCEPT ![s].pc = "mail", ![s].at = p,
                                      ![s].todo = @ \ {p}]
    /\ UNCHANGED <<scene, settled, latest, arrangement, access, request, handler,
                   change, heard, faults>>

\* Wrong on purpose (mutant of NextPromise): the step is not left.
NextPromiseStays(s) == sweep' = [sweep EXCEPT ![s].at = Null]

NextPromise(s) == sweep' = [sweep EXCEPT ![s].pc = "promises", ![s].at = Null]

\* The user is told, if there is access still; the mail may fail, and its
\* answer may be lost.
TellUser(s) ==
    /\ sweep[s].pc = "mail"
    /\ \/ ~access /\ NextPromise(s) /\ UNCHANGED <<promise, faults>>
       \/ access /\ NextPromise(s) /\ Fault /\ UNCHANGED promise
       \/ /\ access
          /\ promise' = [promise EXCEPT ![sweep[s].at].mails = @ + 1]
          /\ \/ sweep' = [sweep EXCEPT ![s].pc = "tell"] /\ UNCHANGED faults
             \/ NextPromise(s) /\ Fault
    /\ UNCHANGED <<scene, settled, latest, arrangement, access, request, handler,
                   change, heard>>

\* breachNotifiedAt; a failure is logged and the sweep goes on.
RecordTold(s) ==
    /\ sweep[s].pc = "tell"
    /\ \/ promise' = [promise EXCEPT ![sweep[s].at].told = TRUE] /\ UNCHANGED faults
       \/ Fault /\ UNCHANGED promise
    /\ NextPromise(s)
    /\ UNCHANGED <<scene, settled, latest, arrangement, access, request,
                   handler, change, heard>>

\* Then it looks whether the arrangement's date has passed,
FindLapsed(s) ==
    /\ sweep[s].pc = "promises"
    /\ sweep[s].todo = {}
    /\ sweep' = [sweep EXCEPT ![s] =
          IF Lapsed THEN [IdleSweep EXCEPT !.pc = "arrangement"] ELSE IdleSweep]
    /\ UNCHANGED <<scene, settled, promise, latest, arrangement, access, request,
                   handler, change, heard, faults>>

\* and ends it, by id.
EndArrangement(s) ==
    /\ sweep[s].pc = "arrangement"
    /\ arrangement' = [arrangement EXCEPT
          !.status = IF arrangement.dated THEN "broken" ELSE "expired"]
    /\ sweep' = [sweep EXCEPT ![s] = IdleSweep]
    /\ UNCHANGED <<scene, settled, promise, latest, access, request, handler, change,
                   heard, faults>>

AbortSweep(s) ==
    /\ sweep[s].pc # "idle"
    /\ Fault
    /\ sweep' = [sweep EXCEPT ![s] = IdleSweep]
    /\ UNCHANGED <<scene, settled, promise, latest, arrangement, access, request,
                   handler, change, heard>>

-----------------------------------------------------------------------------
(* The user, and time.                                                     *)

Forms == {"dated", "instalments"}

\* The route finds that the invoices can still be chased ...
RequestArrangement(form) ==
    /\ change = Null
    /\ arrangement.status = "none" /\ Covered # {}
    /\ \A i \in Covered : ~settled[i]
    /\ change' = form
    /\ UNCHANGED <<scene, settled, promise, latest, arrangement, access,
                   request, handler, sweep, heard, faults>>

\* ... and creates the arrangement; an instalment plan has no date.
Arrange ==
    /\ change \in Forms
    /\ arrangement' = [status |-> "active", dated |-> change = "dated", past |-> FALSE]
    /\ change' = Null
    /\ heard' = {}
    /\ UNCHANGED <<scene, settled, promise, latest, access, request, handler,
                   sweep, faults>>

\* The status route finds a transition allowed ...
RequestChange(status) ==
    /\ change = Null
    /\ status \in AllowedTransitions(arrangement.status)
    /\ change' = status
    /\ UNCHANGED <<scene, settled, promise, latest, arrangement, access, request,
                   handler, sweep, heard, faults>>

\* ... and updates by id; one marked expired expires now.
WriteChange ==
    /\ change \in ArrangementStatuses
    /\ arrangement' = [arrangement EXCEPT !.status = change,
          !.past = @ \/ (change = "expired" /\ ~arrangement.dated)]
    /\ change' = Null
    /\ heard' = IF change = "active" THEN {} ELSE heard
    /\ UNCHANGED <<scene, settled, promise, latest, access, request, handler,
                   sweep, faults>>

\* The user marks an invoice paid or resolved; the agreements stay.
Settle(i) ==
    /\ ~settled[i]
    /\ settled' = [settled EXCEPT ![i] = TRUE]
    /\ UNCHANGED <<scene, promise, latest, arrangement, access, request, handler,
                   sweep, change, heard, faults>>

\* A route that read the invoice before it was settled writes its status late.
Reopen(i) ==
    /\ settled[i]
    /\ settled' = [settled EXCEPT ![i] = FALSE]
    /\ heard' = heard \ {i}
    /\ UNCHANGED <<scene, promise, latest, arrangement, access, request, handler,
                   sweep, change, faults>>

\* Only promises ask for it.
ChangeAccess ==
    /\ Linked # {}
    /\ access' = ~access
    /\ UNCHANGED <<scene, settled, promise, latest, arrangement, request, handler,
                   sweep, change, heard, faults>>

PromiseDatePasses(p) ==
    /\ promise[p].status # "none" /\ ~promise[p].past
    /\ promise' = [promise EXCEPT ![p].past = TRUE]
    /\ UNCHANGED <<scene, settled, latest, arrangement, access, request, handler,
                   sweep, change, heard, faults>>

ArrangementDatePasses ==
    /\ arrangement.status # "none" /\ arrangement.dated /\ ~arrangement.past
    /\ arrangement' = [arrangement EXCEPT !.past = TRUE]
    /\ UNCHANGED <<scene, settled, promise, latest, access, request, handler, sweep,
                   change, heard, faults>>

-----------------------------------------------------------------------------
Init ==
    /\ scene \in Scenes
    /\ settled = [i \in Invoices |-> FALSE]
    /\ promise = [p \in Promises |-> NoPromise]
    /\ latest = [i \in Invoices |-> [promise |-> Null, late |-> FALSE]]
    /\ arrangement = [status |-> "none", dated |-> FALSE, past |-> FALSE]
    /\ access = TRUE
    /\ request = [r \in Requests |-> IdleRequest]
    /\ handler = [h \in Handlers |-> IdleHandler]
    /\ sweep = [s \in Sweeps |-> IdleSweep]
    /\ change = Null
    /\ heard = {}
    /\ faults = 0

SweepStep(s) ==
    \/ \E p \in Promises : BreakPromise(s, p)
    \/ TellUser(s) \/ RecordTold(s) \/ FindLapsed(s) \/ EndArrangement(s)

Next ==
    \/ \E r \in Requests :
          \/ \E i \in Linked : r \in scene.submissions /\ Submit(r, i)
          \/ Supersede(r) \/ Create(r) \/ AbortRequest(r)
    \/ \E h \in Handlers :
          \/ \E i \in Linked \cup Covered : h \in scene.deliveries /\ Deliver(h, i)
          \/ LookForPromises(h) \/ KeepPromises(h) \/ FindArrangement(h)
          \/ CountUnresolved(h) \/ Fulfil(h) \/ AbortHandler(h)
    \/ \E s \in Sweeps :
          \/ s \in scene.runs /\ StartSweep(s)
          \/ SweepStep(s) \/ AbortSweep(s)
    \/ \E form \in Forms : RequestArrangement(form)
    \/ Arrange
    \/ \E status \in ArrangementStatuses : RequestChange(status)
    \/ WriteChange
    \/ \E i \in Linked \cup Covered : Settle(i) \/ Reopen(i)
    \/ ChangeAccess
    \/ \E p \in Promises : PromiseDatePasses(p)
    \/ ArrangementDatePasses

Spec == Init /\ [][Next]_vars

\* Beat starts the sweep again and again, and it runs on; dates pass.
Fairness ==
    /\ \A s \in Sweeps :
          /\ WF_vars(s \in scene.runs /\ StartSweep(s))
          /\ WF_vars(SweepStep(s))
    /\ \A p \in Promises : WF_vars(PromiseDatePasses(p))
    /\ WF_vars(ArrangementDatePasses)

FairSpec == Spec /\ Fairness

-----------------------------------------------------------------------------
(* Properties.                                                             *)

\* Every variable has its type; a sweep past a promise's turn is at it.
TypeOK ==
    /\ scene \in Scenes
    /\ settled \in [Invoices -> BOOLEAN]
    /\ promise \in [Promises -> PromiseRecord]
    /\ latest \in [Invoices -> [promise : Promises \cup {Null}, late : BOOLEAN]]
    /\ arrangement \in ArrangementRecord
    /\ access \in BOOLEAN
    /\ request \in [Requests -> RequestRecord]
    /\ handler \in [Handlers -> HandlerRecord]
    /\ sweep \in [Sweeps -> SweepRecord]
    /\ \A s \in Sweeps : sweep[s].pc \in {"mail", "tell"} => sweep[s].at \in Promises
    /\ change \in ArrangementStatuses \cup Forms \cup {Null}
    /\ heard \in SUBSET Covered
    /\ faults \in Nat

\* Only the latest promise for an invoice can be active, unless another was
\* made while its transaction ran: whatever Stripe and the sweep do meanwhile.
LatestPromiseStands ==
    \A i \in Invoices : ~latest[i].late => ActiveOn(i) \subseteq {latest[i].promise}

\* An arrangement whose invoices Stripe has all reported paid, in any order and
\* by overlapping deliveries, is not left active: the last to count sees all.
PaidArrangementEnds ==
    heard = Covered /\ Covered # {} => arrangement.status # "active"

\* The user is told of a broken promise once by each overlapping sweep at most,
\* and once more for a mail whose record was lost.
BreachToldSparingly ==
    \A p \in Promises : promise[p].mails <= Cardinality(Sweeps) + faults

\* A promise whose breach the user was mailed about is broken and past its date,
\* and one recorded as told was mailed, though the sweep works from a list that
\* submissions and payments have overtaken.
NoticesAreTrue ==
    \A p \in Promises :
        /\ promise[p].mails > 0 => promise[p].status = "broken"
        /\ promise[p].status = "broken" => promise[p].past
        /\ promise[p].told => promise[p].mails > 0

\* A promise that has ended is not revived, and a broken one stays broken.  A
\* sweep may break one that was kept or superseded after the sweep chose it.
EndedPromisesStay ==
    [][\A p \in Promises :
          /\ promise[p].status = "broken" => promise'[p].status = "broken"
          /\ promise[p].status \in {"kept", "superseded"} =>
                \/ promise'[p].status = promise[p].status
                \/ promise'[p].status = "broken" /\ \E s \in Sweeps : p \in sweep[s].todo]_vars

\* A breach that is still the user's to know is told in the end, however often
\* access was withdrawn before, mails failed or a sweep died half way.
Owed(p) ==
    /\ promise[p].status \in {"active", "broken"} /\ promise[p].past
    /\ ~promise[p].told /\ ~settled[promise[p].inv] /\ access
BreachIsTold == \A p \in Promises : []<>~Owed(p)

\* No agreement with a date holds the reminders of its invoices back for ever:
\* each promise ends when its date has passed, unless access is withdrawn again
\* and again or its invoice is settled; and so does an arrangement, the user who
\* makes it active again included.  A debtor who promises anew before each date
\* does hold them back, as only broken promises count to the retry limit.
AgreementsEnd ==
    /\ \A p \in Promises :
          []<>~(promise[p].status = "active" /\ access /\ ~settled[promise[p].inv])
    /\ []<>~(arrangement.status = "active" /\ arrangement.dated)
=============================================================================
