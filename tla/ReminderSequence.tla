-------------------------- MODULE ReminderSequence --------------------------
(***************************************************************************)
(* The reminder sequence of the tracked invoices of one account: the       *)
(* Next.js job that sends the next stage of an invoice                     *)
(* (lib/email/sendReminderForInvoice.ts, lib/email/send.ts), any number of *)
(* executions of it at once, the email provider with its idempotency keys, *)
(* and everything that changes an invoice under the feet of a running job: *)
(* the invoice routes, the snooze sweep, the Stripe "paid" webhook,        *)
(* promises, arrangements, effective access, days and billing periods.     *)
(*                                                                         *)
(* An execution holds the account's advisory lock only as long as its      *)
(* database transaction lives.  The transaction has a deadline; the email  *)
(* log and the provider are reached over other connections, so an          *)
(* execution whose transaction is gone still mails and still logs.         *)
(***************************************************************************)
EXTENDS Integers, FiniteSets

CONSTANTS
    Invoices,        \* the account's tracked invoices
    Undeliverable,   \* those whose recipient domain is reserved (.test, ...)
    Jobs,            \* execution slots of the send-reminder job
    Requests,        \* slots of concurrent invoice route requests
    Routes,          \* the invoice routes users call
    Agreements,      \* kinds of agreement clients make: promise, arrangement
    Allowance,       \* first chases the plan allows per billing period
    Offset,          \* Offset[s]: days after the due date of stage s
    Tone, Timing,    \* the escalation policy's two switches
    Threshold,       \* broken promises that make a debtor high risk
    RetryLimit,      \* broken promises after which the link takes no more
    P2P,             \* the plan includes promise-to-pay links
    MaxDay,          \* bound: last day of the run
    MaxPeriod,       \* bound: last billing period of the run
    Null             \* no value

Stages == 1..3
Statuses == {"pending", "paused", "snoozed", "disputed",
             "paid", "manually_resolved", "sequence_complete"}
Settled == {"paid", "manually_resolved"}
RouteNames == {"pause", "resume", "snooze", "cancel-snooze", "dispute",
               "resolve-dispute", "resolve", "mark-paid"}

ASSUME ReminderAssumption ==
    /\ Undeliverable \subseteq Invoices
    /\ Routes \subseteq RouteNames
    /\ Agreements \subseteq {"promise", "arrangement"}
    /\ Allowance \in Nat
    /\ Offset \in [Stages -> Int]
    /\ {Tone, Timing, P2P} \subseteq BOOLEAN
    /\ {Threshold, RetryLimit} \subseteq Nat \ {0}
    /\ {MaxDay, MaxPeriod} \subseteq Nat \ {0}
    /\ IsFiniteSet(Invoices)
    /\ Null \notin Invoices \cup Jobs \cup Int

VARIABLES
    status, currentStage, nextEmailAt, firstChasedAt, p2pToken, \* TrackedInvoice
    emailLog,      \* emailLog[i]: stages with an EmailLog row
    keys,          \* idempotency keys the provider remembers
    delivered,     \* delivered[i][s]: emails the provider took for delivery
    agreed,        \* agreed[i]: kinds of active agreement on invoice i
    broken,        \* broken promises of the account's debtor
    access,        \* the account has effective access
    today, period, \* the day, the billing period
    lock,          \* execution whose transaction holds the advisory lock
    job,           \* job[j]: an execution of sendReminderForInvoice
    request        \* request[r]: an invoice route between read and write

invoiceVars == <<status, currentStage, nextEmailAt, firstChasedAt, p2pToken>>
mailVars == <<emailLog, keys, delivered>>
accountVars == <<agreed, broken, access, today, period>>
vars == <<invoiceVars, mailVars, accountVars, lock, job, request>>

-----------------------------------------------------------------------------
(* Executions and requests.                                                *)

Steps == {"idle", "wait", "gate", "dedup", "send", "log", "advance"}
Outcomes == {"none", "sent", "skipped", "held", "error"}

JobRecord == [pc : Steps, inv : Invoices \cup {Null}, from : 0..3,
              target : 0..3, risky : BOOLEAN, token : Jobs \cup {Null},
              outcome : Outcomes]

\* An execution slot before any work, and at rest with its last outcome.
Slot(step, i, o) == [pc |-> step, inv |-> i, from |-> 0, target |-> 0,
                     risky |-> FALSE, token |-> Null, outcome |-> o]
Resting(o) == Slot("idle", Null, o)

RequestRecord == [route : RouteNames \cup {Null}, inv : Invoices \cup {Null}]
NoRequest == [route |-> Null, inv |-> Null]

\* Statuses from which a route accepts an invoice, and the one it writes.
RouteFrom(route) ==
    CASE route \in {"pause", "snooze"} -> {"pending"}
      [] route = "resume"              -> {"paused"}
      [] route = "cancel-snooze"       -> {"snoozed"}
      [] route = "dispute"             -> Statuses \ (Settled \cup {"disputed"})
      [] route = "resolve-dispute"     -> {"disputed"}
      [] route = "mark-paid"           -> Statuses \ Settled
      [] route = "resolve"             -> Statuses
RouteTo(route) ==
    CASE route = "pause"     -> "paused"
      [] route = "snooze"    -> "snoozed"
      [] route = "dispute"   -> "disputed"
      [] route = "resolve"   -> "manually_resolved"
      [] route = "mark-paid" -> "paid"
      [] route \in {"resume", "cancel-snooze", "resolve-dispute"} -> "pending"

-----------------------------------------------------------------------------
(* The rules of the sequence.                                              *)

HighRisk == broken >= Threshold

\* Wrong on purpose (mutants of TargetStage): no cap; no policy switch.
TargetStageUncapped(from) == IF Tone /\ HighRisk THEN from + 2 ELSE from + 1
TargetStageAlways(from) == IF HighRisk /\ from < 2 THEN from + 2 ELSE from + 1

\* Tone escalation skips one stage for a high-risk debtor, never past 3.
TargetStage(from) ==
    IF Tone /\ HighRisk /\ from < 2 THEN from + 2 ELSE from + 1

\* Timing escalation sends the next stage two days earlier.
NextEmailDay(stage, risky) ==
    Offset[stage] - (IF Timing /\ risky THEN 2 ELSE 0)

Usage == Cardinality({i \in Invoices : firstChasedAt[i] = period})

Eligible(i) ==
    /\ status[i] = "pending"
    /\ currentStage[i] < 3
    /\ nextEmailAt[i] # Null
    /\ nextEmailAt[i] <= today

\* Wrong on purpose (mutant of Refusal): one first chase too many.
RefusalOffByOne(i, from) ==
    CASE ~access \/ agreed[i] # {}         -> "skipped"
      [] access /\ agreed[i] = {} /\ from = 0 /\ Usage > Allowance -> "held"
      [] OTHER                             -> "none"

\* What stops a reminder after the invoice was found eligible.
Refusal(i, from) ==
    CASE ~access \/ agreed[i] # {}         -> "skipped"
      [] access /\ agreed[i] = {} /\ from = 0 /\ Usage >= Allowance -> "held"
      [] OTHER                             -> "none"

-----------------------------------------------------------------------------
(* The steps of an execution.                                              *)

\* Wrong on purpose (mutant of Finish): the lock survives its transaction.
FinishLeaks(j, o) ==
    /\ job' = [job EXCEPT ![j] = Resting(o)]
    /\ lock' = lock

\* The execution returns or dies; its transaction, if it lives, ends.
Finish(j, o) ==
    /\ job' = [job EXCEPT ![j] = Resting(o)]
    /\ lock' = IF lock = j THEN Null ELSE lock

Goto(j, step) == job' = [job EXCEPT ![j].pc = step]

\* Wrong on purpose (mutant of InTransaction): the deadline goes unnoticed.
InTransactionAlways(j) == job[j].pc # "idle"

\* The execution's transaction is still there to be used.
InTransaction(j) == lock = j

StartJob(j, i) ==
    /\ job[j].pc = "idle"
    /\ job' = [job EXCEPT ![j] = Slot("wait", i, "none")]
    /\ UNCHANGED <<invoiceVars, mailVars, accountVars, lock, request>>

\* Wrong on purpose (mutant of ReadInvoice): whoever scheduled the job is trusted.
ReadInvoiceOnTrust(j) ==
    /\ job[j].pc = "wait"
    /\ lock = Null
    /\ lock' = j
    /\ job' = [job EXCEPT ![j].pc = "gate",
                          ![j].from = currentStage[job[j].inv],
                          ![j].token = p2pToken[job[j].inv]]
    /\ UNCHANGED <<invoiceVars, mailVars, accountVars, request>>

\* Under the advisory lock: read the invoice, leave it unless it is due.
ReadInvoice(j) ==
    /\ job[j].pc = "wait"
    /\ lock = Null
    /\ LET i == job[j].inv IN
       \/ /\ Eligible(i)
          /\ lock' = j
          /\ job' = [job EXCEPT ![j].pc = "gate",
                                ![j].from = currentStage[i],
                                ![j].token = p2pToken[i]]
       \/ /\ ~Eligible(i)
          /\ Finish(j, "skipped")
    /\ UNCHANGED <<invoiceVars, mailVars, accountVars, request>>

\* Access, agreements, allowance and escalation; all reads of the transaction.
Gate(j) ==
    /\ job[j].pc = "gate"
    /\ LET refusal == Refusal(job[j].inv, job[j].from) IN
       \/ /\ ~InTransaction(j)
          /\ Finish(j, "error")
       \/ /\ InTransaction(j) /\ refusal # "none"
          /\ Finish(j, refusal)
       \/ /\ InTransaction(j) /\ refusal = "none"
          /\ job' = [job EXCEPT ![j].pc = "dedup",
                                ![j].target = TargetStage(job[j].from),
                                ![j].risky = HighRisk]
          /\ UNCHANGED lock
    /\ UNCHANGED <<invoiceVars, mailVars, accountVars, request>>

\* sendFollowUpEmail: a logged stage is not sent again, the caller advances.
\* A plan with promise links writes a token if the invoice it read had none.
Dedup(j) ==
    /\ job[j].pc = "dedup"
    /\ LET i == job[j].inv IN
       \/ /\ ~access
          /\ Finish(j, "skipped")
          /\ UNCHANGED p2pToken
       \/ /\ access /\ job[j].target \in emailLog[i]
          /\ Goto(j, "advance")
          /\ UNCHANGED <<lock, p2pToken>>
       \/ /\ access /\ job[j].target \notin emailLog[i]
          /\ Goto(j, "send")
          /\ p2pToken' = IF P2P /\ job[j].token = Null
                         THEN [p2pToken EXCEPT ![i] = j] ELSE p2pToken
          /\ UNCHANGED lock
    /\ UNCHANGED <<status, currentStage, nextEmailAt, firstChasedAt,
                   mailVars, accountVars, request>>

\* Wrong on purpose (mutant of ProviderAccepts): a key per attempt.
ProviderAcceptsAgain(i, s) ==
    /\ keys' = keys \cup {<<i, s>>}
    /\ delivered' = [delivered EXCEPT ![i][s] = @ + 1]

\* The provider takes an email unless it remembers the idempotency key.
ProviderAccepts(i, s) ==
    /\ keys' = keys \cup {<<i, s>>}
    /\ delivered' = IF <<i, s>> \in keys THEN delivered
                    ELSE [delivered EXCEPT ![i][s] = @ + 1]

\* Wrong on purpose (mutant of SendFails): the error goes unnoticed.
SendFailsSilently(j) == Goto(j, "log") /\ UNCHANGED <<mailVars, lock>>

SendFails(j) == Finish(j, "error") /\ UNCHANGED mailVars

\* The provider call, after a last access check.  The call may fail without
\* effect (also when a known key comes with another payload), and its answer
\* may be lost after the provider took the email.
Send(j) ==
    /\ job[j].pc = "send"
    /\ LET i == job[j].inv  s == job[j].target IN
       \/ /\ ~access
          /\ Finish(j, "skipped")
          /\ UNCHANGED mailVars
       \/ /\ access /\ i \in Undeliverable
          /\ emailLog' = [emailLog EXCEPT ![i] = @ \cup {s}]
          /\ Goto(j, "advance")
          /\ UNCHANGED <<keys, delivered, lock>>
       \/ /\ access /\ i \notin Undeliverable
          /\ ProviderAccepts(i, s)
          /\ \/ Goto(j, "log") /\ UNCHANGED lock
             \/ Finish(j, "error")
          /\ UNCHANGED emailLog
       \/ access /\ SendFails(j)
    /\ UNCHANGED <<invoiceVars, accountVars, request>>

\* The log row commits on its own; losing the race for it counts as sent.
Log(j) ==
    /\ job[j].pc = "log"
    /\ \/ /\ emailLog' = [emailLog EXCEPT ![job[j].inv] = @ \cup {job[j].target}]
          /\ Goto(j, "advance")
          /\ UNCHANGED lock
       \/ /\ Finish(j, "error")
          /\ UNCHANGED emailLog
    /\ UNCHANGED <<invoiceVars, keys, delivered, accountVars, request>>

\* Wrong on purpose (mutant of FirstCharge): every stage is a first chase.
FirstChargeAlways(j) == [firstChasedAt EXCEPT ![job[j].inv] = period]

FirstCharge(j) ==
    IF job[j].from = 0 THEN [firstChasedAt EXCEPT ![job[j].inv] = period]
    ELSE firstChasedAt

\* The update, by id alone, and the commit; without a transaction an error.
Advance(j) ==
    /\ job[j].pc = "advance"
    /\ LET i == job[j].inv  s == job[j].target IN
       \/ /\ ~InTransaction(j)
          /\ Finish(j, "error")
          /\ UNCHANGED <<status, currentStage, nextEmailAt, firstChasedAt>>
       \/ /\ InTransaction(j)
          /\ currentStage' = [currentStage EXCEPT ![i] = s]
          /\ status' = IF s = 3 THEN [status EXCEPT ![i] = "sequence_complete"]
                       ELSE status
          /\ nextEmailAt' = [nextEmailAt EXCEPT ![i] =
                               IF s = 3 THEN Null
                               ELSE NextEmailDay(s + 1, job[j].risky)]
          /\ firstChasedAt' = FirstCharge(j)
          /\ Finish(j, "sent")
    /\ UNCHANGED <<p2pToken, mailVars, accountVars, request>>

\* The transaction's deadline passes: it rolls back and the lock is free, but
\* the execution goes on until its next use of the transaction.
TxTimeout(j) ==
    /\ lock = j
    /\ lock' = Null
    /\ UNCHANGED <<invoiceVars, mailVars, accountVars, job, request>>

\* The instance dies, or the wait for the lock outlasts the transaction.
Abort(j) ==
    /\ job[j].pc # "idle"
    /\ Finish(j, "error")
    /\ UNCHANGED <<invoiceVars, mailVars, accountVars, request>>

-----------------------------------------------------------------------------
(* Users, clients, sweeps and time.                                        *)

\* A route finds the invoice in a status it accepts ...
RouteRead(r, route, i) ==
    /\ request[r] = NoRequest
    /\ status[i] \in RouteFrom(route)
    /\ request' = [request EXCEPT ![r] = [route |-> route, inv |-> i]]
    /\ UNCHANGED <<invoiceVars, mailVars, accountVars, lock, job>>

\* ... and updates it by id, whatever happened in between.
RouteWrite(r) ==
    /\ request[r] # NoRequest
    /\ status' = [status EXCEPT ![request[r].inv] = RouteTo(request[r].route)]
    /\ request' = [request EXCEPT ![r] = NoRequest]
    /\ UNCHANGED <<currentStage, nextEmailAt, firstChasedAt, p2pToken,
                   mailVars, accountVars, lock, job>>

\* The snooze sweep; how long a snooze lasts is abstracted away.
ResumeSnoozed(i) ==
    /\ status[i] = "snoozed"
    /\ status' = [status EXCEPT ![i] = "pending"]
    /\ UNCHANGED <<currentStage, nextEmailAt, firstChasedAt, p2pToken,
                   mailVars, accountVars, lock, job, request>>

\* Stripe reports the invoice paid, again perhaps: three updates in a row.  The
\* handler may die after the first; the promise is kept by the second, and the
\* third fulfils the arrangement if this was its last open invoice.
StripePaid(i) ==
    /\ status' = [status EXCEPT ![i] = "paid"]
    /\ \E left \in {agreed[i], agreed[i] \ {"promise"}, {}} :
          agreed' = [agreed EXCEPT ![i] = left]
    /\ UNCHANGED <<currentStage, nextEmailAt, firstChasedAt, p2pToken, mailVars,
                   broken, access, today, period, lock, job, request>>

\* A client or the user makes an agreement; the promise page needs its link.
Agree(i, kind) ==
    /\ kind \notin agreed[i]
    /\ \/ /\ kind = "promise"
          /\ p2pToken[i] # Null
          /\ status[i] \notin Settled
          /\ broken < RetryLimit
       \/ /\ kind = "arrangement"
          /\ status[i] \in {"pending", "paused", "snoozed", "sequence_complete"}
    /\ agreed' = [agreed EXCEPT ![i] = @ \cup {kind}]
    /\ UNCHANGED <<invoiceVars, mailVars, broken, access, today, period,
                   lock, job, request>>

\* The breach sweep: a promise passes its date on an unsettled invoice.
BreakPromise(i) ==
    /\ "promise" \in agreed[i]
    /\ status[i] \notin Settled
    /\ agreed' = [agreed EXCEPT ![i] = @ \ {"promise"}]
    /\ broken' = broken + 1
    /\ UNCHANGED <<invoiceVars, mailVars, access, today, period,
                   lock, job, request>>

\* An arrangement is breached, expires, is cancelled or fulfilled.
EndArrangement(i) ==
    /\ "arrangement" \in agreed[i]
    /\ agreed' = [agreed EXCEPT ![i] = @ \ {"arrangement"}]
    /\ UNCHANGED <<invoiceVars, mailVars, broken, access, today, period,
                   lock, job, request>>

\* Billing grants or withdraws the account's effective access.
ChangeAccess ==
    /\ access' = ~access
    /\ UNCHANGED <<invoiceVars, mailVars, agreed, broken, today, period,
                   lock, job, request>>

NextDay ==
    /\ today < MaxDay
    /\ today' = today + 1
    /\ UNCHANGED <<invoiceVars, mailVars, agreed, broken, access, period,
                   lock, job, request>>

NextPeriod ==
    /\ period < MaxPeriod
    /\ period' = period + 1
    /\ UNCHANGED <<invoiceVars, mailVars, agreed, broken, access, today,
                   lock, job, request>>

-----------------------------------------------------------------------------
Init ==
    /\ status = [i \in Invoices |-> "pending"]
    /\ currentStage = [i \in Invoices |-> 0]
    /\ nextEmailAt = [i \in Invoices |-> Offset[1]]
    /\ firstChasedAt = [i \in Invoices |-> 0]
    /\ p2pToken = [i \in Invoices |-> Null]
    /\ emailLog = [i \in Invoices |-> {}]
    /\ keys = {}
    /\ delivered = [i \in Invoices |-> [s \in Stages |-> 0]]
    /\ agreed = [i \in Invoices |-> {}]
    /\ broken = 0
    /\ access = TRUE
    /\ today = 0
    /\ period = 1
    /\ lock = Null
    /\ job = [j \in Jobs |-> Resting("none")]
    /\ request = [r \in Requests |-> NoRequest]

JobStep(j) ==
    ReadInvoice(j) \/ Gate(j) \/ Dedup(j) \/ Send(j) \/ Log(j) \/ Advance(j)

Environment ==
    \/ \E r \in Requests, route \in Routes, i \in Invoices : RouteRead(r, route, i)
    \/ \E r \in Requests : RouteWrite(r)
    \/ \E i \in Invoices : ResumeSnoozed(i) \/ StripePaid(i)
    \/ \E i \in Invoices, kind \in Agreements : Agree(i, kind)
    \/ \E i \in Invoices : BreakPromise(i) \/ EndArrangement(i)
    \/ ChangeAccess
    \/ NextDay
    \/ NextPeriod

Next ==
    \/ \E j \in Jobs, i \in Invoices : StartJob(j, i)
    \/ \E j \in Jobs : JobStep(j) \/ TxTimeout(j) \/ Abort(j)
    \/ Environment

Spec == Init /\ [][Next]_vars

\* An execution that is not killed runs on; Postgres serves the waiters of an
\* advisory lock in turn.  Users, clients and crashes owe nothing.
Fairness ==
    \A j \in Jobs :
        /\ SF_vars(ReadInvoice(j))
        /\ WF_vars(Gate(j) \/ Dedup(j) \/ Send(j) \/ Log(j) \/ Advance(j))

FairSpec == Spec /\ Fairness
-----------------------------------------------------------------------------
(* Properties.                                                             *)

TypeOK ==
    /\ status \in [Invoices -> Statuses]
    /\ currentStage \in [Invoices -> 0..3]
    /\ nextEmailAt \in [Invoices -> Int \cup {Null}]
    /\ firstChasedAt \in [Invoices -> Nat]
    /\ p2pToken \in [Invoices -> Jobs \cup {Null}]
    /\ emailLog \in [Invoices -> SUBSET Stages]
    /\ keys \subseteq Invoices \X Stages
    /\ delivered \in [Invoices -> [Stages -> Nat]]
    /\ agreed \in [Invoices -> SUBSET {"promise", "arrangement"}]
    /\ broken \in Nat
    /\ access \in BOOLEAN
    /\ today \in Nat
    /\ period \in Nat \ {0}
    /\ lock \in Jobs \cup {Null}
    /\ job \in [Jobs -> JobRecord]
    /\ request \in [Requests -> RequestRecord]

\* The client gets the email of a stage at most once, however many executions
\* crash after the provider took it, outlive their lock or run again
\* (sendFollowUpEmail's log check and idempotency key).
AtMostOneEmailPerStage ==
    \A i \in Invoices, s \in Stages : delivered[i][s] <= 1

\* The history never claims what did not happen: a logged stage was taken by
\* the provider or is on an address that is never mailed, and an invoice
\* stands at a stage only if that stage is logged.
HistoryIsTrue ==
    \A i \in Invoices :
        /\ i \notin Undeliverable => \A s \in emailLog[i] : delivered[i][s] > 0
        /\ i \in Undeliverable => \A s \in Stages : delivered[i][s] = 0
        /\ currentStage[i] # 0 => currentStage[i] \in emailLog[i]

\* No period charges more first chases than the plan allows, also when
\* executions for several invoices of the account overlap (the advisory lock
\* of sendReminderForInvoice).
ChargesWithinAllowance == Usage <= Allowance

\* The stages of an invoice the provider may still be given, although the
\* invoice is not read again: by executions past the gate, or about to pass it.
Coming(i) ==
    {s \in Stages :
        /\ <<i, s>> \notin keys
        /\ \E j \in Jobs :
              /\ job[j].inv = i
              /\ \/ job[j].pc \in {"dedup", "send"} /\ job[j].target = s
                 \/ /\ job[j].pc = "gate" /\ lock = j
                    /\ s = job[j].from + 1 \/ (Tone /\ s = job[j].from + 2)}

\* At most one stage of an invoice is on its way to the client and not yet
\* taken by the provider, however many executions work on the invoice.  Tone
\* escalation gives up this bound: an execution that outlived its lock may hold
\* stage 1 while its successor sends stage 2.
OneReminderInFlight ==
    ~Tone => \A i \in Invoices \ Undeliverable : Cardinality(Coming(i)) <= 1

\* Every email is one that was on its way, and none sets out for an invoice that
\* is not due.  So when an invoice stops being chased (paid, disputed, paused)
\* the client gets at most what is on its way then: one email, by
\* OneReminderInFlight.
StoppedStaysQuiet ==
    [][\A i \in Invoices :
          /\ \A s \in Stages : delivered'[i][s] > delivered[i][s] => s \in Coming(i)
          /\ ~Eligible(i) => Coming(i)' \subseteq Coming(i)]_vars

\* No execution moves an invoice back in its sequence, not even one that read
\* the invoice long before others advanced it.
StageNeverGoesBack ==
    [][\A i \in Invoices : currentStage'[i] >= currentStage[i]]_vars

\* An invoice is charged to the allowance once, in the period of its first
\* chase, and never again (openspec chase-volume-entitlement).
ChargedOnce ==
    [][\A i \in Invoices :
          firstChasedAt[i] # 0 => firstChasedAt'[i] = firstChasedAt[i]]_vars

\* The account's lock is not leaked: a transaction commits, fails or times out.
LockIsReleased == \A j \in Jobs : lock = j ~> lock # j

\* Every execution that starts comes to an end, whatever the others do.
ExecutionsEnd == \A j \in Jobs : job[j].pc # "idle" ~> job[j].pc = "idle"

\* The sequence implements its contract: every step is a delivery the contract
\* allows or leaves the client's mailbox alone.
Contract == INSTANCE ReminderContract
              WITH Reachable <- Invoices \ Undeliverable, InOrder <- ~Tone
KeepsContract == Contract!Spec
=============================================================================
