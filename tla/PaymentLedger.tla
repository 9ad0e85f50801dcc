--------------------------- MODULE PaymentLedger ---------------------------
(***************************************************************************)
(* The ledger of an invoice's payments (lib/invoices/payments.ts): every   *)
(* way money is applied to an invoice appends a row, and the invoice       *)
(* becomes "paid" when the rows cover what was due.  Requests overlap;     *)
(* their transactions are READ COMMITTED, so each reads what others have   *)
(* committed and none sees what others are about to.                       *)
(*                                                                         *)
(* One invoice.  The rows are never changed, so the ledger is their sum.   *)
(***************************************************************************)
EXTENDS Integers

CONSTANTS
    Requests,   \* requests that can run at the same time
    MaxAmount,  \* bound: cents of the invoice and of one payment
    MaxFaults   \* bound: requests that fail

VARIABLES
    due,      \* amountDueCents, fixed for an invoice from a file
    total,    \* sum of the invoice's committed payments
    status,   \* of the TrackedInvoice
    request,  \* request[r]: where a request is
    faults    \* failed requests so far

vars == <<due, total, status, request, faults>>

Amounts == 1..MaxAmount
Terminal == {"paid", "manually_resolved"}
Kinds == {"payment", "mark-paid", "admin", "import"}

\* reported: what an imported file says is left to pay.
RequestRecord ==
    [pc : {"idle", "balance", "prior", "write", "mark"}, kind : Kinds,
     amount : Int, reported : Int, prior : Int]
IdleRequest == [pc |-> "idle", kind |-> "payment", amount |-> 0, reported |-> 0, prior |-> 0]

\* computeOutstanding
Outstanding == IF total >= due THEN 0 ELSE due - total

Covers(r) == request[r].amount >= request[r].prior

\* Everything but the administrator's request is one transaction.
InTransaction(r) == request[r].kind # "admin"

\* An import updates the invoice before it records: others wait for its row.
Locked(r) == \E o \in Requests \ {r} : request[o].kind = "import" /\ request[o].pc = "write"

Leave(r) == request' = [request EXCEPT ![r] = IdleRequest]

-----------------------------------------------------------------------------
\* The route finds the invoice, if it is still payable.
FindInvoice(r, kind, amount, reported) ==
    /\ request[r].pc = "idle"
    /\ status \notin Terminal
    /\ request' = [request EXCEPT ![r] =
          [pc |-> IF kind = "payment" THEN "prior" ELSE "balance", kind |-> kind,
           amount |-> amount, reported |-> reported, prior |-> 0]]
    /\ UNCHANGED <<due, total, status, faults>>

\* All but a payment of a given amount pay what is left, an import down to
\* what the file reports; nothing left, or more than expected, is refused.
ReadBalance(r) ==
    LET left == IF request[r].kind = "import" THEN request[r].reported ELSE 0 IN
    /\ request[r].pc = "balance"
    /\ IF Outstanding > left
       THEN request' = [request EXCEPT ![r].pc = "prior",
                                       ![r].amount = Outstanding - left]
       ELSE Leave(r)
    /\ UNCHANGED <<due, total, status, faults>>

\* recordInvoicePayment reads the prior payments (again),
ReadPrior(r) ==
    /\ request[r].pc = "prior"
    /\ request[r].kind = "import" => ~Locked(r)
    /\ request' = [request EXCEPT ![r].pc = "write", ![r].prior = Outstanding]
    /\ UNCHANGED <<due, total, status, faults>>

\* appends its own, and marks the invoice if the two cover what was due.
Record(r) ==
    /\ request[r].pc = "write"
    /\ InTransaction(r) /\ Covers(r) => ~Locked(r)
    /\ total' = total + request[r].amount
    /\ IF InTransaction(r)
       THEN status' = (IF Covers(r) THEN "paid" ELSE status) /\ Leave(r)
       ELSE /\ IF Covers(r) THEN request' = [request EXCEPT ![r].pc = "mark"] ELSE Leave(r)
            /\ UNCHANGED status
    /\ UNCHANGED <<due, faults>>

\* The administrator's update is a statement of its own.
MarkPaid(r) ==
    /\ request[r].pc = "mark"
    /\ ~Locked(r)
    /\ status' = "paid"
    /\ Leave(r)
    /\ UNCHANGED <<due, total, faults>>

\* A request fails; a transaction is rolled back.
Abort(r) ==
    /\ request[r].pc # "idle"
    /\ faults < MaxFaults
    /\ faults' = faults + 1
    /\ Leave(r)
    /\ UNCHANGED <<due, total, status>>

Init ==
    /\ due \in Amounts
    /\ total = 0
    /\ status = "pending"
    /\ request = [r \in Requests |-> IdleRequest]
    /\ faults = 0

Next == \E r \in Requests :
    \/ \E amount \in Amounts : FindInvoice(r, "payment", amount, 0)
    \/ \E kind \in {"mark-paid", "admin"} : FindInvoice(r, kind, 0, 0)
    \/ \E reported \in 0..MaxAmount : FindInvoice(r, "import", 0, reported)
    \/ ReadBalance(r) \/ ReadPrior(r) \/ Record(r) \/ MarkPaid(r) \/ Abort(r)

Spec == Init /\ [][Next]_vars

-----------------------------------------------------------------------------
(* Properties.                                                             *)

\* No invoice is "paid" that its payments do not cover, whatever overlaps or
\* fails: what a request read is never more than what is there when it writes.
PaidIsCovered == status = "paid" => total >= due

\* What the comment of recordInvoicePayment says: the status becomes "paid"
\* once the ledger fully covers amountDue (lib/invoices/payments.ts:34-35).
PaidWhenCovered ==
    total >= due /\ (\A r \in Requests : request[r].pc = "idle") => status = "paid"

\* No payment is recorded between a request's reading of the prior ones and
\* its own row (lib/invoices/payments.ts:44-59).
FreshReads == \A r \in Requests : request[r].pc = "write" => request[r].prior = Outstanding

\* One request at a time: what a test of the routes does.
InTurn == \A r, o \in Requests : r # o => request[r].pc = "idle" \/ request[o].pc = "idle"

\* The comment holds as long as no request fails (the administrator's, between
\* its two statements).
PaidUnlessFailed == faults = 0 => PaidWhenCovered
=============================================================================
