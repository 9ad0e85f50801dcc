------------------------ MODULE PaymentLedgerProofs ------------------------
(***************************************************************************)
(* No invoice is marked paid that its payments do not cover, for every     *)
(* number of requests and every bound.                                     *)
(***************************************************************************)
EXTENDS PaymentLedger, TLAPS

TypeOK ==
    /\ due \in Int
    /\ total \in Int
    /\ request \in [Requests -> RequestRecord]

\* A payment takes nothing away.
PaysSomething(r) == request[r].pc \in {"prior", "write", "mark"} => request[r].amount > 0

\* What a request read is not more than what is there: the ledger only grows.
ReadsThePast(r) ==
    request[r].pc = "write" => request[r].prior >= due - total

\* Who is about to mark the invoice has already covered it.
MarksWhatIsCovered(r) == request[r].pc = "mark" => total >= due

IInv ==
    /\ TypeOK
    /\ \A r \in Requests :
          PaysSomething(r) /\ ReadsThePast(r) /\ MarksWhatIsCovered(r)
    /\ PaidIsCovered

-----------------------------------------------------------------------------
\* What is outstanding is never negative and never less than what is missing.
LEMMA OutstandingIsDue ==
    ASSUME due \in Int, total \in Int
    PROVE  Outstanding \in Int /\ Outstanding >= 0 /\ Outstanding >= due - total
BY DEF Outstanding

LEMMA InitEstablishes == Init => IInv
BY DEF Init, IInv, TypeOK, Amounts, RequestRecord, IdleRequest, Kinds,
       PaysSomething, ReadsThePast, MarksWhatIsCovered, PaidIsCovered

\* A request that leaves owes the invariant nothing.
LEMMA LeavingIsSafe ==
    ASSUME IInv, NEW r \in Requests, Leave(r), due' = due,
           total' \in Int, total' >= total, PaidIsCovered'
    PROVE  IInv'
<1>1. TypeOK'
  BY DEF IInv, TypeOK, Leave, RequestRecord, IdleRequest, Kinds
<1>2. \A o \in Requests : o # r => request'[o] = request[o]
  BY DEF IInv, TypeOK, Leave
<1>3. request'[r].pc = "idle"
  BY DEF IInv, TypeOK, Leave, IdleRequest
<1>4. ASSUME NEW o \in Requests
      PROVE  (PaysSomething(o) /\ ReadsThePast(o) /\ MarksWhatIsCovered(o))'
  <2>1. CASE o = r
    BY <1>3, <2>1 DEF PaysSomething, ReadsThePast, MarksWhatIsCovered
  <2>2. CASE o # r
    <3>1. request'[o] = request[o] /\ request[o] \in RequestRecord
      BY <1>2, <2>2 DEF IInv, TypeOK
    <3> QED
      BY <3>1 DEF IInv, TypeOK, PaysSomething, ReadsThePast, MarksWhatIsCovered, RequestRecord
  <2> QED BY <2>1, <2>2
<1> QED BY <1>1, <1>4 DEF IInv

\* A request that moves on must only account for itself.
LEMMA MovingIsSafe ==
    ASSUME IInv, NEW r \in Requests, NEW STATE next, next \in RequestRecord,
           request' = [request EXCEPT ![r] = next],
           UNCHANGED <<due, status>>, total' \in Int, total' >= total,
           (PaysSomething(r) /\ ReadsThePast(r) /\ MarksWhatIsCovered(r))'
    PROVE  IInv'
<1>1. TypeOK'
  BY DEF IInv, TypeOK
<1>2. \A o \in Requests : o # r => request'[o] = request[o]
  BY DEF IInv, TypeOK
<1>3. ASSUME NEW o \in Requests, o # r
      PROVE  (PaysSomething(o) /\ ReadsThePast(o) /\ MarksWhatIsCovered(o))'
  <2>1. request'[o] = request[o] /\ request[o] \in RequestRecord
    BY <1>2, <1>3 DEF IInv, TypeOK
  <2> QED
    BY <2>1 DEF IInv, TypeOK, PaysSomething, ReadsThePast, MarksWhatIsCovered, RequestRecord
<1>4. PaidIsCovered'
  BY DEF IInv, TypeOK, PaidIsCovered
<1> QED BY <1>1, <1>3, <1>4 DEF IInv

-----------------------------------------------------------------------------
LEMMA FindInvoiceKeeps ==
    ASSUME IInv, NEW r \in Requests, NEW kind \in Kinds, NEW amount \in Int,
           NEW reported \in Int, kind = "payment" => amount > 0,
           FindInvoice(r, kind, amount, reported)
    PROVE  IInv'
<1> DEFINE next == [pc |-> IF kind = "payment" THEN "prior" ELSE "balance",
                    kind |-> kind, amount |-> amount, reported |-> reported, prior |-> 0]
<1>1. next \in RequestRecord
  BY DEF RequestRecord
<1>2. request' = [request EXCEPT ![r] = next] /\ UNCHANGED <<due, total, status>>
  BY DEF FindInvoice
<1>3. request'[r] = next
  BY <1>2 DEF IInv, TypeOK
<1>4. (PaysSomething(r) /\ ReadsThePast(r) /\ MarksWhatIsCovered(r))'
  BY <1>3 DEF PaysSomething, ReadsThePast, MarksWhatIsCovered
<1> HIDE DEF next
<1> QED
  <2>1. total' \in Int /\ total' >= total
    BY <1>2 DEF IInv, TypeOK
  <2> QED BY <1>1, <1>2, <1>4, <2>1, MovingIsSafe

LEMMA ReadBalanceKeeps ==
    ASSUME IInv, NEW r \in Requests, ReadBalance(r)
    PROVE  IInv'
<1> DEFINE left == IF request[r].kind = "import" THEN request[r].reported ELSE 0
           next == [request[r] EXCEPT !.pc = "prior", !.amount = Outstanding - left]
<1>1. total \in Int /\ total' = total /\ total' >= total /\ due' = due /\ status' = status
  BY DEF ReadBalance, IInv, TypeOK
<1>2. request[r] \in RequestRecord /\ left \in Int
  BY DEF IInv, TypeOK, RequestRecord
<1>3. Outstanding \in Int
  BY OutstandingIsDue DEF IInv, TypeOK
<1>4. CASE Outstanding > left
  <2>1. request' = [request EXCEPT ![r] = next]
    BY <1>4 DEF ReadBalance
  <2>2. next \in RequestRecord
    <3>1. Outstanding - left \in Int
      BY <1>2, <1>3
    <3> HIDE DEF left
    <3> QED BY <1>2, <3>1 DEF RequestRecord
  <2>3. request'[r] = next
    BY <2>1 DEF IInv, TypeOK
  <2>4. next.pc = "prior" /\ next.amount > 0
    BY <1>2, <1>3, <1>4 DEF RequestRecord
  <2>5. (PaysSomething(r) /\ ReadsThePast(r) /\ MarksWhatIsCovered(r))'
    BY <2>3, <2>4 DEF PaysSomething, ReadsThePast, MarksWhatIsCovered
  <2> QED
    <3> HIDE DEF next
    <3> QED BY <1>1, <2>1, <2>2, <2>5, MovingIsSafe
<1>5. CASE ~(Outstanding > left)
  <2>1. Leave(r)
    BY <1>5 DEF ReadBalance
  <2>2. PaidIsCovered'
    BY <1>1 DEF IInv, PaidIsCovered
  <2> QED BY <1>1, <2>1, <2>2, LeavingIsSafe
<1> QED BY <1>4, <1>5

LEMMA ReadPriorKeeps ==
    ASSUME IInv, NEW r \in Requests, ReadPrior(r)
    PROVE  IInv'
<1> DEFINE next == [request[r] EXCEPT !.pc = "write", !.prior = Outstanding]
<1>1. total \in Int /\ total' = total /\ total' >= total /\ due' = due /\ status' = status
  BY DEF ReadPrior, IInv, TypeOK
<1>2. request[r] \in RequestRecord /\ request[r].pc = "prior" /\ request[r].amount > 0
  BY DEF ReadPrior, IInv, TypeOK, PaysSomething
<1>3. Outstanding \in Int /\ Outstanding >= due - total
  BY OutstandingIsDue DEF IInv, TypeOK
<1>4. request' = [request EXCEPT ![r] = next]
  BY DEF ReadPrior
<1>5. next \in RequestRecord
  BY <1>2, <1>3 DEF RequestRecord
<1>6. request'[r] = next
  BY <1>4 DEF IInv, TypeOK
<1>7. next.pc = "write" /\ next.amount > 0 /\ next.prior = Outstanding
  BY <1>2 DEF RequestRecord
<1>8. (PaysSomething(r) /\ ReadsThePast(r) /\ MarksWhatIsCovered(r))'
  BY <1>1, <1>3, <1>6, <1>7 DEF PaysSomething, ReadsThePast, MarksWhatIsCovered
<1> QED
  <2> HIDE DEF next
  <2> QED BY <1>1, <1>4, <1>5, <1>8, MovingIsSafe

LEMMA RecordKeeps ==
    ASSUME IInv, NEW r \in Requests, Record(r)
    PROVE  IInv'
<1>1. request[r] \in RequestRecord /\ request[r].pc = "write"
  BY DEF Record, IInv, TypeOK
<1>2. request[r].amount > 0 /\ request[r].prior >= due - total
  BY <1>1 DEF IInv, PaysSomething, ReadsThePast
<1>3. total' = total + request[r].amount /\ due' = due
  BY DEF Record
<1>4. total' \in Int /\ total' >= total /\ due \in Int
  BY <1>1, <1>2, <1>3 DEF IInv, TypeOK, RequestRecord
<1>5. Covers(r) => total' >= due'
  BY <1>1, <1>2, <1>3, <1>4 DEF Covers, IInv, TypeOK, RequestRecord
<1>6. PaidIsCovered /\ total \in Int
  BY DEF IInv, TypeOK
<1>7. CASE InTransaction(r)
  <2>1. Leave(r) /\ status' = IF Covers(r) THEN "paid" ELSE status
    BY <1>7 DEF Record
  <2>2. PaidIsCovered'
    BY <1>3, <1>4, <1>5, <1>6, <2>1 DEF PaidIsCovered
  <2> QED BY <1>3, <1>4, <2>1, <2>2, LeavingIsSafe
<1>8. CASE ~InTransaction(r) /\ ~Covers(r)
  <2>1. Leave(r) /\ status' = status
    BY <1>8 DEF Record
  <2>2. PaidIsCovered'
    BY <1>3, <1>4, <1>6, <2>1 DEF PaidIsCovered
  <2> QED BY <1>3, <1>4, <2>1, <2>2, LeavingIsSafe
<1>9. CASE ~InTransaction(r) /\ Covers(r)
  <2> DEFINE next == [request[r] EXCEPT !.pc = "mark"]
  <2>1. request' = [request EXCEPT ![r] = next] /\ status' = status
    BY <1>9 DEF Record
  <2>2. next \in RequestRecord /\ next.pc = "mark" /\ next.amount > 0
    BY <1>1, <1>2 DEF RequestRecord
  <2>3. request'[r] = next
    BY <2>1 DEF IInv, TypeOK
  <2>4. (PaysSomething(r) /\ ReadsThePast(r) /\ MarksWhatIsCovered(r))'
    BY <1>5, <1>9, <2>2, <2>3 DEF PaysSomething, ReadsThePast, MarksWhatIsCovered
  <2> QED
    <3> HIDE DEF next
    <3> QED BY <1>3, <1>4, <2>1, <2>2, <2>4, MovingIsSafe
<1> QED BY <1>7, <1>8, <1>9

LEMMA MarkPaidKeeps ==
    ASSUME IInv, NEW r \in Requests, MarkPaid(r)
    PROVE  IInv'
<1>1. total >= due /\ total \in Int
  BY DEF MarkPaid, IInv, TypeOK, MarksWhatIsCovered
<1>2. Leave(r) /\ total' = total /\ due' = due
  BY DEF MarkPaid
<1>3. PaidIsCovered'
  BY <1>1, <1>2 DEF PaidIsCovered
<1> QED BY <1>1, <1>2, <1>3, LeavingIsSafe

LEMMA AbortKeeps ==
    ASSUME IInv, NEW r \in Requests, Abort(r)
    PROVE  IInv'
<1>1. Leave(r) /\ total' = total /\ due' = due /\ status' = status /\ total \in Int
  BY DEF Abort, IInv, TypeOK
<1>2. PaidIsCovered'
  BY <1>1 DEF IInv, PaidIsCovered
<1> QED BY <1>1, <1>2, LeavingIsSafe

-----------------------------------------------------------------------------
LEMMA NextKeeps == IInv /\ [Next]_vars => IInv'
<1> SUFFICES ASSUME IInv, [Next]_vars PROVE IInv'
  OBVIOUS
<1>1. CASE UNCHANGED vars
  BY <1>1 DEF IInv, vars, TypeOK, PaysSomething, ReadsThePast, MarksWhatIsCovered, PaidIsCovered
<1>2. CASE Next
  <2>1. PICK r \in Requests :
          \/ \E amount \in Amounts : FindInvoice(r, "payment", amount, 0)
          \/ \E kind \in {"mark-paid", "admin"} : FindInvoice(r, kind, 0, 0)
          \/ \E reported \in 0..MaxAmount : FindInvoice(r, "import", 0, reported)
          \/ ReadBalance(r) \/ ReadPrior(r) \/ Record(r) \/ MarkPaid(r) \/ Abort(r)
    BY <1>2 DEF Next
  <2>2. ASSUME NEW amount \in Amounts, FindInvoice(r, "payment", amount, 0) PROVE IInv'
    <3>1. amount \in Int /\ amount > 0 /\ "payment" \in Kinds /\ 0 \in Int
      BY DEF Amounts, Kinds
    <3> QED BY <2>2, <3>1, FindInvoiceKeeps
  <2>3. ASSUME NEW kind \in {"mark-paid", "admin"}, FindInvoice(r, kind, 0, 0) PROVE IInv'
    <3>1. kind \in Kinds /\ kind # "payment" /\ 0 \in Int
      BY DEF Kinds
    <3> QED BY <2>3, <3>1, FindInvoiceKeeps
  <2>4. ASSUME NEW reported \in 0..MaxAmount, FindInvoice(r, "import", 0, reported) PROVE IInv'
    <3>1. reported \in Int /\ "import" \in Kinds /\ "import" # "payment" /\ 0 \in Int
      BY DEF Kinds
    <3> QED BY <2>4, <3>1, FindInvoiceKeeps
  <2> QED
    BY <2>1, <2>2, <2>3, <2>4, ReadBalanceKeeps, ReadPriorKeeps, RecordKeeps, MarkPaidKeeps, AbortKeeps
<1> QED BY <1>1, <1>2

\* An invoice marked paid is covered by its payments, for any number of
\* overlapping requests of every kind, failures included
\* (lib/invoices/payments.ts, recordInvoicePayment).
THEOREM PaidInvoicesAreCovered == Spec => []PaidIsCovered
<1>1. IInv => PaidIsCovered
  BY DEF IInv
<1> QED BY <1>1, InitEstablishes, NextKeeps, PTL DEF Spec

-----------------------------------------------------------------------------
(* Why an invoice stays open that its payments cover: only a stale read or *)
(* a failure leaves it so.                                                 *)

\* It is paid, or a request is about to mark it.
Marked == status = "paid" \/ \E r \in Requests : request[r].pc = "mark"

CoveredIsMarked == faults \in Nat /\ (faults = 0 /\ total >= due => Marked)

LEMMA InitMarked == Init => CoveredIsMarked
BY DEF Init, CoveredIsMarked, Amounts

\* A step that changes neither the ledger nor the status, and takes no request
\* away from marking.
LEMMA StaysMarked ==
    ASSUME CoveredIsMarked, NEW r \in Requests, request[r].pc # "mark",
           \A o \in Requests : o # r => request'[o] = request[o],
           UNCHANGED <<due, total, status, faults>>
    PROVE  CoveredIsMarked'
<1>1. Marked => Marked'
  BY DEF Marked
<1> QED BY <1>1 DEF CoveredIsMarked

LEMMA RecordMarks ==
    ASSUME IInv, CoveredIsMarked, FreshReads, NEW r \in Requests, Record(r)
    PROVE  CoveredIsMarked'
<1>1. request[r] \in RequestRecord /\ request[r].pc = "write" /\ request[r].prior = Outstanding
  BY DEF Record, IInv, TypeOK, FreshReads
<1>2. due \in Int /\ total \in Int /\ due' = due /\ faults' = faults
      /\ total' = total + request[r].amount
  BY DEF Record, IInv, TypeOK
<1>3. \A o \in Requests : o # r => request'[o] = request[o]
  BY DEF Record, Leave, IInv, TypeOK
<1>4. CASE Covers(r)
  <2>1. CASE InTransaction(r)
    <3>1. status' = "paid"
      BY <1>4, <2>1 DEF Record
    <3> QED BY <1>2, <3>1 DEF CoveredIsMarked, Marked
  <2>2. CASE ~InTransaction(r)
    <3>1. request'[r].pc = "mark"
      BY <1>1, <1>4, <2>2 DEF Record, IInv, TypeOK, RequestRecord
    <3> QED BY <1>2, <3>1 DEF CoveredIsMarked, Marked
  <2> QED BY <2>1, <2>2
<1>5. CASE ~Covers(r)
  <2>1. request[r].amount < Outstanding /\ request[r].amount > 0
    BY <1>1, <1>2, <1>5 DEF Covers, Outstanding, RequestRecord, IInv, PaysSomething
  <2>2. total' < due'
    BY <1>1, <1>2, <2>1 DEF Outstanding, RequestRecord
  <2>3. total' \in Int
    BY <1>1, <1>2 DEF RequestRecord
  <2> QED BY <1>2, <2>2, <2>3 DEF CoveredIsMarked
<1> QED BY <1>4, <1>5

LEMMA NextMarks == IInv /\ CoveredIsMarked /\ FreshReads /\ [Next]_vars => CoveredIsMarked'
<1> SUFFICES ASSUME IInv, CoveredIsMarked, FreshReads, [Next]_vars PROVE CoveredIsMarked'
  OBVIOUS
<1>1. CASE UNCHANGED vars
  BY <1>1 DEF CoveredIsMarked, Marked, vars
<1>2. CASE Next
  <2>1. PICK r \in Requests :
          \/ \E kind, amount, reported : FindInvoice(r, kind, amount, reported)
          \/ ReadBalance(r) \/ ReadPrior(r) \/ Record(r) \/ MarkPaid(r) \/ Abort(r)
    BY <1>2 DEF Next
  <2>2. ASSUME NEW kind, NEW amount, NEW reported, FindInvoice(r, kind, amount, reported)
        PROVE  CoveredIsMarked'
    <3>1. request[r].pc # "mark" /\ UNCHANGED <<due, total, status, faults>>
          /\ \A o \in Requests : o # r => request'[o] = request[o]
      BY <2>2 DEF FindInvoice, IInv, TypeOK
    <3> QED BY <3>1, StaysMarked
  <2>3. CASE ReadBalance(r)
    <3>1. request[r].pc # "mark" /\ UNCHANGED <<due, total, status, faults>>
      BY <2>3 DEF ReadBalance
    <3>2. \A o \in Requests : o # r => request'[o] = request[o]
      BY <2>3 DEF ReadBalance, Leave, IInv, TypeOK
    <3> QED BY <3>1, <3>2, StaysMarked
  <2>4. CASE ReadPrior(r)
    <3>1. request[r].pc # "mark" /\ UNCHANGED <<due, total, status, faults>>
          /\ \A o \in Requests : o # r => request'[o] = request[o]
      BY <2>4 DEF ReadPrior, IInv, TypeOK
    <3> QED BY <3>1, StaysMarked
  <2>5. CASE Record(r)
    BY <2>5, RecordMarks
  <2>6. CASE MarkPaid(r)
    BY <2>6 DEF MarkPaid, CoveredIsMarked, Marked
  <2>7. CASE Abort(r)
    BY <2>7 DEF Abort, CoveredIsMarked
  <2> QED BY <2>1, <2>2, <2>3, <2>4, <2>5, <2>6, <2>7
<1> QED BY <1>1, <1>2

LEMMA MarkedIsPaid == CoveredIsMarked => PaidUnlessFailed
<1> SUFFICES ASSUME CoveredIsMarked, faults = 0, total >= due,
                    \A r \in Requests : request[r].pc = "idle"
             PROVE  status = "paid"
  BY DEF PaidUnlessFailed, PaidWhenCovered
<1> QED BY DEF CoveredIsMarked, Marked

\* As long as nothing is recorded between a request's reading and its writing,
\* and none fails, an invoice whose payments cover it is paid: the comment of
\* recordInvoicePayment holds but for the missing lock
\* (lib/invoices/payments.ts:34-48).
THEOREM FreshReadsPay == Spec /\ []FreshReads => []PaidUnlessFailed
<1>1. Init /\ FreshReads => IInv /\ CoveredIsMarked
  BY InitEstablishes, InitMarked
<1>2. IInv /\ CoveredIsMarked /\ FreshReads /\ [Next]_vars => IInv' /\ CoveredIsMarked'
  BY NextKeeps, NextMarks
<1> QED BY <1>1, <1>2, MarkedIsPaid, PTL DEF Spec

-----------------------------------------------------------------------------
\* One at a time, every request reads what is there when it writes.
LEMMA InTurnReadsFresh ==
    ASSUME IInv, FreshReads, InTurn, InTurn', [Next]_vars
    PROVE  FreshReads'
<1>1. CASE UNCHANGED vars
  BY <1>1 DEF FreshReads, Outstanding, vars
<1>2. CASE Next
  <2>1. PICK r \in Requests :
          \/ \E kind, amount, reported : FindInvoice(r, kind, amount, reported)
          \/ ReadBalance(r) \/ ReadPrior(r) \/ Record(r) \/ MarkPaid(r) \/ Abort(r)
    BY <1>2 DEF Next
  <2>2. \A o \in Requests : o # r => request'[o] = request[o]
    BY <2>1 DEF FindInvoice, ReadBalance, ReadPrior, Record, MarkPaid, Abort, Leave, IInv, TypeOK
  <2>3. \/ \E kind, amount, reported : FindInvoice(r, kind, amount, reported)
        \/ request[r].pc # "idle"
    BY <2>1 DEF ReadBalance, ReadPrior, Record, MarkPaid, Abort
  <2>4. ASSUME NEW o \in Requests, o # r, request'[o].pc = "write"
        PROVE  request'[o].prior = Outstanding'
    <3>1. request[o].pc = "write" /\ request[r].pc = "idle" /\ request'[o] = request[o]
      BY <2>2, <2>4 DEF InTurn
    <3>2. UNCHANGED <<due, total>>
      BY <2>3, <3>1 DEF FindInvoice
    <3> QED BY <3>1, <3>2 DEF FreshReads, Outstanding
  <2>5. ASSUME request'[r].pc = "write"
        PROVE  request'[r].prior = Outstanding'
    <3>1. CASE ReadPrior(r)
      BY <3>1 DEF ReadPrior, Outstanding, IInv, TypeOK, RequestRecord
    <3>2. CASE ~ReadPrior(r)
      BY <2>1, <2>5, <3>2 DEF FindInvoice, ReadBalance, Record, MarkPaid, Abort, Leave,
         IInv, TypeOK, RequestRecord, IdleRequest
    <3> QED BY <3>1, <3>2
  <2> QED BY <2>4, <2>5 DEF FreshReads
<1> QED BY <1>1, <1>2

\* So one request after the other never leaves a covered invoice open
\* (lib/invoices/payments.ts, recordInvoicePayment): only requests that overlap
\* can.
THEOREM RequestsInTurnPay == Spec /\ []InTurn => []PaidUnlessFailed
<1> DEFINE Good == IInv /\ FreshReads
<1>1. Init => Good
  BY InitEstablishes DEF Init, FreshReads, IdleRequest
<1>2. Good /\ InTurn /\ InTurn' /\ [Next]_vars => Good'
  <2> SUFFICES ASSUME Good, InTurn, InTurn', [Next]_vars PROVE Good'
    OBVIOUS
  <2>1. IInv'
    BY NextKeeps
  <2>2. FreshReads'
    BY InTurnReadsFresh
  <2> QED BY <2>1, <2>2
<1>3. Good => FreshReads
  OBVIOUS
<1> HIDE DEF Good
<1>4. Spec /\ []InTurn => []FreshReads
  BY <1>1, <1>2, <1>3, PTL DEF Spec
<1> QED BY <1>4, FreshReadsPay, PTL
=============================================================================
