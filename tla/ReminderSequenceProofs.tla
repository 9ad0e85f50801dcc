----------------------- MODULE ReminderSequenceProofs -----------------------
(***************************************************************************)
(* Proofs about the reminder sequence, for every set of invoices, every    *)
(* number of executions, any schedule, allowance and escalation policy.    *)
(*                                                                         *)
(* The inductive invariant says, part by part, what an execution may still *)
(* rely on after it lost its transaction (TypeInv, KeyInv, HistoryInv,     *)
(* OrderInv) and what only the holder of the lock may (LockInv, ChargeInv).*)
(***************************************************************************)
EXTENDS ReminderSequence, FiniteSetTheorems, TLAPS

Active == {"gate", "dedup", "send", "log", "advance"}
PastGate == {"dedup", "send", "log", "advance"}

\* An execution works on an invoice and a stage beyond the one it read.
JobInv ==
    /\ \A j \in Jobs : job[j].pc # "idle" => job[j].inv \in Invoices
    /\ \A j \in Jobs : job[j].pc \in Active => job[j].from \in 0..2
    /\ \A j \in Jobs : job[j].pc \in PastGate =>
                          job[j].target \in Stages /\ job[j].target > job[j].from

\* A route request is one of a known route on an invoice.
RequestInv ==
    \A r \in Requests : request[r] # NoRequest =>
        request[r].route \in RouteNames /\ request[r].inv \in Invoices

TypeInv == TypeOK /\ JobInv /\ RequestInv

\* The provider delivered what it has a key for, once.
KeyInv ==
    \A i \in Invoices, s \in Stages :
        delivered[i][s] = IF <<i, s>> \in keys THEN 1 ELSE 0

\* The provider's keys, the log and the stage follow one another.
HistoryInv ==
    /\ \A i \in Invoices, s \in Stages :
          /\ i \notin Undeliverable /\ s \in emailLog[i] => <<i, s>> \in keys
          /\ i \in Undeliverable => <<i, s>> \notin keys
    /\ \A i \in Invoices : currentStage[i] # 0 => currentStage[i] \in emailLog[i]
    /\ \A j \in Jobs : job[j].pc = "log" => <<job[j].inv, job[j].target>> \in keys
    /\ \A j \in Jobs : job[j].pc = "advance" => job[j].target \in emailLog[job[j].inv]

\* Without tone escalation the stages up to the current one are all logged,
\* and so are those up to the one an execution read, however long ago.
OrderInv ==
    ~Tone =>
        /\ \A i \in Invoices, s \in Stages :
              s <= currentStage[i] => s \in emailLog[i]
        /\ \A j \in Jobs : job[j].pc \in Active =>
              \A s \in Stages : s <= job[j].from => s \in emailLog[job[j].inv]
        /\ \A j \in Jobs : job[j].pc \in PastGate => job[j].target = job[j].from + 1

\* The holder of the lock is at work, and its invoice stands where it read it.
LockInv ==
    \A j \in Jobs : lock = j =>
        job[j].pc \in Active /\ currentStage[job[j].inv] = job[j].from

\* First chases are charged when the sequence starts, never to a later period,
\* and the holder of the lock that is about to charge one has room for it.
ChargeInv ==
    /\ \A i \in Invoices : firstChasedAt[i] <= period
    /\ \A i \in Invoices : currentStage[i] = 0 <=> firstChasedAt[i] = 0
    /\ Usage <= Allowance
    /\ \A j \in Jobs :
          lock = j /\ job[j].pc \in PastGate /\ job[j].from = 0 => Usage < Allowance

-----------------------------------------------------------------------------
(* Typing.                                                                 *)

\* The gate refuses with an outcome of its own or lets the reminder pass.
LEMMA RefusalType ==
    ASSUME NEW i, NEW from
    PROVE  Refusal(i, from) \in {"none", "skipped", "held"}
  BY DEF Refusal

\* A slot at rest is a job record.
LEMMA RestingType ==
    ASSUME NEW o \in Outcomes
    PROVE  /\ Resting(o) \in JobRecord
           /\ Resting(o).pc = "idle"
  BY DEF Slot, Resting, JobRecord, Steps, Outcomes

\* A route writes a status.
LEMMA RouteToType ==
    ASSUME NEW route \in RouteNames
    PROVE  RouteTo(route) \in Statuses
  BY DEF RouteTo, RouteNames, Statuses

LEMMA TypeInit == Init => TypeInv
  <1> SUFFICES ASSUME Init PROVE TypeInv
    OBVIOUS
  <1>1. \A j \in Jobs : job[j] = Resting("none")
    BY DEF Init
  <1>2. job \in [Jobs -> JobRecord]
    BY <1>1, RestingType DEF Init, Outcomes
  <1>3. nextEmailAt \in [Invoices -> Int \cup {Null}]
    BY ReminderAssumption DEF Init, Stages
  <1>4. request \in [Requests -> RequestRecord]
    BY DEF Init, NoRequest, RequestRecord
  <1>5. delivered \in [Invoices -> [Stages -> Nat]]
    BY DEF Init
  <1>6. TypeOK
    BY <1>2, <1>3, <1>4, <1>5 DEF Init, TypeOK, Statuses, Stages
  <1>7. \A j \in Jobs : job[j].pc = "idle"
    BY <1>1, RestingType DEF Outcomes
  <1> QED
    BY <1>6, <1>7 DEF TypeInv, JobInv, RequestInv, Init, Active, PastGate

\* An execution that ends leaves the typing of jobs and of the lock intact.
LEMMA FinishType ==
    ASSUME TypeInv, NEW j \in Jobs, NEW o \in Outcomes, Finish(j, o)
    PROVE  /\ job' \in [Jobs -> JobRecord]
           /\ lock' \in Jobs \cup {Null}
           /\ job'[j].pc = "idle"
           /\ \A k \in Jobs : k # j => job'[k] = job[k]
           /\ lock' # Null => lock' = lock /\ lock # j
  <1>1. job \in [Jobs -> JobRecord] /\ lock \in Jobs \cup {Null}
    BY DEF TypeInv, TypeOK
  <1>2. job' = [job EXCEPT ![j] = Resting(o)]
    BY DEF Finish
  <1>3. Resting(o) \in JobRecord /\ Resting(o).pc = "idle"
    BY RestingType
  <1>4. lock' = IF lock = j THEN Null ELSE lock
    BY DEF Finish
  <1>5. \A k \in Jobs : job'[k] = IF k = j THEN Resting(o) ELSE job[k]
    BY <1>1, <1>2
  <1>6. job' \in [Jobs -> JobRecord]
    BY <1>1, <1>2, <1>3
  <1>7. job'[j].pc = "idle" /\ \A k \in Jobs : k # j => job'[k] = job[k]
    BY <1>3, <1>5
  <1>8. lock' \in Jobs \cup {Null} /\ (lock' # Null => lock' = lock /\ lock # j)
    BY <1>1, <1>4
  <1> QED
    BY <1>6, <1>7, <1>8

\* What TypeInv says of jobs, carried over a step that ends one of them.
LEMMA FinishTypeInv ==
    ASSUME TypeInv, NEW j \in Jobs, NEW o \in Outcomes, Finish(j, o),
           UNCHANGED <<invoiceVars, accountVars, request>>,
           emailLog' \in [Invoices -> SUBSET Stages],
           keys' \subseteq Invoices \X Stages,
           delivered' \in [Invoices -> [Stages -> Nat]]
    PROVE  TypeOK' /\ JobInv'
  <1>1. TypeOK'
    BY FinishType DEF TypeInv, TypeOK, invoiceVars, accountVars
  <1>2. \A k \in Jobs : job'[k].pc # "idle" => job'[k] = job[k]
    BY FinishType
  <1> QED
    BY <1>1, <1>2 DEF TypeInv, JobInv, Active, PastGate

\* A step of an execution to its next stage of work.
LEMMA GotoType ==
    ASSUME TypeInv, NEW j \in Jobs, NEW step \in Steps, Goto(j, step)
    PROVE  /\ job' \in [Jobs -> JobRecord]
           /\ job'[j].pc = step
           /\ job'[j].inv = job[j].inv
           /\ job'[j].from = job[j].from
           /\ job'[j].target = job[j].target
           /\ job'[j].token = job[j].token
           /\ job'[j].risky = job[j].risky
           /\ \A k \in Jobs : k # j => job'[k] = job[k]
  BY DEF TypeInv, TypeOK, Goto, JobRecord

\* Past the gate an execution has an invoice and a stage.
LEMMA PastGateType ==
    ASSUME TypeInv, NEW j \in Jobs, job[j].pc \in PastGate
    PROVE  /\ job[j].inv \in Invoices
           /\ job[j].from \in 0..2
           /\ job[j].target \in Stages
           /\ job[j].target > job[j].from
  BY DEF TypeInv, JobInv, Active, PastGate

\* The record of an execution that found its invoice due.
LEMMA DueRecordType ==
    ASSUME NEW r \in JobRecord, NEW from \in 0..3, NEW token \in Jobs \cup {Null}
    PROVE  [r EXCEPT !.pc = "gate", !.from = from, !.token = token] \in JobRecord
  BY DEF JobRecord, Steps

\* The record of an execution that passed the gate.
LEMMA PassedRecordType ==
    ASSUME NEW r \in JobRecord, NEW target \in 0..3, NEW risky \in BOOLEAN
    PROVE  [r EXCEPT !.pc = "dedup", !.target = target, !.risky = risky] \in JobRecord
  BY DEF JobRecord, Steps

LEMMA RequestStep == TypeInv /\ [Next]_vars => RequestInv'
  <1> SUFFICES ASSUME TypeInv, [Next]_vars PROVE RequestInv'
    OBVIOUS
  <1>1. ASSUME NEW r \in Requests, NEW route \in Routes, NEW i \in Invoices,
               RouteRead(r, route, i)
        PROVE  RequestInv'
    BY <1>1, ReminderAssumption DEF RouteRead, TypeInv, TypeOK, RequestInv
  <1>2. ASSUME NEW r \in Requests, RouteWrite(r) PROVE RequestInv'
    BY <1>2 DEF RouteWrite, TypeInv, TypeOK, RequestInv
  <1>3. CASE UNCHANGED request
    BY <1>3 DEF TypeInv, RequestInv
  <1> QED
    BY <1>1, <1>2, <1>3
    DEF Next, JobStep, Environment, vars, StartJob, ReadInvoice, Gate, Dedup, Send, Log,
        Advance, TxTimeout, Abort, ResumeSnoozed, StripePaid, Agree, BreakPromise,
        EndArrangement, ChangeAccess, NextDay, NextPeriod

LEMMA TypeStep == TypeInv /\ [Next]_vars => TypeInv'
  <1> SUFFICES ASSUME TypeInv, [Next]_vars PROVE TypeOK' /\ JobInv'
    BY RequestStep DEF TypeInv
  <1>0. TypeOK
    BY DEF TypeInv
  <1>1. ASSUME NEW j \in Jobs, NEW i \in Invoices, StartJob(j, i) PROVE TypeOK' /\ JobInv'
    <2>1. job' = [job EXCEPT ![j] = Slot("wait", i, "none")]
      BY <1>1 DEF StartJob
    <2>2. Slot("wait", i, "none") \in JobRecord
      BY DEF Slot, Resting, JobRecord, Steps, Outcomes
    <2>3. job' \in [Jobs -> JobRecord]
      BY <1>0, <2>1, <2>2 DEF TypeOK
    <2>4. job'[j].pc = "wait" /\ job'[j].inv = i
      BY <1>0, <2>1 DEF TypeOK, Slot
    <2>5. \A k \in Jobs : k # j => job'[k] = job[k]
      BY <1>0, <2>1 DEF TypeOK
    <2>6. TypeOK'
      BY <1>0, <1>1, <2>3 DEF TypeOK, StartJob, invoiceVars, mailVars, accountVars
    <2> QED
      BY <2>4, <2>5, <2>6 DEF TypeInv, JobInv, Active, PastGate
  <1>2. ASSUME NEW j \in Jobs, ReadInvoice(j) PROVE TypeOK' /\ JobInv'
    <2> DEFINE i == job[j].inv
    <2>1. i \in Invoices
      BY <1>2 DEF ReadInvoice, TypeInv, JobInv
    <2>2. CASE ~Eligible(i)
      BY <1>0, <1>2, <2>2, FinishTypeInv
      DEF ReadInvoice, Outcomes, TypeOK, mailVars
    <2>3. CASE Eligible(i)
      <3>1. job' = [job EXCEPT ![j].pc = "gate", ![j].from = currentStage[i],
                               ![j].token = p2pToken[i]]
        BY <1>2, <2>3 DEF ReadInvoice
      <3>2. currentStage[i] \in 0..2 /\ p2pToken[i] \in Jobs \cup {Null}
        BY <1>0, <2>1, <2>3 DEF Eligible, TypeOK
      <3>3. job' \in [Jobs -> JobRecord]
        <4>1. job[j] \in JobRecord
          BY <1>0 DEF TypeOK
        <4>2. [job[j] EXCEPT !.pc = "gate", !.from = currentStage[i],
                             !.token = p2pToken[i]] \in JobRecord
          <5>1. currentStage[i] \in 0..3
            BY <3>2
          <5> QED
            BY <4>1, <5>1, <3>2, DueRecordType, Zenon
        <4> QED
          BY <1>0, <3>1, <4>2 DEF TypeOK
      <3>4. job'[j].pc = "gate" /\ job'[j].inv = i /\ job'[j].from = currentStage[i]
        BY <1>0, <3>1 DEF TypeOK, JobRecord
      <3>5. \A k \in Jobs : k # j => job'[k] = job[k]
        BY <1>0, <3>1 DEF TypeOK
      <3>6. TypeOK'
        BY <1>0, <1>2, <2>3, <3>3
        DEF TypeOK, ReadInvoice, invoiceVars, mailVars, accountVars
      <3> QED
        BY <2>1, <3>2, <3>4, <3>5, <3>6 DEF TypeInv, JobInv, Active, PastGate
    <2> QED
      BY <2>2, <2>3
  <1>3. ASSUME NEW j \in Jobs, Gate(j) PROVE TypeOK' /\ JobInv'
    <2> DEFINE i == job[j].inv
               refusal == Refusal(job[j].inv, job[j].from)
    <2>1. i \in Invoices /\ job[j].from \in 0..2
      BY <1>3 DEF Gate, TypeInv, JobInv, Active
    <2>2. CASE ~InTransaction(j) \/ refusal # "none"
      <3>1. refusal \in Outcomes /\ "error" \in Outcomes
        BY RefusalType DEF Outcomes
      <3>2. \E o \in Outcomes : Finish(j, o)
        BY <1>3, <2>2, <3>1 DEF Gate
      <3> QED
        BY <1>0, <1>3, <3>2, FinishTypeInv DEF Gate, TypeOK, mailVars
    <2>3. CASE InTransaction(j) /\ refusal = "none"
      <3>1. job' = [job EXCEPT ![j].pc = "dedup",
                               ![j].target = TargetStage(job[j].from),
                               ![j].risky = HighRisk]
        BY <1>3, <2>3 DEF Gate
      <3>2. TargetStage(job[j].from) \in Stages /\ TargetStage(job[j].from) > job[j].from
        BY <2>1 DEF TargetStage, Stages
      <3>3. HighRisk \in BOOLEAN
        BY <1>0, ReminderAssumption DEF HighRisk, TypeOK
      <3>4. job' \in [Jobs -> JobRecord]
        <4>1. job[j] \in JobRecord
          BY <1>0 DEF TypeOK
        <4>2. [job[j] EXCEPT !.pc = "dedup", !.target = TargetStage(job[j].from),
                             !.risky = HighRisk] \in JobRecord
          <5>1. TargetStage(job[j].from) \in 0..3
            BY <3>2 DEF Stages
          <5> QED
            BY <4>1, <5>1, <3>3, PassedRecordType, Zenon
        <4> QED
          BY <1>0, <3>1, <4>2 DEF TypeOK
      <3>5. /\ job'[j].pc = "dedup" /\ job'[j].inv = i /\ job'[j].from = job[j].from
            /\ job'[j].target = TargetStage(job[j].from)
        BY <1>0, <3>1 DEF TypeOK, JobRecord
      <3>6. \A k \in Jobs : k # j => job'[k] = job[k]
        BY <1>0, <3>1 DEF TypeOK
      <3>7. TypeOK'
        BY <1>0, <1>3, <2>3, <3>4 DEF TypeOK, Gate, invoiceVars, mailVars, accountVars
      <3> QED
        BY <2>1, <3>2, <3>5, <3>6, <3>7 DEF TypeInv, JobInv, Active, PastGate
    <2> QED
      BY <2>2, <2>3
  <1>4. ASSUME NEW j \in Jobs, Dedup(j) PROVE TypeOK' /\ JobInv'
    <2> DEFINE i == job[j].inv
    <2>1. job[j].pc \in PastGate
      BY <1>4 DEF Dedup, PastGate
    <2>2. CASE Finish(j, "skipped") /\ UNCHANGED p2pToken
      BY <1>0, <1>4, <2>2, FinishTypeInv
      DEF Dedup, Outcomes, TypeOK, mailVars, invoiceVars
    <2>3. CASE Goto(j, "advance") \/ Goto(j, "send")
      <3>1. PICK step \in {"advance", "send"} : Goto(j, step)
        BY <2>3
      <3>2. step \in Steps
        BY <3>1 DEF Steps
      <3>3. p2pToken' \in [Invoices -> Jobs \cup {Null}] /\ lock' \in Jobs \cup {Null}
        BY <1>0, <1>4, FinishType DEF Dedup, TypeOK, Outcomes
      <3>4. TypeOK'
        BY <1>0, <1>4, <3>1, <3>2, <3>3, GotoType
        DEF Dedup, TypeOK, mailVars, accountVars
      <3> QED
        BY <2>1, <3>1, <3>2, <3>4, GotoType, PastGateType DEF TypeInv, JobInv, Active, PastGate
    <2> QED
      BY <1>4, <2>2, <2>3 DEF Dedup
  <1>5. ASSUME NEW j \in Jobs, Send(j) PROVE TypeOK' /\ JobInv'
    <2> DEFINE i == job[j].inv
               s == job[j].target
    <2>1. i \in Invoices /\ s \in Stages /\ job[j].pc \in PastGate
      BY <1>5, PastGateType DEF Send, PastGate
    <2>2. /\ emailLog' \in [Invoices -> SUBSET Stages]
          /\ keys' \subseteq Invoices \X Stages
          /\ delivered' \in [Invoices -> [Stages -> Nat]]
      <3>1. CASE UNCHANGED mailVars
        BY <1>0, <3>1 DEF TypeOK, mailVars
      <3>2. CASE emailLog' = [emailLog EXCEPT ![i] = @ \cup {s}] /\ UNCHANGED <<keys, delivered>>
        BY <1>0, <2>1, <3>2 DEF TypeOK
      <3>3. CASE ProviderAccepts(i, s) /\ UNCHANGED emailLog
        BY <1>0, <2>1, <3>3 DEF TypeOK, ProviderAccepts
      <3> QED
        BY <1>5, <3>1, <3>2, <3>3 DEF Send, SendFails
    <2>3. CASE \E o \in Outcomes : Finish(j, o)
      BY <1>5, <2>2, <2>3, FinishTypeInv DEF Send
    <2>4. CASE (Goto(j, "advance") \/ Goto(j, "log")) /\ UNCHANGED lock
      <3>1. PICK step \in {"advance", "log"} : Goto(j, step)
        BY <2>4
      <3>2. step \in Steps
        BY <3>1 DEF Steps
      <3>3. TypeOK'
        BY <1>0, <1>5, <2>2, <2>4, <3>1, <3>2, GotoType
        DEF Send, TypeOK, invoiceVars, accountVars
      <3> QED
        BY <2>1, <3>1, <3>2, <3>3, GotoType, PastGateType DEF TypeInv, JobInv, Active, PastGate
    <2>5. {"skipped", "error"} \subseteq Outcomes
      BY DEF Outcomes
    <2> QED
      BY <1>5, <2>3, <2>4, <2>5 DEF Send, SendFails
  <1>6. ASSUME NEW j \in Jobs, Log(j) PROVE TypeOK' /\ JobInv'
    <2>1. job[j].inv \in Invoices /\ job[j].target \in Stages /\ job[j].pc \in PastGate
      BY <1>6, PastGateType DEF Log, PastGate
    <2>2. CASE Finish(j, "error") /\ UNCHANGED emailLog
      BY <1>0, <1>6, <2>2, FinishTypeInv DEF Log, Outcomes, TypeOK
    <2>3. CASE /\ emailLog' = [emailLog EXCEPT ![job[j].inv] = @ \cup {job[j].target}]
               /\ Goto(j, "advance")
               /\ UNCHANGED lock
      <3>1. emailLog' \in [Invoices -> SUBSET Stages]
        BY <1>0, <2>1, <2>3 DEF TypeOK
      <3>2. "advance" \in Steps
        BY DEF Steps
      <3>3. TypeOK'
        BY <1>0, <1>6, <2>3, <3>1, <3>2, GotoType
        DEF Log, TypeOK, invoiceVars, accountVars
      <3> QED
        BY <2>1, <2>3, <3>2, <3>3, GotoType, PastGateType DEF TypeInv, JobInv, Active, PastGate
    <2> QED
      BY <1>6, <2>2, <2>3 DEF Log
  <1>7. ASSUME NEW j \in Jobs, Advance(j) PROVE TypeOK' /\ JobInv'
    <2> DEFINE i == job[j].inv
               s == job[j].target
    <2>1. i \in Invoices /\ s \in Stages /\ job[j].pc \in PastGate
      BY <1>7, PastGateType DEF Advance, PastGate
    <2>2. \E o \in Outcomes : Finish(j, o)
      BY <1>7 DEF Advance, Outcomes
    <2>3. \A k \in Jobs : job'[k].pc # "idle" => job'[k] = job[k]
      BY <2>2, FinishType
    <2>4. job' \in [Jobs -> JobRecord] /\ lock' \in Jobs \cup {Null}
      BY <2>2, FinishType
    <2>5. CASE UNCHANGED <<status, currentStage, nextEmailAt, firstChasedAt>>
      BY <1>0, <1>7, <2>3, <2>4, <2>5
      DEF Advance, TypeInv, JobInv, TypeOK, mailVars, accountVars, Active, PastGate
    <2>6. CASE InTransaction(j)
      <3>1. currentStage' \in [Invoices -> 0..3]
        BY <1>0, <1>7, <2>1, <2>6 DEF Advance, TypeOK, Stages
      <3>2. status' \in [Invoices -> Statuses]
        BY <1>0, <1>7, <2>1, <2>6 DEF Advance, TypeOK, Statuses
      <3>3. nextEmailAt' \in [Invoices -> Int \cup {Null}]
        <4>1. s # 3 => NextEmailDay(s + 1, job[j].risky) \in Int
          BY <2>1, ReminderAssumption DEF NextEmailDay, Stages
        <4>2. nextEmailAt' = [nextEmailAt EXCEPT ![i] =
                                 IF s = 3 THEN Null ELSE NextEmailDay(s + 1, job[j].risky)]
          BY <1>7, <2>6 DEF Advance
        <4> QED
          BY <1>0, <4>1, <4>2 DEF TypeOK
      <3>4. firstChasedAt' \in [Invoices -> Nat]
        BY <1>0, <1>7, <2>6 DEF Advance, FirstCharge, TypeOK
      <3>5. TypeOK'
        BY <1>0, <1>7, <2>4, <3>1, <3>2, <3>3, <3>4
        DEF Advance, TypeOK, mailVars, accountVars
      <3> QED
        BY <2>3, <3>5 DEF TypeInv, JobInv, Active, PastGate
    <2> QED
      BY <1>7, <2>5, <2>6 DEF Advance
  <1>8. ASSUME NEW j \in Jobs, TxTimeout(j) PROVE TypeOK' /\ JobInv'
    BY <1>0, <1>8
    DEF TxTimeout, TypeInv, JobInv, TypeOK, invoiceVars, mailVars, accountVars, Active, PastGate
  <1>9. ASSUME NEW j \in Jobs, Abort(j) PROVE TypeOK' /\ JobInv'
    BY <1>0, <1>9, FinishTypeInv DEF Abort, Outcomes, TypeOK, mailVars
  <1>10. ASSUME NEW r \in Requests, NEW route \in Routes, NEW i \in Invoices,
                RouteRead(r, route, i)
         PROVE  TypeOK' /\ JobInv'
    <2>1. [route |-> route, inv |-> i] \in RequestRecord
      BY ReminderAssumption DEF RequestRecord
    <2>2. request' \in [Requests -> RequestRecord]
      BY <1>0, <1>10, <2>1 DEF RouteRead, TypeOK
    <2> QED
      BY <1>0, <1>10, <2>2
      DEF RouteRead, TypeInv, JobInv, TypeOK, invoiceVars, mailVars, accountVars, Active, PastGate
  <1>11. ASSUME NEW r \in Requests, RouteWrite(r) PROVE TypeOK' /\ JobInv'
    <2>1. request[r].route \in RouteNames /\ request[r].inv \in Invoices
      BY <1>11 DEF RouteWrite, TypeInv, RequestInv
    <2>2. status' \in [Invoices -> Statuses]
      <3>1. RouteTo(request[r].route) \in Statuses
        BY <2>1, RouteToType
      <3> QED
        BY <1>0, <1>11, <3>1 DEF RouteWrite, TypeOK
    <2>3. request' \in [Requests -> RequestRecord]
      BY <1>0, <1>11 DEF RouteWrite, TypeOK, RequestRecord, NoRequest
    <2> QED
      BY <1>0, <1>11, <2>2, <2>3
      DEF RouteWrite, TypeInv, JobInv, TypeOK, mailVars, accountVars, Active, PastGate
  <1>12. ASSUME NEW i \in Invoices,
                ResumeSnoozed(i) \/ StripePaid(i) \/ BreakPromise(i) \/ EndArrangement(i)
         PROVE  TypeOK' /\ JobInv'
    <2>1. status' \in [Invoices -> Statuses]
      BY <1>0, <1>12
      DEF ResumeSnoozed, StripePaid, BreakPromise, EndArrangement, TypeOK, Statuses,
          invoiceVars
    <2>2. agreed' \in [Invoices -> SUBSET {"promise", "arrangement"}] /\ broken' \in Nat
      BY <1>0, <1>12
      DEF ResumeSnoozed, StripePaid, BreakPromise, EndArrangement, TypeOK, accountVars
    <2> QED
      BY <1>0, <1>12, <2>1, <2>2
      DEF ResumeSnoozed, StripePaid, BreakPromise, EndArrangement, TypeInv, JobInv, TypeOK,
          invoiceVars, mailVars, accountVars, Active, PastGate
  <1>13. ASSUME NEW i \in Invoices, NEW kind \in Agreements, Agree(i, kind) PROVE TypeOK' /\ JobInv'
    <2>1. agreed' \in [Invoices -> SUBSET {"promise", "arrangement"}]
      BY <1>0, <1>13, ReminderAssumption DEF Agree, TypeOK
    <2> QED
      BY <1>0, <1>13, <2>1
      DEF Agree, TypeInv, JobInv, TypeOK, invoiceVars, mailVars, Active, PastGate
  <1>14. ASSUME ChangeAccess \/ NextDay \/ NextPeriod PROVE TypeOK' /\ JobInv'
    <2>1. access' \in BOOLEAN
      BY <1>0, <1>14 DEF ChangeAccess, NextDay, NextPeriod, TypeOK
    <2>2. today' \in Nat /\ period' \in Nat \ {0}
      BY <1>0, <1>14 DEF ChangeAccess, NextDay, NextPeriod, TypeOK
    <2>3. UNCHANGED <<invoiceVars, mailVars, agreed, broken, lock, job, request>>
      BY <1>14 DEF ChangeAccess, NextDay, NextPeriod
    <2> QED
      BY <1>0, <2>1, <2>2, <2>3
      DEF TypeInv, JobInv, TypeOK, invoiceVars, mailVars, Active, PastGate
  <1>15. CASE UNCHANGED vars
    BY <1>0, <1>15
    DEF vars, TypeInv, JobInv, TypeOK, invoiceVars, mailVars, accountVars, Active, PastGate
  <1> QED
    BY <1>1, <1>2, <1>3, <1>4, <1>5, <1>6, <1>7, <1>8, <1>9, <1>10, <1>11, <1>12,
       <1>13, <1>14, <1>15
    DEF Next, JobStep, Environment

\* Every variable keeps its type, and every execution past the gate carries an
\* invoice and a later stage than the one it read.
THEOREM Typed == Spec => []TypeOK
  <1>1. TypeInv => TypeOK
    BY DEF TypeInv
  <1> QED
    BY <1>1, TypeInit, TypeStep, PTL DEF Spec
-----------------------------------------------------------------------------
(* How a step moves an execution, the lock and the invoices.               *)

Keeps(j) ==
    /\ job'[j].inv = job[j].inv
    /\ job'[j].from = job[j].from
    /\ job'[j].target = job[j].target

\* The ways an execution that does not end goes on.
FindsDue(j) ==
    /\ job[j].pc = "wait" /\ job'[j].pc = "gate"
    /\ lock = Null /\ lock' = j
    /\ job'[j].inv = job[j].inv
    /\ job'[j].from = currentStage[job[j].inv]
    /\ Eligible(job[j].inv)
PassesGate(j) ==
    /\ job[j].pc = "gate" /\ job'[j].pc = "dedup"
    /\ lock = j /\ lock' = j
    /\ job'[j].inv = job[j].inv
    /\ job'[j].from = job[j].from
    /\ job'[j].target = TargetStage(job[j].from)
    /\ Refusal(job[j].inv, job[j].from) = "none"
GoesOn(j) ==
    /\ job[j].pc \in PastGate /\ job'[j].pc \in {"send", "log", "advance"}
    /\ job'[j].pc = "send" => job[j].pc = "dedup"
    /\ Keeps(j)
    /\ lock' = lock

\* A step is of one execution, which starts, ends or goes on, or of none.
Moves(j) ==
    /\ \A k \in Jobs : k # j => job'[k] = job[k]
    /\ \/ job[j].pc = "idle" /\ job'[j].pc = "wait" /\ lock' = lock
       \/ job'[j].pc = "idle" /\ lock' # j /\ lock' \in {lock, Null}
       \/ FindsDue(j)
       \/ PassesGate(j)
       \/ GoesOn(j)

LEMMA FinishMoves ==
    ASSUME TypeInv, NEW j \in Jobs, NEW o \in Outcomes, Finish(j, o)
    PROVE  Moves(j)
  <1>1. lock' # j /\ lock' \in {lock, Null}
    BY ReminderAssumption DEF Finish
  <1> QED
    BY <1>1, FinishType DEF Moves

LEMMA GotoMoves ==
    ASSUME TypeInv, NEW j \in Jobs, job[j].pc \in PastGate,
           NEW step \in {"send", "log", "advance"}, Goto(j, step), UNCHANGED lock,
           step = "send" => job[j].pc = "dedup"
    PROVE  Moves(j)
  <1>1. step \in Steps
    BY DEF Steps
  <1> QED
    BY <1>1, GotoType DEF Moves, GoesOn, Keeps

LEMMA JobMoves ==
    ASSUME TypeInv, NEW j \in Jobs,
           \/ \E i \in Invoices : StartJob(j, i)
           \/ JobStep(j)
           \/ Abort(j)
    PROVE  Moves(j)
  <1>0. job \in [Jobs -> JobRecord]
    BY DEF TypeInv, TypeOK
  <1>1. {"skipped", "error", "held", "sent"} \subseteq Outcomes
    BY DEF Outcomes
  <1>2. CASE \E o \in Outcomes : Finish(j, o)
    BY <1>2, FinishMoves
  <1>3. CASE \E i \in Invoices : StartJob(j, i)
    BY <1>0, <1>3 DEF StartJob, Slot, Moves
  <1>4. CASE ReadInvoice(j)
    BY <1>0, <1>1, <1>2, <1>4 DEF ReadInvoice, Moves, FindsDue, JobRecord
  <1>5. CASE Gate(j)
    <2>1. Refusal(job[j].inv, job[j].from) \in Outcomes
      BY RefusalType DEF Outcomes
    <2>2. CASE InTransaction(j) /\ Refusal(job[j].inv, job[j].from) = "none"
      BY <1>0, <1>5, <2>2 DEF Gate, InTransaction, Moves, PassesGate, JobRecord
    <2> QED
      BY <1>1, <1>2, <1>5, <2>1, <2>2 DEF Gate
  <1>6. CASE Dedup(j) \/ Send(j) \/ Log(j)
    <2>1. job[j].pc \in PastGate
      BY <1>6 DEF Dedup, Send, Log, PastGate
    <2>2. \/ \E o \in Outcomes : Finish(j, o)
          \/ \E step \in {"send", "log", "advance"} :
                /\ Goto(j, step) /\ UNCHANGED lock
                /\ step = "send" => job[j].pc = "dedup"
      BY <1>1, <1>6 DEF Dedup, Send, SendFails, Log
    <2> QED
      BY <1>2, <2>1, <2>2, GotoMoves
  <1>7. CASE Advance(j) \/ Abort(j)
    BY <1>1, <1>2, <1>7 DEF Advance, Abort
  <1> QED
    BY <1>3, <1>4, <1>5, <1>6, <1>7 DEF JobStep

\* The invoice that an execution advances, and the charge it makes.
Advances(j) ==
    /\ lock = j /\ lock' = Null
    /\ job[j].pc = "advance" /\ job'[j].pc = "idle"
    /\ \A k \in Jobs : k # j => job'[k] = job[k]
    /\ currentStage' = [currentStage EXCEPT ![job[j].inv] = job[j].target]
    /\ firstChasedAt' = FirstCharge(j)
    /\ UNCHANGED <<mailVars, accountVars>>

\* What any step is, as far as the invariants below can tell.
LEMMA StepMoves ==
    ASSUME TypeInv, [Next]_vars
    PROVE  \/ \E j \in Jobs : Advances(j)
           \/ /\ UNCHANGED <<currentStage, firstChasedAt>>
              /\ \/ \E j \in Jobs : Moves(j) /\ UNCHANGED accountVars
                 \/ UNCHANGED <<job, lock, mailVars>> /\ period' \in {period, period + 1}
                 \/ UNCHANGED <<job, mailVars, accountVars>> /\ lock' = Null
  <1>1. ASSUME NEW j \in Jobs, Advance(j), InTransaction(j) PROVE Advances(j)
    <2>1. Finish(j, "sent") /\ "sent" \in Outcomes
      BY <1>1 DEF Advance, Outcomes
    <2>2. lock = j /\ lock' = Null
      BY <1>1, <2>1 DEF InTransaction, Finish
    <2>3. job'[j].pc = "idle" /\ \A k \in Jobs : k # j => job'[k] = job[k]
      BY <2>1, FinishType
    <2> QED
      BY <1>1, <2>2, <2>3 DEF Advance, Advances, mailVars, accountVars
  <1>2. ASSUME NEW j \in Jobs,
               \/ \E i \in Invoices : StartJob(j, i)
               \/ JobStep(j) /\ ~(Advance(j) /\ InTransaction(j))
               \/ Abort(j)
        PROVE  Moves(j) /\ UNCHANGED <<currentStage, firstChasedAt, accountVars>>
    <2>1. Moves(j)
      BY <1>2, JobMoves
    <2>2. UNCHANGED <<currentStage, firstChasedAt, accountVars>>
      BY <1>2
      DEF StartJob, JobStep, ReadInvoice, Gate, Dedup, Send, Log, Advance, Abort,
          invoiceVars, accountVars
    <2> QED
      BY <2>1, <2>2
  <1>3. ASSUME NEW j \in Jobs, TxTimeout(j)
        PROVE  /\ UNCHANGED <<currentStage, firstChasedAt, job, mailVars, accountVars>>
               /\ lock' = Null
    BY <1>3 DEF TxTimeout, invoiceVars
  <1>4. CASE Environment \/ UNCHANGED vars
    <2>1. UNCHANGED <<currentStage, firstChasedAt, job, lock, mailVars>>
      BY <1>4
      DEF Environment, RouteRead, RouteWrite, ResumeSnoozed, StripePaid, Agree,
          BreakPromise, EndArrangement, ChangeAccess, NextDay, NextPeriod, vars,
          invoiceVars, mailVars
    <2>2. period' \in {period, period + 1}
      BY <1>4
      DEF Environment, RouteRead, RouteWrite, ResumeSnoozed, StripePaid, Agree,
          BreakPromise, EndArrangement, ChangeAccess, NextDay, NextPeriod, vars,
          invoiceVars, mailVars, accountVars
    <2> QED
      BY <2>1, <2>2
  <1> QED
    BY <1>1, <1>2, <1>3, <1>4 DEF Next

\* What any step does to the provider and to the log.
LEMMA MailMoves ==
    ASSUME [Next]_vars
    PROVE  \/ UNCHANGED mailVars
           \/ \E j \in Jobs : /\ job[j].pc = "send" /\ job[j].inv \notin Undeliverable
                              /\ ProviderAccepts(job[j].inv, job[j].target)
                              /\ UNCHANGED emailLog
           \/ \E j \in Jobs :
                 /\ \/ job[j].pc = "send" /\ job[j].inv \in Undeliverable
                    \/ job[j].pc = "log"
                 /\ emailLog' = [emailLog EXCEPT ![job[j].inv] = @ \cup {job[j].target}]
                 /\ UNCHANGED <<keys, delivered>>
  <1>1. ASSUME NEW j \in Jobs, Send(j) \/ Log(j)
        PROVE  \/ UNCHANGED mailVars
               \/ /\ job[j].pc = "send" /\ job[j].inv \notin Undeliverable
                  /\ ProviderAccepts(job[j].inv, job[j].target)
                  /\ UNCHANGED emailLog
               \/ /\ \/ job[j].pc = "send" /\ job[j].inv \in Undeliverable
                     \/ job[j].pc = "log"
                  /\ emailLog' = [emailLog EXCEPT ![job[j].inv] = @ \cup {job[j].target}]
                  /\ UNCHANGED <<keys, delivered>>
    BY <1>1 DEF Send, SendFails, Log, mailVars
  <1>2. CASE ~\E j \in Jobs : Send(j) \/ Log(j)
    BY <1>2
    DEF Next, JobStep, Environment, vars, StartJob, ReadInvoice, Gate, Dedup, Advance,
        TxTimeout, Abort, RouteRead, RouteWrite, ResumeSnoozed, StripePaid, Agree,
        BreakPromise, EndArrangement, ChangeAccess, NextDay, NextPeriod
  <1> QED
    BY <1>1, <1>2

\* Neither the provider nor the log forgets.
LEMMA MailGrows ==
    ASSUME TypeInv, [Next]_vars
    PROVE  keys \subseteq keys' /\ \A i \in Invoices : emailLog[i] \subseteq emailLog'[i]
  <1>1. emailLog \in [Invoices -> SUBSET Stages]
    BY DEF TypeInv, TypeOK
  <1> QED
    BY <1>1, MailMoves DEF mailVars, ProviderAccepts

\* An execution comes to log or to advance only when there is reason to.
LEMMA Arrives ==
    ASSUME TypeInv, [Next]_vars, NEW j \in Jobs, job'[j] # job[j]
    PROVE  /\ job'[j].pc = "log" =>
                 /\ <<job'[j].inv, job'[j].target>> \in keys'
                 /\ job'[j].inv \notin Undeliverable
           /\ job'[j].pc = "advance" => job'[j].target \in emailLog'[job'[j].inv]
  <1> SUFFICES ASSUME job'[j].pc \in {"log", "advance"}
               PROVE  /\ job'[j].pc = "log" =>
                            /\ <<job'[j].inv, job'[j].target>> \in keys'
                            /\ job'[j].inv \notin Undeliverable
                      /\ job'[j].pc = "advance" => job'[j].target \in emailLog'[job'[j].inv]
    OBVIOUS
  <1>1. Moves(j) /\ (Dedup(j) \/ Send(j) \/ Log(j))
    <2>1. ASSUME NEW k \in Jobs, \E i \in Invoices : StartJob(k, i) PROVE FALSE
      <3>1. k # j => job'[j] = job[j]
        BY <2>1, JobMoves DEF Moves
      <3>2. job'[k].pc = "wait"
        BY <2>1 DEF StartJob, Slot, TypeInv, TypeOK
      <3> QED
        BY <3>1, <3>2
    <2>2. ASSUME NEW k \in Jobs, JobStep(k) \/ Abort(k) PROVE k = j
      BY <2>2, JobMoves DEF Moves
    <2>3. CASE JobStep(j) \/ Abort(j)
      <3>1. Moves(j)
        BY <2>3, JobMoves
      <3>2. ~Abort(j)
        <4>1. Abort(j) => job'[j].pc = "idle"
          BY FinishType DEF Abort, Outcomes
        <4> QED
          BY <4>1
      <3>3. ~ReadInvoice(j) /\ ~Gate(j)
        BY <3>1 DEF Moves, ReadInvoice, Gate, FindsDue, PassesGate, GoesOn, PastGate
      <3>4. ~Advance(j)
        <4>1. Advance(j) => job'[j].pc = "idle"
          BY FinishType DEF Advance, Outcomes
        <4> QED
          BY <4>1
      <3> QED
        BY <2>3, <3>1, <3>2, <3>3, <3>4 DEF JobStep
    <2>4. CASE (\E k \in Jobs : TxTimeout(k)) \/ Environment \/ UNCHANGED vars
      BY <2>4
      DEF TxTimeout, Environment, vars, RouteRead, RouteWrite, ResumeSnoozed, StripePaid,
          Agree, BreakPromise, EndArrangement, ChangeAccess, NextDay, NextPeriod
    <2> QED
      BY <2>1, <2>2, <2>3, <2>4 DEF Next
  <1>2. Keeps(j) /\ job[j].inv \in Invoices /\ job[j].target \in Stages
    <2>1. job[j].pc \in PastGate
      BY <1>1 DEF Dedup, Send, Log, PastGate
    <2>2. Keeps(j)
      BY <1>1, <2>1 DEF Moves, GoesOn, FindsDue, PassesGate, PastGate
    <2> QED
      BY <2>1, <2>2, PastGateType
  <1>3. \A o \in Outcomes : ~Finish(j, o)
    BY FinishType
  <1>4. {"skipped", "error"} \subseteq Outcomes
    BY DEF Outcomes
  <1>5. \A step \in {"send", "log", "advance"} : Goto(j, step) => job'[j].pc = step
    BY GotoType DEF Steps
  <1>6. CASE Dedup(j)
    BY <1>2, <1>3, <1>4, <1>5, <1>6 DEF Dedup, mailVars, Keeps
  <1>7. CASE Send(j)
    <2>1. CASE job[j].inv \in Undeliverable
      BY <1>2, <1>3, <1>4, <1>5, <1>7, <2>1 DEF Send, SendFails, Keeps, TypeInv, TypeOK
    <2>2. CASE job[j].inv \notin Undeliverable
      BY <1>2, <1>3, <1>4, <1>5, <1>7, <2>2 DEF Send, SendFails, ProviderAccepts, Keeps
    <2> QED
      BY <2>1, <2>2
  <1>8. CASE Log(j)
    BY <1>2, <1>3, <1>4, <1>5, <1>8 DEF Log, Keeps, TypeInv, TypeOK
  <1> QED
    BY <1>1, <1>6, <1>7, <1>8
-----------------------------------------------------------------------------
(* Each email at most once, and a history that is true.                    *)

LEMMA KeyStep == TypeInv /\ KeyInv /\ [Next]_vars => KeyInv'
  <1> SUFFICES ASSUME TypeInv, KeyInv, [Next]_vars PROVE KeyInv'
    OBVIOUS
  <1>1. CASE UNCHANGED <<keys, delivered>>
    BY <1>1 DEF KeyInv
  <1>2. ASSUME NEW j \in Jobs, job[j].pc = "send",
               ProviderAccepts(job[j].inv, job[j].target)
        PROVE  KeyInv'
    <2> DEFINE i == job[j].inv
               s == job[j].target
    <2>1. i \in Invoices /\ s \in Stages
      BY <1>2, PastGateType DEF PastGate
    <2>2. delivered \in [Invoices -> [Stages -> Nat]]
      BY DEF TypeInv, TypeOK
    <2>3. ASSUME NEW k \in Invoices, NEW t \in Stages
          PROVE  delivered'[k][t] = IF <<k, t>> \in keys' THEN 1 ELSE 0
      <3>1. delivered[k][t] = IF <<k, t>> \in keys THEN 1 ELSE 0
        BY DEF KeyInv
      <3>2. CASE <<i, s>> \in keys
        BY <1>2, <3>1, <3>2 DEF ProviderAccepts
      <3>3. CASE <<i, s>> \notin keys
        <4>1. delivered' = [delivered EXCEPT ![i][s] = @ + 1]
          BY <1>2, <3>3 DEF ProviderAccepts
        <4>2. delivered'[k][t] = IF k = i /\ t = s THEN delivered[k][t] + 1
                                                   ELSE delivered[k][t]
          BY <2>1, <2>2, <4>1
        <4>3. <<k, t>> \in keys' <=> <<k, t>> \in keys \/ (k = i /\ t = s)
          BY <1>2 DEF ProviderAccepts
        <4> QED
          BY <3>1, <3>3, <4>2, <4>3
      <3> QED
        BY <3>2, <3>3
    <2> QED
      BY <2>3 DEF KeyInv
  <1> QED
    BY <1>1, <1>2, MailMoves DEF mailVars

\* However executions crash, outlive their lock or run again, no client gets a
\* stage's email twice: sendFollowUpEmail's idempotency key and log see to it.
THEOREM NoDuplicateEmails == Spec => []AtMostOneEmailPerStage
  <1>1. Init => KeyInv
    BY DEF Init, KeyInv
  <1>2. KeyInv => AtMostOneEmailPerStage
    <2> SUFFICES ASSUME KeyInv, NEW i \in Invoices, NEW s \in Stages
                 PROVE  delivered[i][s] <= 1
      BY DEF AtMostOneEmailPerStage
    <2>1. delivered[i][s] = 0 \/ delivered[i][s] = 1
      BY DEF KeyInv
    <2> QED
      BY <2>1
  <1> QED
    BY <1>1, <1>2, TypeInit, TypeStep, KeyStep, PTL DEF Spec

LEMMA HistoryStep == TypeInv /\ HistoryInv /\ [Next]_vars => HistoryInv'
  <1> SUFFICES ASSUME TypeInv, HistoryInv, [Next]_vars PROVE HistoryInv'
    OBVIOUS
  <1>1. emailLog \in [Invoices -> SUBSET Stages]
    BY DEF TypeInv, TypeOK
  <1>2. keys \subseteq keys' /\ \A i \in Invoices : emailLog[i] \subseteq emailLog'[i]
    BY MailGrows
  <1>3. ASSUME NEW i \in Invoices, NEW s \in Stages
        PROVE  /\ i \notin Undeliverable /\ s \in emailLog'[i] => <<i, s>> \in keys'
               /\ i \in Undeliverable => <<i, s>> \notin keys'
    <2>1. /\ i \notin Undeliverable /\ s \in emailLog[i] => <<i, s>> \in keys
          /\ i \in Undeliverable => <<i, s>> \notin keys
      BY DEF HistoryInv
    <2>2. CASE UNCHANGED mailVars
      BY <2>1, <2>2 DEF mailVars
    <2>3. ASSUME NEW j \in Jobs, job[j].inv \notin Undeliverable,
                 ProviderAccepts(job[j].inv, job[j].target), UNCHANGED emailLog
          PROVE  /\ i \notin Undeliverable /\ s \in emailLog'[i] => <<i, s>> \in keys'
                 /\ i \in Undeliverable => <<i, s>> \notin keys'
      BY <2>1, <2>3 DEF ProviderAccepts
    <2>4. ASSUME NEW j \in Jobs,
                 \/ job[j].pc = "send" /\ job[j].inv \in Undeliverable
                 \/ job[j].pc = "log",
                 emailLog' = [emailLog EXCEPT ![job[j].inv] = @ \cup {job[j].target}],
                 UNCHANGED <<keys, delivered>>
          PROVE  /\ i \notin Undeliverable /\ s \in emailLog'[i] => <<i, s>> \in keys'
                 /\ i \in Undeliverable => <<i, s>> \notin keys'
      <3>1. job[j].inv \notin Undeliverable => <<job[j].inv, job[j].target>> \in keys
        BY <2>4 DEF HistoryInv
      <3> QED
        BY <1>1, <2>1, <2>4, <3>1
    <2> QED
      BY <2>2, <2>3, <2>4, MailMoves
  <1>4. ASSUME NEW i \in Invoices, currentStage'[i] # 0
        PROVE  currentStage'[i] \in emailLog'[i]
    <2>1. CASE UNCHANGED currentStage
      BY <1>2, <1>4, <2>1 DEF HistoryInv
    <2>2. ASSUME NEW j \in Jobs, Advances(j) PROVE currentStage'[i] \in emailLog'[i]
      <3>1. job[j].target \in emailLog[job[j].inv]
        BY <2>2 DEF Advances, HistoryInv
      <3> QED
        BY <1>2, <1>4, <2>2, <3>1 DEF Advances, HistoryInv, TypeInv, TypeOK
    <2> QED
      BY <2>1, <2>2, StepMoves
  <1>5. ASSUME NEW j \in Jobs
        PROVE  /\ job'[j].pc = "log" => <<job'[j].inv, job'[j].target>> \in keys'
               /\ job'[j].pc = "advance" => job'[j].target \in emailLog'[job'[j].inv]
    <2>1. CASE job'[j] = job[j]
      <3>1. job[j].pc = "advance" => job[j].inv \in Invoices
        BY PastGateType DEF PastGate
      <3> QED
        BY <1>2, <2>1, <3>1 DEF HistoryInv
    <2>2. CASE job'[j] # job[j]
      BY <2>2, Arrives
    <2> QED
      BY <2>1, <2>2
  <1> QED
    BY <1>3, <1>4, <1>5 DEF HistoryInv

\* What the log, the provider and an invoice's stage say happened did happen,
\* whichever of them an execution failed to write.
THEOREM TrueHistory == Spec => []HistoryIsTrue
  <1>1. Init => KeyInv /\ HistoryInv
    <2> SUFFICES ASSUME Init PROVE KeyInv /\ HistoryInv
      OBVIOUS
    <2>1. \A j \in Jobs : job[j].pc = "idle"
      BY DEF Init, Resting, Slot
    <2> QED
      BY <2>1 DEF Init, KeyInv, HistoryInv
  <1>2. TypeInv /\ KeyInv /\ HistoryInv => HistoryIsTrue
    <2> SUFFICES ASSUME TypeInv, KeyInv, HistoryInv, NEW i \in Invoices
                 PROVE  /\ i \notin Undeliverable => \A s \in emailLog[i] : delivered[i][s] > 0
                        /\ i \in Undeliverable => \A s \in Stages : delivered[i][s] = 0
                        /\ currentStage[i] # 0 => currentStage[i] \in emailLog[i]
      BY DEF HistoryIsTrue
    <2>1. emailLog[i] \subseteq Stages
      BY DEF TypeInv, TypeOK
    <2>2. ASSUME i \notin Undeliverable, NEW s \in emailLog[i] PROVE delivered[i][s] > 0
      <3>1. <<i, s>> \in keys
        BY <2>1, <2>2 DEF HistoryInv
      <3>2. delivered[i][s] = 1
        BY <2>1, <2>2, <3>1 DEF KeyInv
      <3> QED
        BY <3>2
    <2>3. i \in Undeliverable => \A s \in Stages : delivered[i][s] = 0
      BY DEF KeyInv, HistoryInv
    <2> QED
      BY <2>2, <2>3 DEF HistoryInv
  <1> QED
    BY <1>1, <1>2, TypeInit, TypeStep, KeyStep, HistoryStep, PTL DEF Spec
-----------------------------------------------------------------------------
(* What the account's lock protects.                                       *)

LEMMA LockStep == TypeInv /\ LockInv /\ [Next]_vars => LockInv'
  <1> SUFFICES ASSUME TypeInv, LockInv, [Next]_vars, NEW k \in Jobs, lock' = k
               PROVE  job'[k].pc \in Active /\ currentStage'[job'[k].inv] = job'[k].from
    BY DEF LockInv
  <1>0. lock' # Null
    BY ReminderAssumption
  <1>1. ASSUME NEW j \in Jobs, Advances(j) PROVE FALSE
    BY <1>0, <1>1 DEF Advances
  <1>2. ASSUME NEW j \in Jobs, Moves(j), UNCHANGED currentStage
        PROVE  job'[k].pc \in Active /\ currentStage'[job'[k].inv] = job'[k].from
    <2>1. CASE k # j
      <3>1. lock = k
        BY <1>0, <1>2, <2>1 DEF Moves, FindsDue, PassesGate, GoesOn
      <3> QED
        BY <1>2, <2>1, <3>1 DEF Moves, LockInv
    <2>2. CASE k = j
      <3>1. CASE FindsDue(j)
        BY <1>2, <2>2, <3>1 DEF FindsDue, Active
      <3>2. CASE PassesGate(j)
        BY <1>2, <2>2, <3>2 DEF PassesGate, LockInv, Active
      <3>3. CASE GoesOn(j)
        BY <1>2, <2>2, <3>3 DEF GoesOn, Keeps, LockInv, Active
      <3>4. CASE job[j].pc = "idle" /\ lock' = lock
        BY <2>2, <3>4 DEF LockInv, Active
      <3> QED
        BY <1>2, <2>2, <3>1, <3>2, <3>3, <3>4 DEF Moves
    <2> QED
      BY <2>1, <2>2
  <1>3. CASE UNCHANGED <<job, lock, currentStage>>
    BY <1>3 DEF LockInv
  <1> QED
    BY <1>0, <1>1, <1>2, <1>3, StepMoves

\* The holder of the lock moves its invoice on from the stage it read, and
\* nobody else moves one.
LEMMA StageGrows ==
    ASSUME TypeInv, LockInv, [Next]_vars, NEW i \in Invoices
    PROVE  currentStage'[i] >= currentStage[i]
  <1>1. currentStage \in [Invoices -> 0..3]
    BY DEF TypeInv, TypeOK
  <1>2. CASE UNCHANGED currentStage
    BY <1>1, <1>2
  <1>3. ASSUME NEW j \in Jobs, Advances(j) PROVE currentStage'[i] >= currentStage[i]
    <2>1. currentStage[job[j].inv] = job[j].from
      BY <1>3 DEF Advances, LockInv
    <2>2. /\ job[j].target > job[j].from /\ job[j].target \in Stages
          /\ job[j].inv \in Invoices
      BY <1>3, PastGateType DEF Advances, PastGate
    <2>3. currentStage'[i] = IF i = job[j].inv THEN job[j].target ELSE currentStage[i]
      BY <1>1, <1>3, <2>2 DEF Advances
    <2> QED
      BY <1>1, <2>1, <2>2, <2>3 DEF Stages
  <1> QED
    BY <1>2, <1>3, StepMoves

\* No execution moves an invoice back in its sequence: only the holder of the
\* lock writes the stage, and it writes a later one than it found.
THEOREM StagesOnlyAdvance == Spec => StageNeverGoesBack
  <1>1. Init => LockInv
    BY ReminderAssumption DEF Init, LockInv
  <1>2. TypeInv /\ LockInv /\ [Next]_vars
          => [\A i \in Invoices : currentStage'[i] >= currentStage[i]]_vars
    BY StageGrows
  <1> QED
    BY <1>1, <1>2, TypeInit, TypeStep, LockStep, PTL DEF Spec, StageNeverGoesBack

\* The usage of a period is a number.
LEMMA UsageType ==
    /\ Usage \in Nat
    /\ IsFiniteSet({i \in Invoices : firstChasedAt[i] = period})
  <1>1. IsFiniteSet({i \in Invoices : firstChasedAt[i] = period})
    BY ReminderAssumption, FS_Subset
  <1> QED
    BY <1>1, FS_CardinalityType DEF Usage

\* Advancing an invoice charges at most one first chase, for which the holder
\* of the lock has room.
LEMMA ChargeAdvance ==
    ASSUME TypeInv, LockInv, ChargeInv, NEW j \in Jobs, Advances(j)
    PROVE  ChargeInv'
  <1> DEFINE i == job[j].inv
             charged == {k \in Invoices : firstChasedAt[k] = period}
  <1>1. i \in Invoices /\ job[j].target \in Stages /\ job[j].from \in 0..2
    BY PastGateType DEF Advances, PastGate
  <1>2. currentStage[i] = job[j].from
    BY DEF Advances, LockInv
  <1>3. /\ currentStage \in [Invoices -> 0..3] /\ firstChasedAt \in [Invoices -> Nat]
        /\ period \in Nat \ {0} /\ period' = period
    BY DEF TypeInv, TypeOK, Advances, accountVars
  <1>4. currentStage' = [currentStage EXCEPT ![i] = job[j].target]
    BY DEF Advances
  <1>5. lock' # j /\ \A k \in Jobs : lock' # k
    BY ReminderAssumption DEF Advances
  <1>6. CASE job[j].from # 0
    <2>1. firstChasedAt' = firstChasedAt
      BY <1>6 DEF Advances, FirstCharge
    <2>2. Usage' = Usage
      BY <1>3, <2>1 DEF Usage
    <2>3. \A k \in Invoices : currentStage'[k] = 0 <=> firstChasedAt'[k] = 0
      BY <1>1, <1>2, <1>3, <1>4, <1>6, <2>1 DEF ChargeInv, Stages
    <2> QED
      BY <1>3, <1>5, <2>1, <2>2, <2>3 DEF ChargeInv
  <1>7. CASE job[j].from = 0
    <2>1. firstChasedAt' = [firstChasedAt EXCEPT ![i] = period]
      BY <1>7 DEF Advances, FirstCharge
    <2>2. Usage < Allowance
      BY <1>7 DEF Advances, ChargeInv, PastGate
    <2>3. firstChasedAt[i] = 0
      BY <1>1, <1>2, <1>7 DEF ChargeInv
    <2>4. {k \in Invoices : firstChasedAt'[k] = period'} = charged \cup {i}
      BY <1>1, <1>3, <2>1
    <2>5. i \notin charged
      BY <1>3, <2>3
    <2>6. Usage' = Usage + 1
      BY <2>4, <2>5, UsageType, FS_AddElement DEF Usage
    <2>7. Usage' <= Allowance
      BY <2>2, <2>6, UsageType, ReminderAssumption
    <2>8. \A k \in Invoices : currentStage'[k] = 0 <=> firstChasedAt'[k] = 0
      BY <1>1, <1>3, <1>4, <2>1 DEF ChargeInv, Stages
    <2>9. \A k \in Invoices : firstChasedAt'[k] <= period'
      BY <1>3, <2>1 DEF ChargeInv
    <2> QED
      BY <1>5, <2>7, <2>8, <2>9 DEF ChargeInv
  <1> QED
    BY <1>6, <1>7

LEMMA ChargeStep == TypeInv /\ LockInv /\ ChargeInv /\ [Next]_vars => ChargeInv'
  <1> SUFFICES ASSUME TypeInv, LockInv, ChargeInv, [Next]_vars PROVE ChargeInv'
    OBVIOUS
  <1>1. ASSUME NEW j \in Jobs, Advances(j) PROVE ChargeInv'
    BY <1>1, ChargeAdvance
  <1>2. ASSUME UNCHANGED <<currentStage, firstChasedAt>>, UNCHANGED accountVars,
               \A k \in Jobs :
                  lock' = k /\ job'[k].pc \in PastGate /\ job'[k].from = 0 => Usage < Allowance
        PROVE  ChargeInv'
    <2>1. Usage' = Usage /\ period' = period
      BY <1>2 DEF Usage, accountVars
    <2> QED
      BY <1>2, <2>1 DEF ChargeInv
  <1>3. ASSUME NEW j \in Jobs, Moves(j), UNCHANGED <<currentStage, firstChasedAt, accountVars>>
        PROVE  ChargeInv'
    <2>1. ASSUME NEW k \in Jobs, lock' = k, job'[k].pc \in PastGate, job'[k].from = 0
          PROVE  Usage < Allowance
      <3>1. CASE k # j
        BY <1>3, <2>1, <3>1, ReminderAssumption
        DEF Moves, FindsDue, PassesGate, GoesOn, ChargeInv
      <3>2. CASE k = j /\ PassesGate(j)
        <4>1. Refusal(job[j].inv, 0) = "none"
          BY <2>1, <3>2 DEF PassesGate
        <4>2. ~(Usage >= Allowance)
          <5> SUFFICES ASSUME Usage >= Allowance PROVE FALSE
            OBVIOUS
          <5>1. CASE ~access \/ agreed[job[j].inv] # {}
            BY <4>1, <5>1 DEF Refusal
          <5>2. CASE access /\ agreed[job[j].inv] = {}
            BY <4>1, <5>2 DEF Refusal
          <5> QED
            BY <5>1, <5>2
        <4> QED
          BY <4>2, UsageType, ReminderAssumption
      <3>3. CASE k = j /\ GoesOn(j)
        BY <2>1, <3>3 DEF GoesOn, Keeps, ChargeInv
      <3> QED
        BY <1>3, <2>1, <3>1, <3>2, <3>3 DEF Moves, FindsDue, PastGate
    <2> QED
      BY <1>2, <1>3, <2>1
  <1>4. ASSUME UNCHANGED <<currentStage, firstChasedAt, job, lock>>,
               period' \in {period, period + 1}
        PROVE  ChargeInv'
    <2>1. CASE period' = period
      BY <1>4, <2>1 DEF ChargeInv, Usage
    <2>2. CASE period' = period + 1
      <3>1. period \in Nat /\ firstChasedAt \in [Invoices -> Nat]
        BY DEF TypeInv, TypeOK
      <3>2. {i \in Invoices : firstChasedAt'[i] = period'} = {}
        BY <1>4, <2>2, <3>1 DEF ChargeInv
      <3>3. Usage' = 0
        BY <3>2, FS_EmptySet DEF Usage
      <3>4. Usage < Allowance => 0 < Allowance
        BY UsageType, ReminderAssumption
      <3>5. Usage' <= Allowance
        BY <3>3, ReminderAssumption
      <3> QED
        BY <1>4, <2>2, <3>1, <3>3, <3>4, <3>5 DEF ChargeInv
    <2> QED
      BY <1>4, <2>1, <2>2
  <1>5. ASSUME UNCHANGED <<currentStage, firstChasedAt, accountVars>>, lock' = Null
        PROVE  ChargeInv'
    BY <1>2, <1>5, ReminderAssumption
  <1> QED
    BY <1>1, <1>3, <1>4, <1>5, StepMoves

LEMMA ChargeInit == Init => LockInv /\ ChargeInv
  <1> SUFFICES ASSUME Init PROVE LockInv /\ ChargeInv
    OBVIOUS
  <1>1. \A j \in Jobs : lock # j
    BY ReminderAssumption DEF Init
  <1>2. {i \in Invoices : firstChasedAt[i] = period} = {}
    BY DEF Init
  <1>3. Usage = 0
    BY <1>2, FS_EmptySet DEF Usage
  <1> QED
    BY <1>1, <1>3, ReminderAssumption DEF Init, LockInv, ChargeInv

\* No billing period is charged more first chases than the plan allows, however
\* many executions of the account overlap: the lock of sendReminderForInvoice.
THEOREM AllowanceIsKept == Spec => []ChargesWithinAllowance
  <1>1. ChargeInv => ChargesWithinAllowance
    BY DEF ChargeInv, ChargesWithinAllowance
  <1> QED
    BY <1>1, ChargeInit, TypeInit, TypeStep, LockStep, ChargeStep, PTL DEF Spec

\* An invoice is charged to the allowance once for its lifetime.
THEOREM OneChargePerInvoice == Spec => ChargedOnce
  <1>1. TypeInv /\ LockInv /\ ChargeInv /\ [Next]_vars
          => [\A i \in Invoices :
                firstChasedAt[i] # 0 => firstChasedAt'[i] = firstChasedAt[i]]_vars
    <2> SUFFICES ASSUME TypeInv, LockInv, ChargeInv, [Next]_vars,
                        NEW i \in Invoices, firstChasedAt[i] # 0
                 PROVE  firstChasedAt'[i] = firstChasedAt[i]
      OBVIOUS
    <2>1. ASSUME NEW j \in Jobs, Advances(j) PROVE firstChasedAt'[i] = firstChasedAt[i]
      <3>1. currentStage[job[j].inv] = job[j].from /\ job[j].inv \in Invoices
        BY <2>1, PastGateType DEF Advances, LockInv, PastGate
      <3>2. job[j].from = 0 => i # job[j].inv
        BY <3>1 DEF ChargeInv
      <3> QED
        BY <2>1, <3>2 DEF Advances, FirstCharge, TypeInv, TypeOK
    <2> QED
      BY <2>1, StepMoves
  <1> QED
    BY <1>1, ChargeInit, TypeInit, TypeStep, LockStep, ChargeStep, PTL
    DEF Spec, ChargedOnce
-----------------------------------------------------------------------------
(* The contract with the client.                                           *)

LEMMA OrderStep == TypeInv /\ HistoryInv /\ OrderInv /\ [Next]_vars => OrderInv'
  <1> SUFFICES ASSUME TypeInv, HistoryInv, OrderInv, [Next]_vars, ~Tone PROVE OrderInv'
    BY DEF OrderInv
  <1>0. /\ \A i \in Invoices, s \in Stages : s <= currentStage[i] => s \in emailLog[i]
        /\ \A j \in Jobs : job[j].pc \in Active =>
              \A s \in Stages : s <= job[j].from => s \in emailLog[job[j].inv]
        /\ \A j \in Jobs : job[j].pc \in PastGate => job[j].target = job[j].from + 1
    BY DEF OrderInv
  <1>1. \A i \in Invoices : emailLog[i] \subseteq emailLog'[i]
    BY MailGrows
  <1>2. ASSUME NEW i \in Invoices, NEW s \in Stages, s <= currentStage'[i]
        PROVE  s \in emailLog'[i]
    <2>1. CASE UNCHANGED currentStage
      BY <1>0, <1>1, <1>2, <2>1
    <2>2. ASSUME NEW j \in Jobs, Advances(j) PROVE s \in emailLog'[i]
      <3>1. CASE i # job[j].inv
        BY <1>0, <1>1, <1>2, <2>2, <3>1 DEF Advances, TypeInv, TypeOK
      <3>2. CASE i = job[j].inv
        <4>1. currentStage'[i] = job[j].target
          BY <2>2, <3>2 DEF Advances, TypeInv, TypeOK
        <4>2. job[j].target = job[j].from + 1 /\ job[j].from \in 0..2
          BY <1>0, <2>2, PastGateType DEF Advances, PastGate
        <4>3. job[j].target \in emailLog[i]
          BY <2>2, <3>2 DEF Advances, HistoryInv
        <4>4. s = job[j].target \/ s <= job[j].from
          BY <1>2, <4>1, <4>2 DEF Stages
        <4>5. s <= job[j].from => s \in emailLog[i]
          BY <1>0, <2>2, <3>2 DEF Advances, Active
        <4> QED
          BY <1>1, <4>3, <4>4, <4>5
      <3> QED
        BY <3>1, <3>2
    <2> QED
      BY <2>1, <2>2, StepMoves
  <1>3. ASSUME NEW k \in Jobs
        PROVE  /\ job'[k].pc \in Active =>
                    \A s \in Stages : s <= job'[k].from => s \in emailLog'[job'[k].inv]
               /\ job'[k].pc \in PastGate => job'[k].target = job'[k].from + 1
    <2>1. CASE job'[k] = job[k]
      <3>1. job[k].pc \in Active => job[k].inv \in Invoices
        BY DEF TypeInv, JobInv, Active
      <3> QED
        BY <1>0, <1>1, <2>1, <3>1
    <2>2. ASSUME NEW j \in Jobs, Advances(j), job'[k] # job[k]
          PROVE  job'[k].pc = "idle"
      BY <2>2 DEF Advances
    <2>3. ASSUME NEW j \in Jobs, Moves(j), UNCHANGED currentStage, job'[k] # job[k]
          PROVE  /\ job'[k].pc \in Active =>
                      \A s \in Stages : s <= job'[k].from => s \in emailLog'[job'[k].inv]
                 /\ job'[k].pc \in PastGate => job'[k].target = job'[k].from + 1
      <3>1. k = j
        BY <2>3 DEF Moves
      <3>2. CASE FindsDue(j)
        <4>1. job[k].inv \in Invoices
          BY <3>1, <3>2 DEF FindsDue, TypeInv, JobInv
        <4> QED
          BY <1>0, <1>1, <3>1, <3>2, <4>1 DEF FindsDue, PastGate
      <3>3. CASE PassesGate(j)
        <4>1. TargetStage(job[j].from) = job[j].from + 1
          BY DEF TargetStage
        <4>2. job[j].inv \in Invoices
          BY <3>3 DEF PassesGate, TypeInv, JobInv
        <4> QED
          BY <1>0, <1>1, <3>1, <3>3, <4>1, <4>2 DEF PassesGate, Active
      <3>4. CASE GoesOn(j)
        <4>1. job[j].inv \in Invoices
          BY <3>4, PastGateType DEF GoesOn
        <4> QED
          BY <1>0, <1>1, <3>1, <3>4, <4>1 DEF GoesOn, Keeps, Active, PastGate
      <3>5. CASE job'[j].pc \in {"idle", "wait"}
        BY <3>1, <3>5 DEF Active, PastGate
      <3> QED
        BY <2>3, <3>1, <3>2, <3>3, <3>4, <3>5 DEF Moves
    <2>4. CASE UNCHANGED job
      BY <2>1, <2>4
    <2> QED
      BY <2>1, <2>2, <2>3, <2>4, StepMoves DEF Active, PastGate
  <1> QED
    BY <1>2, <1>3 DEF OrderInv

\* An execution never works from a stage its invoice has not reached.
FromInv ==
    \A j \in Jobs : job[j].pc \in Active => job[j].from <= currentStage[job[j].inv]

LEMMA FromStep == TypeInv /\ LockInv /\ FromInv /\ [Next]_vars => FromInv'
  <1> SUFFICES ASSUME TypeInv, LockInv, FromInv, [Next]_vars,
                      NEW k \in Jobs, job'[k].pc \in Active
               PROVE  job'[k].from <= currentStage'[job'[k].inv]
    BY DEF FromInv
  <1>0. currentStage \in [Invoices -> 0..3] /\ currentStage' \in [Invoices -> 0..3]
    BY TypeStep DEF TypeInv, TypeOK
  <1>1. ASSUME job[k].pc \in Active, job'[k].inv = job[k].inv, job'[k].from = job[k].from
        PROVE  job'[k].from <= currentStage'[job'[k].inv]
    <2>1. job[k].inv \in Invoices /\ job[k].from \in 0..2
      BY <1>1 DEF TypeInv, JobInv, Active
    <2>2. job[k].from <= currentStage[job[k].inv]
      BY <1>1 DEF FromInv
    <2>3. currentStage'[job[k].inv] >= currentStage[job[k].inv]
      BY <2>1, StageGrows
    <2> QED
      BY <1>0, <1>1, <2>1, <2>2, <2>3
  <1>2. ASSUME NEW j \in Jobs, Moves(j), UNCHANGED currentStage
        PROVE  job'[k].from <= currentStage'[job'[k].inv]
    <2>1. CASE k # j
      BY <1>1, <1>2, <2>1 DEF Moves
    <2>2. CASE k = j /\ FindsDue(j)
      <3>1. job[k].inv \in Invoices
        BY <2>2 DEF FindsDue, TypeInv, JobInv
      <3> QED
        BY <1>0, <1>2, <2>2, <3>1 DEF FindsDue
    <2>3. CASE k = j /\ PassesGate(j)
      BY <1>1, <2>3 DEF PassesGate, Active
    <2>4. CASE k = j /\ GoesOn(j)
      BY <1>1, <2>4 DEF GoesOn, Keeps, Active, PastGate
    <2> QED
      BY <1>2, <2>1, <2>2, <2>3, <2>4 DEF Moves, Active
  <1>3. ASSUME NEW j \in Jobs, Advances(j) PROVE job'[k].from <= currentStage'[job'[k].inv]
    <2>1. k # j
      BY <1>3 DEF Advances, Active
    <2> QED
      BY <1>1, <1>3, <2>1 DEF Advances
  <1>4. CASE UNCHANGED job
    BY <1>1, <1>4
  <1> QED
    BY <1>2, <1>3, <1>4, StepMoves

\* Without tone escalation only the stage after the invoice's own is coming: an
\* execution that read an earlier one holds a stage the provider has taken.
LEMMA ComingIsNext ==
    ASSUME TypeInv, HistoryInv, OrderInv, LockInv, FromInv, ~Tone,
           NEW i \in Invoices \ Undeliverable, NEW s \in Coming(i)
    PROVE  s = currentStage[i] + 1
  <1>1. currentStage[i] \in 0..3 /\ s \in Stages /\ <<i, s>> \notin keys
    BY DEF TypeInv, TypeOK, Coming
  <1>2. PICK j \in Jobs : /\ job[j].inv = i
                          /\ \/ job[j].pc \in {"dedup", "send"} /\ job[j].target = s
                             \/ /\ job[j].pc = "gate" /\ lock = j
                                /\ s = job[j].from + 1
    BY DEF Coming
  <1>3. CASE job[j].pc \in {"dedup", "send"} /\ job[j].target = s
    <2>1. s = job[j].from + 1 /\ job[j].from \in 0..2
      BY <1>3, PastGateType DEF OrderInv, PastGate
    <2>2. job[j].from <= currentStage[i]
      BY <1>2, <1>3 DEF FromInv, Active
    <2>3. ~(s <= currentStage[i])
      BY <1>1 DEF OrderInv, HistoryInv
    <2> QED
      BY <1>1, <2>1, <2>2, <2>3
  <1>4. CASE job[j].pc = "gate" /\ lock = j /\ s = job[j].from + 1
    BY <1>2, <1>4 DEF LockInv
  <1> QED
    BY <1>2, <1>3, <1>4

\* At most one stage of an invoice is on its way to the client, however many
\* executions work on it, with or without the lock.
THEOREM OneEmailInFlight == Spec => []OneReminderInFlight
  <1>1. Init => HistoryInv /\ OrderInv /\ LockInv /\ FromInv
    <2> SUFFICES ASSUME Init PROVE HistoryInv /\ OrderInv /\ FromInv
      BY ChargeInit
    <2>1. \A j \in Jobs : job[j].pc = "idle"
      BY DEF Init, Resting, Slot
    <2> QED
      BY <2>1 DEF Init, HistoryInv, OrderInv, FromInv, Stages, Active, PastGate
  <1>2. TypeInv /\ HistoryInv /\ OrderInv /\ LockInv /\ FromInv => OneReminderInFlight
    <2> SUFFICES ASSUME TypeInv, HistoryInv, OrderInv, LockInv, FromInv, ~Tone,
                        NEW i \in Invoices \ Undeliverable
                 PROVE  Cardinality(Coming(i)) <= 1
      BY DEF OneReminderInFlight
    <2>1. Coming(i) \subseteq {currentStage[i] + 1}
      BY ComingIsNext
    <2>2. /\ IsFiniteSet({currentStage[i] + 1})
          /\ Cardinality({currentStage[i] + 1}) = 1
      BY FS_Singleton
    <2>3. Cardinality(Coming(i)) <= Cardinality({currentStage[i] + 1})
      BY <2>1, <2>2, FS_Subset
    <2> QED
      BY <2>2, <2>3
  <1> QED
    BY <1>1, <1>2, TypeInit, TypeStep, HistoryStep, OrderStep, LockStep, FromStep, PTL
    DEF Spec

\* A stage on its way after a step was so before it, or the step found the
\* invoice due.
LEMMA ComesFromDue ==
    ASSUME TypeInv, [Next]_vars, NEW i \in Invoices, NEW s \in Coming(i)', ~Eligible(i)
    PROVE  s \in Coming(i)
  <1>0. keys \subseteq keys'
    BY MailGrows
  <1>1. s \in Stages /\ <<i, s>> \notin keys
    BY <1>0 DEF Coming
  <1>2. PICK k \in Jobs :
              /\ job'[k].inv = i
              /\ \/ job'[k].pc \in {"dedup", "send"} /\ job'[k].target = s
                 \/ /\ job'[k].pc = "gate" /\ lock' = k
                    /\ s = job'[k].from + 1 \/ (Tone /\ s = job'[k].from + 2)
    BY DEF Coming
  <1>3. CASE job'[k] = job[k] /\ (lock' = lock \/ lock' # k)
    BY <1>1, <1>2, <1>3 DEF Coming
  <1>4. ASSUME NEW j \in Jobs, Moves(j) PROVE s \in Coming(i)
    <2>1. CASE k # j
      BY <1>3, <1>4, <2>1, ReminderAssumption DEF Moves, FindsDue, PassesGate, GoesOn
    <2>2. CASE k = j /\ FindsDue(j)
      BY <1>2, <2>2 DEF FindsDue
    <2>3. CASE k = j /\ PassesGate(j)
      <3>1. job[j].from \in 0..2
        BY <2>3 DEF PassesGate, TypeInv, JobInv, Active
      <3>2. s = job[j].from + 1 \/ (Tone /\ s = job[j].from + 2)
        BY <1>2, <2>3, <3>1 DEF PassesGate, TargetStage
      <3> QED
        BY <1>1, <1>2, <2>3, <3>2 DEF PassesGate, Coming
    <2>4. CASE k = j /\ GoesOn(j)
      <3>1. job[j].pc = "dedup" /\ job[j].target = s /\ job[j].inv = i
        BY <1>2, <2>4 DEF GoesOn, Keeps
      <3> QED
        BY <1>1, <3>1 DEF Coming
    <2> QED
      BY <1>2, <1>4, <2>1, <2>2, <2>3, <2>4 DEF Moves
  <1>5. ASSUME NEW j \in Jobs, Advances(j) PROVE s \in Coming(i)
    BY <1>2, <1>3, <1>5, ReminderAssumption DEF Advances
  <1>6. CASE UNCHANGED <<job, lock>>
    BY <1>3, <1>6
  <1>7. CASE UNCHANGED job /\ lock' = Null
    BY <1>3, <1>7, ReminderAssumption
  <1> QED
    BY <1>4, <1>5, <1>6, <1>7, StepMoves

\* An email goes out only for a stage that was on its way.
LEMMA DeliversComing ==
    ASSUME TypeInv, [Next]_vars, NEW i \in Invoices, NEW s \in Stages,
           delivered'[i][s] > delivered[i][s]
    PROVE  s \in Coming(i)
  <1>0. delivered \in [Invoices -> [Stages -> Nat]]
    BY DEF TypeInv, TypeOK
  <1>1. delivered' # delivered
    <2>1. delivered[i][s] \in Nat
      BY <1>0
    <2> QED
      BY <2>1
  <1>2. PICK j \in Jobs : job[j].pc = "send" /\ ProviderAccepts(job[j].inv, job[j].target)
    BY <1>1, MailMoves DEF mailVars
  <1>3. /\ <<job[j].inv, job[j].target>> \notin keys
        /\ delivered' = [delivered EXCEPT ![job[j].inv][job[j].target] = @ + 1]
    BY <1>1, <1>2 DEF ProviderAccepts
  <1>4. job[j].inv = i /\ job[j].target = s
    BY <1>0, <1>1, <1>3
  <1> QED
    BY <1>2, <1>3, <1>4 DEF Coming

\* An invoice that is no longer chased gets only the emails on their way.
THEOREM StoppedInvoicesStayQuiet == Spec => StoppedStaysQuiet
  <1>1. TypeInv /\ [Next]_vars
          => [\A i \in Invoices :
                /\ \A s \in Stages : delivered'[i][s] > delivered[i][s] => s \in Coming(i)
                /\ ~Eligible(i) => Coming(i)' \subseteq Coming(i)]_vars
    BY DeliversComing, ComesFromDue
  <1> QED
    BY <1>1, TypeInit, TypeStep, PTL DEF Spec, StoppedStaysQuiet

\* A step of the sequence is a delivery the contract allows or none at all.
LEMMA ContractStep ==
    TypeInv /\ KeyInv /\ HistoryInv /\ OrderInv /\ [Next]_vars
        => [Contract!Next]_delivered
  <1> SUFFICES ASSUME TypeInv, KeyInv, HistoryInv, OrderInv, [Next]_vars,
                      delivered' # delivered
               PROVE  Contract!Next
    OBVIOUS
  <1>1. PICK j \in Jobs : /\ job[j].pc = "send" /\ job[j].inv \notin Undeliverable
                          /\ ProviderAccepts(job[j].inv, job[j].target)
    BY MailMoves DEF mailVars
  <1> DEFINE i == job[j].inv
             s == job[j].target
  <1>2. i \in Invoices \ Undeliverable /\ s \in 1..3 /\ job[j].from \in 0..2
    BY <1>1, PastGateType DEF PastGate, Stages
  <1>3. delivered' = [delivered EXCEPT ![i][s] = @ + 1] /\ <<i, s>> \notin keys
    BY <1>1 DEF ProviderAccepts
  <1>4. delivered[i][s] = 0
    BY <1>2, <1>3 DEF KeyInv, Stages
  <1>5. delivered' = [delivered EXCEPT ![i][s] = 1]
    BY <1>2, <1>3, <1>4 DEF TypeInv, TypeOK, Stages
  <1>6. ASSUME ~Tone, NEW t \in 1..(s - 1) PROVE delivered[i][t] = 1
    <2>1. s = job[j].from + 1 /\ t \in Stages /\ t <= job[j].from
      BY <1>1, <1>2, <1>6 DEF OrderInv, PastGate, Stages
    <2>2. t \in emailLog[i]
      BY <1>1, <1>6, <2>1 DEF OrderInv, Active
    <2>3. <<i, t>> \in keys
      BY <1>2, <2>1, <2>2 DEF HistoryInv
    <2> QED
      BY <1>2, <2>1, <2>3 DEF KeyInv
  <1>7. Contract!Deliver(i, s)
    BY <1>4, <1>5, <1>6 DEF Contract!Deliver
  <1> QED
    BY <1>2, <1>7 DEF Contract!Next

\* The sequence keeps what it promises the client: each stage's email at most
\* once, after those of the earlier stages unless the policy skips stages, and
\* none to an address that cannot be mailed.
THEOREM SequenceKeepsContract == Spec => KeepsContract
  <1>1. Init => KeyInv /\ HistoryInv /\ OrderInv /\ Contract!Init
    <2> SUFFICES ASSUME Init PROVE KeyInv /\ HistoryInv /\ OrderInv /\ Contract!Init
      OBVIOUS
    <2>1. \A j \in Jobs : job[j].pc = "idle"
      BY DEF Init, Resting, Slot
    <2>2. OrderInv
      BY <2>1 DEF Init, OrderInv, Stages, Active, PastGate
    <2>3. KeyInv /\ HistoryInv
      BY <2>1 DEF Init, KeyInv, HistoryInv
    <2>4. Contract!Init
      BY DEF Init, Contract!Init, Stages
    <2> QED
      BY <2>2, <2>3, <2>4
  <1> QED
    BY <1>1, TypeInit, TypeStep, KeyStep, HistoryStep, OrderStep, ContractStep, PTL
    DEF Spec, KeepsContract, Contract!Spec
=============================================================================
