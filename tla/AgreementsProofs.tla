-------------------------- MODULE AgreementsProofs --------------------------
(***************************************************************************)
(* Agreements for any debtors, promises, overlapping submissions, sweeps   *)
(* and deliveries, and faults: types, the promise that stands, the paid    *)
(* arrangement that ends and the number of notices of a breach.            *)
(***************************************************************************)
EXTENDS Agreements, FiniteSetTheorems, TLAPS

USE AgreementsAssumption

-----------------------------------------------------------------------------
(* Types, one lemma per process.                                           *)

\* A status set on some promises keeps them promises.
LEMMA PromiseTypes ==
    ASSUME TypeOK, NEW ps \in SUBSET Promises,
           NEW status \in {"none", "active", "kept", "broken", "superseded"}
    PROVE  With(ps, status) \in [Promises -> PromiseRecord]
<1>1. ASSUME NEW p \in Promises
      PROVE  /\ promise[p] \in PromiseRecord
             /\ [promise[p] EXCEPT !.status = status] \in PromiseRecord
  <2>1. promise[p] \in PromiseRecord
    BY DEF TypeOK
  <2> QED BY <2>1 DEF PromiseRecord
<1> QED BY <1>1 DEF With

\* Active promises are promises made.
LEMMA ActiveAreMade ==
    ASSUME NEW i
    PROVE  ActiveOn(i) \in SUBSET Promises /\ ActiveOn(i) \subseteq Made
BY DEF ActiveOn, Made

\* A submission keeps the types.
LEMMA RequestTypes ==
    ASSUME TypeOK, NEW r \in Requests,
           \/ \E i \in Linked : Submit(r, i)
           \/ Supersede(r) \/ Create(r) \/ AbortRequest(r)
    PROVE  TypeOK'
<1>1. request[r] \in RequestRecord /\ Linked \subseteq Invoices
  BY DEF TypeOK, Linked
<1>2. IdleRequest \in RequestRecord
  BY DEF IdleRequest, RequestRecord
<1>3. CASE \E i \in Linked : Submit(r, i)
  <2>1. PICK i \in Linked : Submit(r, i)
    BY <1>3
  <2>2. [IdleRequest EXCEPT !.pc = "supersede", !.inv = i] \in RequestRecord
    BY <1>1 DEF IdleRequest, RequestRecord
  <2> QED BY <2>1, <2>2 DEF Submit, TypeOK, Covered
<1>4. CASE Supersede(r)
  <2>1. [request[r] EXCEPT !.pc = "create", !.seen = ActiveOn(request[r].inv)]
          \in RequestRecord
    BY <1>1, ActiveAreMade DEF RequestRecord
  <2>2. request' = [request EXCEPT ![r] =
          [request[r] EXCEPT !.pc = "create", !.seen = ActiveOn(request[r].inv)]]
    BY <1>4 DEF Supersede
  <2>3. request' \in [Requests -> RequestRecord]
    BY <2>1, <2>2 DEF TypeOK
  <2> QED BY <1>4, <2>3 DEF Supersede, TypeOK, Covered
<1>5. CASE Create(r)
  <2>1. PICK p \in Promises \ Made, i \in {request[r].inv} :
          /\ promise' = [With(Superseded(r), "superseded") EXCEPT ![p] =
                           [NoPromise EXCEPT !.inv = i, !.status = "active"]]
          /\ latest' = [latest EXCEPT ![i] = [promise |-> p, late |-> request[r].late]]
          /\ request' = [o \in Requests |->
                IF o = r THEN IdleRequest
                ELSE IF request[o].pc = "create" /\ request[o].inv = i
                     THEN [request[o] EXCEPT !.late = TRUE] ELSE request[o]]
    BY <1>5 DEF Create
  <2>2. i \in Invoices \cup {Null}
    BY <1>1 DEF RequestRecord
  <2>3. With(Superseded(r), "superseded") \in [Promises -> PromiseRecord]
    BY PromiseTypes DEF Superseded, ActiveOn
  <2>4. [NoPromise EXCEPT !.inv = i, !.status = "active"] \in PromiseRecord
    BY <2>2 DEF NoPromise, PromiseRecord
  <2>5. promise' \in [Promises -> PromiseRecord]
    BY <2>1, <2>3, <2>4
  <2>6. latest' \in [Invoices -> [promise : Promises \cup {Null}, late : BOOLEAN]]
    BY <1>1, <2>1 DEF TypeOK, RequestRecord
  <2>7. request' \in [Requests -> RequestRecord]
    BY <1>2, <2>1 DEF TypeOK, RequestRecord
  <2> QED BY <1>5, <2>5, <2>6, <2>7 DEF Create, TypeOK, Linked, Covered
<1>6. CASE AbortRequest(r)
  BY <1>2, <1>6 DEF AbortRequest, TypeOK, Covered
<1> QED BY <1>3, <1>4, <1>5, <1>6

\* Who counts what is left of the arrangement has one of its invoices.
CountInv ==
    \A h \in Handlers : handler[h].pc \in {"count", "fulfil"} =>
                             handler[h].inv \in Covered

\* A delivery of invoice.paid keeps them.
LEMMA HandlerTypes ==
    ASSUME TypeOK, CountInv, NEW h \in Handlers,
           \/ \E i \in Linked \cup Covered : Deliver(h, i)
           \/ LookForPromises(h) \/ KeepPromises(h) \/ FindArrangement(h)
           \/ CountUnresolved(h) \/ Fulfil(h) \/ AbortHandler(h)
    PROVE  TypeOK'
<1>1. handler[h] \in HandlerRecord /\ Linked \cup Covered \subseteq Invoices
  BY DEF TypeOK, Linked, Covered
<1>2. IdleHandler \in HandlerRecord
  BY DEF IdleHandler, HandlerRecord
<1>3. CASE \E i \in Linked \cup Covered : Deliver(h, i)
  <2>1. PICK i \in Linked \cup Covered : Deliver(h, i)
    BY <1>3
  <2>2. [IdleHandler EXCEPT !.pc = "look", !.inv = i] \in HandlerRecord
    BY <1>1 DEF IdleHandler, HandlerRecord
  <2> QED BY <2>1, <2>2 DEF Deliver, TypeOK, Covered
<1>4. CASE LookForPromises(h)
  <2>1. [handler[h] EXCEPT !.pc = "keep", !.seen = ActiveOn(handler[h].inv)]
          \in HandlerRecord
    BY <1>1, ActiveAreMade DEF HandlerRecord
  <2>2. handler' = [handler EXCEPT ![h] =
          [handler[h] EXCEPT !.pc = "keep", !.seen = ActiveOn(handler[h].inv)]]
    BY <1>4 DEF LookForPromises
  <2>3. handler' \in [Handlers -> HandlerRecord]
    BY <2>1, <2>2 DEF TypeOK
  <2> QED BY <1>4, <2>3 DEF LookForPromises, TypeOK, Covered
<1>5. CASE KeepPromises(h)
  <2>1. promise' \in [Promises -> PromiseRecord]
    BY <1>5, PromiseTypes, ActiveAreMade DEF KeepPromises
  <2> QED BY <1>1, <1>5, <2>1 DEF KeepPromises, TypeOK, HandlerRecord, Covered
<1>6. CASE FindArrangement(h)
  <2>1. [handler[h] EXCEPT !.pc = "count"] \in HandlerRecord
    BY <1>1 DEF HandlerRecord
  <2>2. handler' \in [Handlers -> HandlerRecord]
    BY <1>2, <1>6, <2>1 DEF FindArrangement, Step, TypeOK
  <2> QED BY <1>6, <2>2 DEF FindArrangement, TypeOK, Covered
<1>7. CASE CountUnresolved(h)
  <2>1. heard' \in SUBSET Covered
    BY <1>7 DEF CountUnresolved, TypeOK, CountInv
  <2>2. handler' \in [Handlers -> HandlerRecord]
    BY <1>1, <1>2, <1>7 DEF CountUnresolved, Step, TypeOK, HandlerRecord
  <2> QED BY <1>7, <2>1, <2>2 DEF CountUnresolved, TypeOK, Covered
<1>8. CASE Fulfil(h)
  <2>1. heard' \in SUBSET Covered
    BY <1>8 DEF Fulfil, TypeOK, CountInv
  <2>2. arrangement' \in ArrangementRecord
    BY <1>8 DEF Fulfil, TypeOK, ArrangementRecord, ArrangementStatuses
  <2> QED BY <1>2, <1>8, <2>1, <2>2 DEF Fulfil, TypeOK, Covered
<1>9. CASE AbortHandler(h)
  BY <1>2, <1>9 DEF AbortHandler, Fault, TypeOK, Covered
<1> QED BY <1>3, <1>4, <1>5, <1>6, <1>7, <1>8, <1>9

\* A sweep that moves on is at a promise when it has one to tell of.
LEMMA SweepGoes ==
    ASSUME TypeOK, NEW s \in Sweeps, NEW next \in SweepRecord,
           sweep' = [sweep EXCEPT ![s] = next],
           next.pc \in {"mail", "tell"} => next.at \in Promises
    PROVE  /\ sweep' \in [Sweeps -> SweepRecord]
           /\ \A t \in Sweeps : sweep'[t].pc \in {"mail", "tell"} =>
                                     sweep'[t].at \in Promises
<1>1. sweep'[s] = next /\ \A t \in Sweeps : t # s => sweep'[t] = sweep[t]
  BY DEF TypeOK
<1> QED BY <1>1 DEF TypeOK

\* A sweep keeps the types.
LEMMA SweepTypes ==
    ASSUME TypeOK, NEW s \in Sweeps, StartSweep(s) \/ SweepStep(s) \/ AbortSweep(s)
    PROVE  TypeOK'
<1>1. sweep[s] \in SweepRecord
  BY DEF TypeOK
<1>2. IdleSweep \in SweepRecord
  BY DEF IdleSweep, SweepRecord
<1>3. CASE StartSweep(s)
  <2>1. Due \in SUBSET Promises
    BY DEF Due
  <2> QED BY <1>2, <1>3, <2>1 DEF StartSweep, TypeOK, IdleSweep, SweepRecord, Covered
<1>4. ASSUME NEW p \in Promises, BreakPromise(s, p)
      PROVE  TypeOK'
  <2>1. promise' \in [Promises -> PromiseRecord]
    BY <1>4, PromiseTypes DEF BreakPromise, TypeOK
  <2>2. /\ sweep' \in [Sweeps -> SweepRecord]
        /\ \A t \in Sweeps : sweep'[t].pc \in {"mail", "tell"} => sweep'[t].at \in Promises
    <3> DEFINE skipped == [sweep[s] EXCEPT !.todo = @ \ {p}]
               broken == [sweep[s] EXCEPT !.pc = "mail", !.at = p, !.todo = @ \ {p}]
    <3>1. skipped \in SweepRecord /\ skipped.pc = sweep[s].pc
      BY <1>1 DEF SweepRecord
    <3>2. broken \in SweepRecord /\ broken.at \in Promises
      BY <1>1 DEF SweepRecord
    <3>3. /\ sweep[s].pc = "promises"
          /\ sweep' = [sweep EXCEPT ![s] = skipped] \/ sweep' = [sweep EXCEPT ![s] = broken]
      BY <1>4 DEF BreakPromise
    <3> HIDE DEF skipped, broken
    <3> QED BY <3>1, <3>2, <3>3, SweepGoes
  <2> QED BY <1>4, <2>1, <2>2 DEF BreakPromise, TypeOK, Covered
<1>n. ASSUME NextPromise(s) \/ sweep' = [sweep EXCEPT ![s].pc = "tell"],
             sweep[s].pc \in {"mail", "tell"}
      PROVE  /\ sweep' \in [Sweeps -> SweepRecord]
             /\ \A t \in Sweeps : sweep'[t].pc \in {"mail", "tell"} =>
                                       sweep'[t].at \in Promises
  <2> DEFINE moved == [sweep[s] EXCEPT !.pc = "promises", !.at = Null]
             told == [sweep[s] EXCEPT !.pc = "tell"]
  <2>1. moved \in SweepRecord /\ moved.pc = "promises"
    BY <1>1 DEF SweepRecord
  <2>2. told \in SweepRecord /\ told.at = sweep[s].at
    BY <1>1 DEF SweepRecord
  <2>3. sweep' = [sweep EXCEPT ![s] = moved] \/ sweep' = [sweep EXCEPT ![s] = told]
    BY <1>n DEF NextPromise
  <2>4. sweep[s].at \in Promises
    BY <1>n DEF TypeOK
  <2> HIDE DEF moved, told
  <2> QED BY <2>1, <2>2, <2>3, <2>4, SweepGoes
<1>5. CASE TellUser(s)
  <2>1. sweep[s].at \in Promises /\ promise[sweep[s].at] \in PromiseRecord
    BY <1>5 DEF TellUser, TypeOK
  <2>2. promise' \in [Promises -> PromiseRecord]
    <3>1. \/ promise' = promise
          \/ promise' = [promise EXCEPT ![sweep[s].at].mails = @ + 1]
      BY <1>5 DEF TellUser
    <3>2. [promise[sweep[s].at] EXCEPT !.mails = @ + 1] \in PromiseRecord
      BY <2>1 DEF PromiseRecord
    <3> QED BY <3>1, <3>2 DEF TypeOK
  <2>3. faults' \in Nat
    BY <1>5 DEF TellUser, Fault, TypeOK
  <2>4. /\ sweep' \in [Sweeps -> SweepRecord]
        /\ \A t \in Sweeps : sweep'[t].pc \in {"mail", "tell"} => sweep'[t].at \in Promises
    BY <1>5, <1>n DEF TellUser
  <2> QED BY <1>5, <2>2, <2>3, <2>4 DEF TellUser, TypeOK, Covered
<1>6. CASE RecordTold(s)
  <2>1. sweep[s].at \in Promises /\ promise[sweep[s].at] \in PromiseRecord
    BY <1>6 DEF RecordTold, TypeOK
  <2>2. promise' \in [Promises -> PromiseRecord]
    <3>1. \/ promise' = promise
          \/ promise' = [promise EXCEPT ![sweep[s].at].told = TRUE]
      BY <1>6 DEF RecordTold
    <3>2. [promise[sweep[s].at] EXCEPT !.told = TRUE] \in PromiseRecord
      BY <2>1 DEF PromiseRecord
    <3> QED BY <3>1, <3>2 DEF TypeOK
  <2>3. faults' \in Nat
    BY <1>6 DEF RecordTold, Fault, TypeOK
  <2>4. /\ sweep' \in [Sweeps -> SweepRecord]
        /\ \A t \in Sweeps : sweep'[t].pc \in {"mail", "tell"} => sweep'[t].at \in Promises
    BY <1>6, <1>n DEF RecordTold
  <2> QED BY <1>6, <2>2, <2>3, <2>4 DEF RecordTold, TypeOK, Covered
<1>7. CASE FindLapsed(s)
  BY <1>2, <1>7 DEF FindLapsed, TypeOK, IdleSweep, SweepRecord, Covered
<1>8. CASE EndArrangement(s)
  BY <1>2, <1>8 DEF EndArrangement, TypeOK, IdleSweep, SweepRecord, ArrangementRecord,
                    ArrangementStatuses, Covered
<1>9. CASE AbortSweep(s)
  BY <1>2, <1>9 DEF AbortSweep, Fault, TypeOK, IdleSweep, SweepRecord, Covered
<1> QED BY <1>3, <1>4, <1>5, <1>6, <1>7, <1>8, <1>9 DEF SweepStep

\* So do the user, the plan and time.
LEMMA UserTypes ==
    ASSUME TypeOK,
           \/ \E form \in Forms : RequestArrangement(form)
           \/ Arrange
           \/ \E status \in ArrangementStatuses : RequestChange(status)
           \/ WriteChange
           \/ \E i \in Linked \cup Covered : Settle(i) \/ Reopen(i)
           \/ ChangeAccess
           \/ \E p \in Promises : PromiseDatePasses(p)
           \/ ArrangementDatePasses
    PROVE  TypeOK'
<1>1. ASSUME NEW form \in Forms, RequestArrangement(form)
      PROVE  TypeOK'
  BY <1>1 DEF RequestArrangement, TypeOK, Covered
<1>2. CASE Arrange
  <2>1. arrangement' \in ArrangementRecord
    BY <1>2 DEF Arrange, ArrangementRecord, ArrangementStatuses
  <2> QED BY <1>2, <2>1 DEF Arrange, TypeOK, Covered
<1>3. ASSUME NEW status \in ArrangementStatuses, RequestChange(status)
      PROVE  TypeOK'
  BY <1>3 DEF RequestChange, TypeOK, Covered
<1>4. CASE WriteChange
  <2>1. arrangement' \in ArrangementRecord
    BY <1>4 DEF WriteChange, TypeOK, ArrangementRecord
  <2>2. heard' \in SUBSET Covered
    BY <1>4 DEF WriteChange, TypeOK
  <2> QED BY <1>4, <2>1, <2>2 DEF WriteChange, TypeOK, Covered
<1>5. ASSUME NEW i \in Linked \cup Covered, Settle(i) \/ Reopen(i)
      PROVE  TypeOK'
  <2>1. settled' \in [Invoices -> BOOLEAN] /\ heard' \in SUBSET Covered
    BY <1>5 DEF Settle, Reopen, TypeOK
  <2> QED BY <1>5, <2>1 DEF Settle, Reopen, TypeOK, Covered
<1>6. CASE ChangeAccess
  BY <1>6 DEF ChangeAccess, TypeOK, Covered
<1>7. ASSUME NEW p \in Promises, PromiseDatePasses(p)
      PROVE  TypeOK'
  <2>1. [promise[p] EXCEPT !.past = TRUE] \in PromiseRecord
    <3>1. promise[p] \in PromiseRecord
      BY DEF TypeOK
    <3> QED BY <3>1 DEF PromiseRecord
  <2>2. promise' \in [Promises -> PromiseRecord]
    BY <1>7, <2>1 DEF PromiseDatePasses, TypeOK
  <2> QED BY <1>7, <2>2 DEF PromiseDatePasses, TypeOK, Covered
<1>8. CASE ArrangementDatePasses
  <2>1. arrangement' \in ArrangementRecord
    BY <1>8 DEF ArrangementDatePasses, TypeOK, ArrangementRecord
  <2> QED BY <1>8, <2>1 DEF ArrangementDatePasses, TypeOK, Covered
<1> QED BY <1>1, <1>2, <1>3, <1>4, <1>5, <1>6, <1>7, <1>8

\* Every step keeps the types,
LEMMA TypeStep == TypeOK /\ CountInv /\ [Next]_vars => TypeOK'
<1> SUFFICES ASSUME TypeOK, CountInv, [Next]_vars PROVE TypeOK'
  OBVIOUS
<1>1. CASE UNCHANGED vars
  BY <1>1 DEF vars, TypeOK, Covered
<1> QED BY <1>1, RequestTypes, HandlerTypes, SweepTypes, UserTypes DEF Next

\* and who counts an arrangement has one of its invoices.
LEMMA CountStep == TypeOK /\ CountInv /\ [Next]_vars => CountInv'
<1> SUFFICES ASSUME TypeOK, CountInv, [Next]_vars PROVE CountInv'
  OBVIOUS
<1>1. scene' = scene
  BY DEF Next, vars, Submit, Supersede, Create, AbortRequest, Deliver,
     LookForPromises, KeepPromises, FindArrangement, CountUnresolved, Fulfil,
     AbortHandler, StartSweep, SweepStep, BreakPromise, TellUser, RecordTold,
     FindLapsed, EndArrangement, AbortSweep, RequestArrangement, Arrange,
     RequestChange, WriteChange, Settle, Reopen, ChangeAccess, PromiseDatePasses,
     ArrangementDatePasses
<1>2. ASSUME NEW h \in Handlers,
             \/ \E i \in Linked \cup Covered : Deliver(h, i)
             \/ LookForPromises(h) \/ KeepPromises(h) \/ FindArrangement(h)
             \/ CountUnresolved(h) \/ Fulfil(h) \/ AbortHandler(h)
      PROVE  CountInv'
  <2>1. \A o \in Handlers : o # h => handler'[o] = handler[o]
    BY <1>2 DEF Deliver, LookForPromises, KeepPromises, FindArrangement,
       CountUnresolved, Fulfil, AbortHandler, Step, TypeOK
  <2>2. handler'[h].pc \in {"count", "fulfil"} => handler'[h].inv \in Covered
    <3>1. CASE FindArrangement(h)
      BY <3>1 DEF FindArrangement, Step, IdleHandler, TypeOK, HandlerRecord
    <3>2. CASE CountUnresolved(h)
      BY <3>2 DEF CountUnresolved, Step, IdleHandler, TypeOK, HandlerRecord, CountInv
    <3>3. CASE \/ \E i \in Linked \cup Covered : Deliver(h, i)
               \/ Fulfil(h) \/ AbortHandler(h)
      <4>1. \/ handler' = [handler EXCEPT ![h] = IdleHandler]
            \/ \E i : handler' = [handler EXCEPT
                    ![h] = [IdleHandler EXCEPT !.pc = "look", !.inv = i]]
        BY <3>3 DEF Deliver, Fulfil, AbortHandler
      <4>2. IdleHandler.pc = "idle"
        BY DEF IdleHandler
      <4>3. \A i : [IdleHandler EXCEPT !.pc = "look", !.inv = i].pc = "look"
        BY DEF IdleHandler
      <4>4. handler'[h].pc \in {"idle", "look"}
        <5>1. CASE handler' = [handler EXCEPT ![h] = IdleHandler]
          BY <4>2, <5>1 DEF TypeOK
        <5>2. ASSUME NEW next, next.pc = "look", handler' = [handler EXCEPT ![h] = next]
              PROVE  handler'[h].pc = "look"
          BY <5>2 DEF TypeOK
        <5> QED BY <4>1, <4>3, <5>1, <5>2
      <4> QED BY <4>4
    <3>4. CASE LookForPromises(h) \/ KeepPromises(h)
      <4> DEFINE looked == [handler[h] EXCEPT !.pc = "keep", !.seen = ActiveOn(handler[h].inv)]
                 kept == [handler[h] EXCEPT !.pc = "find", !.seen = {}]
      <4>1. handler[h] \in HandlerRecord
        BY DEF TypeOK
      <4>2. looked.pc = "keep" /\ kept.pc = "find"
        BY <4>1 DEF HandlerRecord
      <4>3. handler' = [handler EXCEPT ![h] = looked] \/ handler' = [handler EXCEPT ![h] = kept]
        BY <3>4 DEF LookForPromises, KeepPromises
      <4> HIDE DEF looked, kept
      <4>4. handler'[h] = looked \/ handler'[h] = kept
        BY <4>3 DEF TypeOK
      <4> QED BY <4>2, <4>4
    <3> QED BY <1>2, <3>1, <3>2, <3>3, <3>4
  <2> QED BY <1>1, <2>1, <2>2 DEF CountInv, Covered
<1>3. CASE handler' = handler
  BY <1>1, <1>3 DEF CountInv, Covered
<1>4. \/ handler' = handler
      \/ \E h \in Handlers :
            \/ \E i \in Linked \cup Covered : Deliver(h, i)
            \/ LookForPromises(h) \/ KeepPromises(h) \/ FindArrangement(h)
            \/ CountUnresolved(h) \/ Fulfil(h) \/ AbortHandler(h)
  BY DEF Next, vars, Submit, Supersede, Create, AbortRequest, StartSweep,
     SweepStep, BreakPromise, TellUser, RecordTold, FindLapsed, EndArrangement,
     AbortSweep, RequestArrangement, Arrange, RequestChange, WriteChange, Settle,
     Reopen, ChangeAccess, PromiseDatePasses, ArrangementDatePasses
<1> QED BY <1>2, <1>3, <1>4

\* Both hold at the start,
LEMMA InitShaped == Init => TypeOK /\ CountInv
<1> SUFFICES ASSUME Init PROVE TypeOK /\ CountInv
  OBVIOUS
<1>1. /\ IdleRequest \in RequestRecord /\ IdleHandler \in HandlerRecord
      /\ IdleSweep \in SweepRecord /\ NoPromise \in PromiseRecord
      /\ IdleHandler.pc = "idle" /\ IdleSweep.pc = "idle"
  BY DEF IdleRequest, RequestRecord, IdleHandler, HandlerRecord, IdleSweep,
     SweepRecord, NoPromise, PromiseRecord
<1>2. /\ request \in [Requests -> RequestRecord]
      /\ handler \in [Handlers -> HandlerRecord]
      /\ sweep \in [Sweeps -> SweepRecord]
      /\ promise \in [Promises -> PromiseRecord]
      /\ \A h \in Handlers : handler[h].pc = "idle"
      /\ \A s \in Sweeps : sweep[s].pc = "idle"
  BY <1>1, Zenon DEF Init
<1>3. arrangement \in ArrangementRecord
  BY DEF Init, ArrangementRecord, ArrangementStatuses
<1>4. CountInv
  BY <1>2 DEF CountInv
<1> QED BY <1>2, <1>3, <1>4 DEF Init, TypeOK

\* and throughout.
LEMMA Shaped == Spec => [](TypeOK /\ CountInv)
BY InitShaped, TypeStep, CountStep, PTL DEF Spec

\* The variables keep their types, whoever overlaps with whom.
THEOREM AgreementsTyped == Spec => []TypeOK
BY Shaped, PTL

-----------------------------------------------------------------------------
(* The promise made last.                                                  *)

\* A submission that nobody overtook has found every active promise there is.
LatestInv ==
    /\ LatestPromiseStands
    /\ \A r \in Requests : request[r].pc = "create" /\ ~request[r].late =>
                               ActiveOn(request[r].inv) \subseteq request[r].seen

\* Who only ends promises makes no promise active.
LEMMA NoneActivated ==
    ASSUME LatestInv, latest' = latest, request' = request,
           \A p \in Promises : promise'[p].status = "active" =>
               promise[p].status = "active" /\ promise'[p].inv = promise[p].inv
    PROVE  LatestInv'
<1>1. \A i : ActiveOn(i)' \subseteq ActiveOn(i)
  BY DEF ActiveOn
<1>2. LatestPromiseStands'
  BY <1>1 DEF LatestInv, LatestPromiseStands
<1> QED BY <1>1, <1>2 DEF LatestInv

\* A promise made makes the latest the only one, or says it was overtaken.
LEMMA CreateLatest ==
    ASSUME TypeOK, LatestInv, NEW r \in Requests, Create(r)
    PROVE  LatestInv'
<1>1. PICK p \in Promises \ Made, i \in {request[r].inv} :
        /\ promise' = [With(Superseded(r), "superseded") EXCEPT ![p] =
                         [NoPromise EXCEPT !.inv = i, !.status = "active"]]
        /\ latest' = [latest EXCEPT ![i] = [promise |-> p, late |-> request[r].late]]
        /\ request' = [o \in Requests |->
              IF o = r THEN IdleRequest
              ELSE IF request[o].pc = "create" /\ request[o].inv = i
                   THEN [request[o] EXCEPT !.late = TRUE] ELSE request[o]]
  BY DEF Create
<1>2. request[r].pc = "create" /\ request[r] \in RequestRecord
  BY DEF Create, TypeOK
<1>3. /\ promise'[p].inv = i
      /\ \A q \in Promises : q # p =>
            promise'[q] = IF q \in Superseded(r)
                          THEN [promise[q] EXCEPT !.status = "superseded"]
                          ELSE promise[q]
  BY <1>1 DEF With, NoPromise
<1>4. ASSUME NEW q \in Promises, q # p, promise'[q].status = "active"
      PROVE  /\ promise[q].status = "active" /\ promise'[q].inv = promise[q].inv
             /\ q \notin Superseded(r)
  <2>1. promise[q] \in PromiseRecord
    BY DEF TypeOK
  <2>2. CASE q \in Superseded(r)
    BY <1>3, <1>4, <2>1, <2>2 DEF PromiseRecord
  <2>3. CASE q \notin Superseded(r)
    BY <1>3, <1>4, <2>3
  <2> QED BY <2>2, <2>3
<1>5. \A j : j # i => ActiveOn(j)' \subseteq ActiveOn(j)
  BY <1>3, <1>4 DEF ActiveOn
<1>6. ~request[r].late => ActiveOn(i)' \subseteq {p}
  <2>1. ~request[r].late => ActiveOn(i) \subseteq request[r].seen
    BY <1>2 DEF LatestInv
  <2>2. Superseded(r) = request[r].seen \cap ActiveOn(i)
    BY DEF Superseded
  <2> QED BY <1>4, <2>1, <2>2 DEF ActiveOn
<1>7. LatestPromiseStands'
  <2> SUFFICES ASSUME NEW j \in Invoices, ~latest'[j].late
               PROVE  ActiveOn(j)' \subseteq {latest'[j].promise}
    BY DEF LatestPromiseStands
  <2>1. CASE j = i
    BY <1>1, <1>6, <2>1 DEF TypeOK
  <2>2. CASE j # i
    <3>1. latest'[j] = latest[j]
      BY <1>1, <2>2 DEF TypeOK
    <3> QED BY <1>5, <2>2, <3>1 DEF LatestInv, LatestPromiseStands
  <2> QED BY <2>1, <2>2
<1>8. ASSUME NEW o \in Requests, NEW j, j = request'[o].inv,
             request'[o].pc = "create", ~request'[o].late
      PROVE  ActiveOn(j)' \subseteq request'[o].seen
  <2>1. request[o] \in RequestRecord /\ o # r
    BY <1>1, <1>8 DEF TypeOK, IdleRequest
  <2>2. ~(request[o].pc = "create" /\ request[o].inv = i)
    BY <1>1, <1>8, <2>1 DEF RequestRecord
  <2>3. request'[o] = request[o]
    BY <1>1, <2>1, <2>2
  <2> QED BY <1>5, <1>8, <2>2, <2>3 DEF LatestInv
<1> QED BY <1>7, <1>8 DEF LatestInv, ActiveOn

\* Every step keeps it so.
LEMMA LatestStep == TypeOK /\ LatestInv /\ [Next]_vars => LatestInv'
<1> SUFFICES ASSUME TypeOK, LatestInv, [Next]_vars PROVE LatestInv'
  OBVIOUS
<1>0. \A p \in Promises : promise[p] \in PromiseRecord
  BY DEF TypeOK
<1>1. ASSUME promise' = promise, latest' = latest, request' = request
      PROVE  LatestInv'
  BY <1>1, NoneActivated
<1>2. ASSUME NEW r \in Requests, Create(r) PROVE LatestInv'
  BY <1>2, CreateLatest
<1>3. ASSUME NEW r \in Requests,
             Supersede(r) \/ AbortRequest(r) \/ \E i \in Linked : Submit(r, i)
      PROVE  LatestInv'
  <2>1. promise' = promise /\ latest' = latest
    BY <1>3 DEF Supersede, AbortRequest, Submit
  <2>2. \A i : ActiveOn(i)' = ActiveOn(i)
    BY <2>1 DEF ActiveOn
  <2>3. LatestPromiseStands'
    BY <2>1, <2>2 DEF LatestInv, LatestPromiseStands
  <2>4. \A o \in Requests : o # r => request'[o] = request[o]
    BY <1>3 DEF Supersede, AbortRequest, Submit, TypeOK
  <2>5. CASE Supersede(r)
    <3> DEFINE found == [request[r] EXCEPT !.pc = "create",
                                           !.seen = ActiveOn(request[r].inv)]
    <3>1. found.inv = request[r].inv /\ found.seen = ActiveOn(request[r].inv)
      BY DEF TypeOK, RequestRecord
    <3>2. request'[r] = found
      BY <2>5 DEF Supersede, TypeOK
    <3> HIDE DEF found
    <3>3. request'[r].seen = ActiveOn(request[r].inv) /\ request'[r].inv = request[r].inv
      BY <3>1, <3>2
    <3> QED BY <2>1, <2>3, <2>4, <3>3 DEF LatestInv, ActiveOn
  <2>6. CASE AbortRequest(r) \/ \E i \in Linked : Submit(r, i)
    <3>1. IdleRequest.pc = "idle"
          /\ \A i : [IdleRequest EXCEPT !.pc = "supersede", !.inv = i].pc = "supersede"
      BY DEF IdleRequest
    <3>2. \/ request' = [request EXCEPT ![r] = IdleRequest]
          \/ \E i : request' = [request EXCEPT
                 ![r] = [IdleRequest EXCEPT !.pc = "supersede", !.inv = i]]
      BY <2>6 DEF AbortRequest, Submit
    <3>3. request'[r].pc \in {"idle", "supersede"}
      <4>1. CASE request' = [request EXCEPT ![r] = IdleRequest]
        BY <3>1, <4>1 DEF TypeOK
      <4>2. ASSUME NEW next, next.pc = "supersede", request' = [request EXCEPT ![r] = next]
            PROVE  request'[r].pc = "supersede"
        BY <4>2 DEF TypeOK
      <4> QED BY <3>1, <3>2, <4>1, <4>2
    <3> QED BY <2>1, <2>3, <2>4, <3>3 DEF LatestInv, ActiveOn
  <2> QED BY <1>3, <2>5, <2>6
<1>4. ASSUME NEW ps, NEW status \in {"kept", "broken"},
             promise' = With(ps, status), latest' = latest, request' = request
      PROVE  LatestInv'
  <2>1. ASSUME NEW p \in Promises, promise'[p].status = "active"
        PROVE  promise'[p] = promise[p]
    <3>1. CASE p \in ps
      <4>1. promise'[p] = [promise[p] EXCEPT !.status = status]
        BY <1>4, <3>1 DEF With
      <4>2. [promise[p] EXCEPT !.status = status].status = status
        BY <1>0 DEF PromiseRecord
      <4> QED BY <2>1, <4>1, <4>2
    <3>2. CASE p \notin ps
      BY <1>4, <3>2 DEF With
    <3> QED BY <3>1, <3>2
  <2> QED BY <1>4, <2>1, NoneActivated
<1>5. ASSUME NEW h \in Handlers, KeepPromises(h) PROVE LatestInv'
  BY <1>4, <1>5 DEF KeepPromises
<1>6. ASSUME NEW s \in Sweeps, NEW p \in Promises, BreakPromise(s, p) PROVE LatestInv'
  BY <1>1, <1>4, <1>6 DEF BreakPromise
<1>7. ASSUME NEW q, latest' = latest, request' = request,
             \/ promise' = promise
             \/ promise' = [promise EXCEPT ![q].mails = @ + 1]
             \/ promise' = [promise EXCEPT ![q].told = TRUE]
             \/ promise' = [promise EXCEPT ![q].past = TRUE]
      PROVE  LatestInv'
  <2>1. \A p \in Promises : promise'[p].status = promise[p].status
                            /\ promise'[p].inv = promise[p].inv
    BY <1>0, <1>7 DEF TypeOK, PromiseRecord
  <2> QED BY <1>7, <2>1, NoneActivated
<1>8. ASSUME NEW s \in Sweeps, TellUser(s) \/ RecordTold(s) PROVE LatestInv'
  BY <1>7, <1>8 DEF TellUser, RecordTold
<1>9. ASSUME NEW p \in Promises, PromiseDatePasses(p) PROVE LatestInv'
  BY <1>7, <1>9 DEF PromiseDatePasses
<1> QED BY <1>1, <1>2, <1>3, <1>5, <1>6, <1>8, <1>9
    DEF Next, vars, Deliver, LookForPromises, FindArrangement, CountUnresolved,
        Fulfil, AbortHandler, StartSweep, SweepStep, FindLapsed, EndArrangement,
        AbortSweep, RequestArrangement, Arrange, RequestChange, WriteChange, Settle,
        Reopen, ChangeAccess, ArrangementDatePasses

\* Whatever Stripe, the sweep and other submissions do, only the latest promise
\* is active, unless another was made while its transaction ran.
THEOREM LatestPromise == Spec => []LatestPromiseStands
<1>1. Init => LatestInv
  <2> SUFFICES ASSUME Init PROVE LatestInv
    OBVIOUS
  <2>1. IdleRequest.pc = "idle" /\ NoPromise.status = "none"
    BY DEF IdleRequest, NoPromise
  <2>2. /\ \A p \in Promises : promise[p].status = "none"
        /\ \A r \in Requests : request[r].pc = "idle"
    BY <2>1, Zenon DEF Init
  <2> QED BY <2>2 DEF LatestInv, LatestPromiseStands, ActiveOn
<1>2. LatestInv => LatestPromiseStands
  BY DEF LatestInv
<1> QED BY <1>1, <1>2, LatestStep, Shaped, PTL DEF Spec

-----------------------------------------------------------------------------
(* The arrangement.                                                        *)

\* What Stripe reported still counts as paid, and ends the arrangement when it
\* is all there is.
HeardInv == PaidArrangementEnds /\ \A i \in heard : settled[i]

\* Every step keeps what was heard true, and the last to count ends it.
LEMMA HeardStep == TypeOK /\ HeardInv /\ [Next]_vars => HeardInv'
<1> SUFFICES ASSUME TypeOK, HeardInv, [Next]_vars PROVE HeardInv'
  OBVIOUS
<1>0. /\ heard \subseteq Covered /\ Covered \subseteq Invoices
      /\ settled \in [Invoices -> BOOLEAN] /\ arrangement \in ArrangementRecord
  BY DEF TypeOK, Covered
<1>1. ASSUME scene' = scene, settled' = settled, heard' = heard,
             arrangement' = arrangement
      PROVE  HeardInv'
  BY <1>1 DEF HeardInv, PaidArrangementEnds, Covered
<1>2. ASSUME NEW h \in Handlers, CountUnresolved(h) PROVE HeardInv'
  <2>1. CASE Unresolved = {} /\ UNCHANGED heard
    BY <1>1, <1>2, <2>1 DEF CountUnresolved
  <2>2. CASE Unresolved # {} /\ heard' = heard \cup {i \in {handler[h].inv} : settled[i]}
    <3>1. settled' = settled /\ scene' = scene
      BY <1>2 DEF CountUnresolved
    <3>2. \A i \in heard' : settled'[i]
      BY <2>2, <3>1 DEF HeardInv
    <3>3. heard' # Covered
      BY <2>2, <3>1, <3>2 DEF Unresolved
    <3> QED BY <3>1, <3>2, <3>3 DEF HeardInv, PaidArrangementEnds, Covered
  <2> QED BY <1>2, <2>1, <2>2 DEF CountUnresolved
<1>3. ASSUME NEW h \in Handlers, Fulfil(h) PROVE HeardInv'
  BY <1>0, <1>3 DEF Fulfil, HeardInv, PaidArrangementEnds, ArrangementRecord
<1>4. ASSUME NEW h \in Handlers, NEW i \in Invoices, Deliver(h, i) PROVE HeardInv'
  BY <1>0, <1>4 DEF Deliver, HeardInv, PaidArrangementEnds, Covered
<1>5. ASSUME NEW s \in Sweeps, EndArrangement(s) PROVE HeardInv'
  BY <1>0, <1>5 DEF EndArrangement, HeardInv, PaidArrangementEnds, ArrangementRecord
<1>6. CASE Arrange
  BY <1>6 DEF Arrange, HeardInv, PaidArrangementEnds, Covered
<1>7. CASE WriteChange
  <2>1. arrangement'.status = change
    BY <1>0, <1>7 DEF WriteChange, ArrangementRecord
  <2> QED BY <1>7, <2>1 DEF WriteChange, HeardInv, PaidArrangementEnds, Covered
<1>8. ASSUME NEW i \in Invoices, Settle(i) \/ Reopen(i) PROVE HeardInv'
  <2>1. \A j \in heard' : settled'[j]
    BY <1>0, <1>8 DEF Settle, Reopen, HeardInv
  <2>2. CASE Settle(i)
    BY <2>1, <2>2 DEF Settle, HeardInv, PaidArrangementEnds, Covered
  <2>3. CASE Reopen(i)
    BY <1>0, <2>1, <2>3 DEF Reopen, HeardInv, PaidArrangementEnds, Covered
  <2> QED BY <1>8, <2>2, <2>3
<1>9. CASE ArrangementDatePasses
  <2>1. arrangement'.status = arrangement.status
    BY <1>0, <1>9 DEF ArrangementDatePasses, ArrangementRecord
  <2> QED BY <1>9, <2>1 DEF ArrangementDatePasses, HeardInv, PaidArrangementEnds, Covered
<1>10. Linked \cup Covered \subseteq Invoices
  BY DEF TypeOK, Linked, Covered
<1> QED BY <1>1, <1>2, <1>3, <1>4, <1>5, <1>6, <1>7, <1>8, <1>9, <1>10
    DEF Next, vars, Submit, Supersede, Create, AbortRequest, LookForPromises,
        KeepPromises, FindArrangement, AbortHandler, StartSweep, SweepStep,
        BreakPromise, TellUser, RecordTold, FindLapsed, AbortSweep,
        RequestArrangement, RequestChange, ChangeAccess, PromiseDatePasses

\* However many reports of paid invoices overlap, an arrangement all of whose
\* invoices they found paid is not left active.
THEOREM PaidEnds == Spec => []PaidArrangementEnds
<1>1. Init => HeardInv
  BY DEF Init, HeardInv, PaidArrangementEnds
<1>2. HeardInv => PaidArrangementEnds
  BY DEF HeardInv
<1> QED BY <1>1, <1>2, HeardStep, Shaped, PTL DEF Spec

-----------------------------------------------------------------------------
(* The notices of a breach.                                                *)

\* The sweep s has told of p and has not recorded it; it has p still to tell.
TellsOf(s, p) == sweep[s].pc = "tell" /\ sweep[s].at = p
HasChosen(s, p) == p \in sweep[s].todo \/ (sweep[s].pc = "mail" /\ sweep[s].at = p)

Telling(p) == {s \in Sweeps : TellsOf(s, p)}
Chosen(p) == {s \in Sweeps : HasChosen(s, p)}

\* A sweep has taken the promise it is at off those it has still to do.
TakenInv ==
    \A s \in Sweeps : sweep[s].pc \in {"mail", "tell"} => sweep[s].at \notin sweep[s].todo

\* Each notice of a promise that was not recorded is one that a sweep is about to
\* record or a fault kept from it; once one is, only those that chose it before
\* tell of it again.
Sparing(p) ==
    IF promise[p].told
    THEN promise[p].mails + Cardinality(Chosen(p)) <= Cardinality(Sweeps) + faults
    ELSE promise[p].mails <= Cardinality(Telling(p)) + faults

MailInv == \A p \in Promises : Sparing(p)

\* Two sets that differ in one sweep at most.
LEMMA OneMore ==
    ASSUME NEW A \in SUBSET Sweeps, NEW B \in SUBSET Sweeps, NEW s,
           A \ {s} = B \ {s}
    PROVE  /\ Cardinality(A) \in Nat /\ Cardinality(B) \in Nat
           /\ (s \in A <=> s \in B) => Cardinality(A) = Cardinality(B)
           /\ s \in A /\ s \notin B => Cardinality(A) = Cardinality(B) + 1
<1>1. IsFiniteSet(A) /\ IsFiniteSet(B)
  BY FS_Subset
<1>2. Cardinality(A) \in Nat /\ Cardinality(B) \in Nat
  BY <1>1, FS_CardinalityType
<1>3. CASE s \in A <=> s \in B
  <2>1. \A x : x \in A <=> x \in B
    BY <1>3
  <2> QED BY <1>2, <1>3, <2>1
<1>4. CASE s \in A /\ s \notin B
  <2>1. A = B \cup {s}
    BY <1>4
  <2> QED BY <1>1, <1>2, <1>4, <2>1, FS_AddElement
<1> QED BY <1>2, <1>3, <1>4

\* What one sweep does to the counts of a promise.
LEMMA SweepCounts ==
    ASSUME TypeOK, NEW s \in Sweeps, NEW p \in Promises,
           \A t \in Sweeps : t # s => sweep'[t] = sweep[t]
    PROVE  /\ Cardinality(Telling(p)) \in Nat /\ Cardinality(Telling(p))' \in Nat
           /\ Cardinality(Chosen(p)) \in Nat /\ Cardinality(Chosen(p))' \in Nat
           /\ (TellsOf(s, p)' <=> TellsOf(s, p)) =>
                 Cardinality(Telling(p))' = Cardinality(Telling(p))
           /\ TellsOf(s, p)' /\ ~TellsOf(s, p) =>
                 Cardinality(Telling(p))' = Cardinality(Telling(p)) + 1
           /\ ~TellsOf(s, p)' =>
                 Cardinality(Telling(p)) <= Cardinality(Telling(p))' + 1
           /\ (HasChosen(s, p)' => HasChosen(s, p)) =>
                 Cardinality(Chosen(p))' <= Cardinality(Chosen(p))
           /\ ~HasChosen(s, p)' /\ HasChosen(s, p) =>
                 Cardinality(Chosen(p)) = Cardinality(Chosen(p))' + 1
<1>1. PICK T \in SUBSET Sweeps, C \in SUBSET Sweeps : T = Telling(p)' /\ C = Chosen(p)'
  BY DEF Telling, Chosen
<1>2. Telling(p) \in SUBSET Sweeps /\ Chosen(p) \in SUBSET Sweeps
  BY DEF Telling, Chosen
<1>3. T \ {s} = Telling(p) \ {s} /\ C \ {s} = Chosen(p) \ {s}
  BY <1>1 DEF Telling, Chosen, TellsOf, HasChosen
<1>4. /\ s \in T <=> TellsOf(s, p)'
      /\ s \in Telling(p) <=> TellsOf(s, p)
      /\ s \in C <=> HasChosen(s, p)'
      /\ s \in Chosen(p) <=> HasChosen(s, p)
  BY <1>1 DEF Telling, Chosen
<1>5. Cardinality(T) = Cardinality(Telling(p))' /\ Cardinality(C) = Cardinality(Chosen(p))'
  BY <1>1
<1>6. /\ Cardinality(T) \in Nat /\ Cardinality(Telling(p)) \in Nat
      /\ (s \in T <=> s \in Telling(p)) => Cardinality(T) = Cardinality(Telling(p))
      /\ s \in T /\ s \notin Telling(p) => Cardinality(T) = Cardinality(Telling(p)) + 1
      /\ s \notin T /\ s \in Telling(p) => Cardinality(Telling(p)) = Cardinality(T) + 1
  BY <1>2, <1>3, OneMore
<1>7. /\ Cardinality(C) \in Nat /\ Cardinality(Chosen(p)) \in Nat
      /\ (s \in C <=> s \in Chosen(p)) => Cardinality(C) = Cardinality(Chosen(p))
      /\ s \notin C /\ s \in Chosen(p) => Cardinality(Chosen(p)) = Cardinality(C) + 1
  BY <1>2, <1>3, OneMore
<1>8. /\ (TellsOf(s, p)' <=> TellsOf(s, p)) =>
             Cardinality(T) = Cardinality(Telling(p))
      /\ TellsOf(s, p)' /\ ~TellsOf(s, p) =>
             Cardinality(T) = Cardinality(Telling(p)) + 1
      /\ ~TellsOf(s, p)' => Cardinality(Telling(p)) <= Cardinality(T) + 1
  BY <1>4, <1>6
<1>9. /\ (HasChosen(s, p)' => HasChosen(s, p)) =>
             Cardinality(C) <= Cardinality(Chosen(p))
      /\ ~HasChosen(s, p)' /\ HasChosen(s, p) =>
             Cardinality(Chosen(p)) = Cardinality(C) + 1
  BY <1>4, <1>7
<1> QED BY <1>5, <1>6, <1>7, <1>8, <1>9

\* A sweep that tells of a promise has not chosen it: together they are sweeps.
LEMMA AllSweeps ==
    ASSUME TypeOK, TakenInv, NEW p \in Promises
    PROVE  /\ Cardinality(Telling(p)) \in Nat /\ Cardinality(Chosen(p)) \in Nat
           /\ Cardinality(Telling(p)) + Cardinality(Chosen(p)) <= Cardinality(Sweeps)
           /\ Cardinality(Sweeps) \in Nat
<1>1. Telling(p) \in SUBSET Sweeps /\ Chosen(p) \in SUBSET Sweeps
  BY DEF Telling, Chosen
<1>2. Telling(p) \cap Chosen(p) = {}
  BY DEF Telling, Chosen, TellsOf, HasChosen, TakenInv
<1>3. IsFiniteSet(Telling(p)) /\ IsFiniteSet(Chosen(p))
  BY <1>1, FS_Subset
<1>4. /\ IsFiniteSet(Telling(p) \cup Chosen(p))
      /\ Cardinality(Telling(p) \cup Chosen(p))
           = Cardinality(Telling(p)) + Cardinality(Chosen(p))
             - Cardinality(Telling(p) \cap Chosen(p))
  BY <1>3, FS_Union
<1>5. Cardinality(Telling(p) \cap Chosen(p)) = 0
  BY <1>2, FS_EmptySet
<1>6. Cardinality(Telling(p) \cup Chosen(p)) <= Cardinality(Sweeps)
  BY <1>1, FS_Subset
<1>7. /\ Cardinality(Telling(p)) \in Nat /\ Cardinality(Chosen(p)) \in Nat
      /\ Cardinality(Sweeps) \in Nat
  BY <1>3, FS_CardinalityType
<1> QED BY <1>4, <1>5, <1>6, <1>7

\* How a sweep's record changes.
LEMMA SweepChanges ==
    ASSUME TypeOK, NEW s \in Sweeps, StartSweep(s) \/ SweepStep(s) \/ AbortSweep(s)
    PROVE  /\ \A t \in Sweeps : t # s => sweep'[t] = sweep[t]
           /\ StartSweep(s) => /\ sweep[s].pc = "idle" /\ sweep'[s].pc = "promises"
                               /\ sweep'[s].todo = Due
           /\ \A p \in Promises : BreakPromise(s, p) =>
                 /\ sweep[s].pc = "promises" /\ p \in sweep[s].todo
                 /\ sweep'[s].todo = sweep[s].todo \ {p}
                 /\ \/ sweep'[s].pc = "promises"
                    \/ sweep'[s].pc = "mail" /\ sweep'[s].at = p
           /\ NextPromise(s) => /\ sweep'[s].pc = "promises"
                                /\ sweep'[s].todo = sweep[s].todo
           /\ sweep' = [sweep EXCEPT ![s].pc = "tell"] =>
                 /\ sweep'[s].pc = "tell" /\ sweep'[s].todo = sweep[s].todo
                 /\ sweep'[s].at = sweep[s].at
           /\ FindLapsed(s) \/ EndArrangement(s) \/ AbortSweep(s) =>
                 sweep'[s].pc \notin {"mail", "tell"} /\ sweep'[s].todo = {}
<1>1. sweep[s] \in SweepRecord /\ sweep \in [Sweeps -> SweepRecord]
  BY DEF TypeOK
<1>2. \A t \in Sweeps : t # s => sweep'[t] = sweep[t]
  BY <1>1 DEF StartSweep, SweepStep, BreakPromise, TellUser, RecordTold,
     NextPromise, FindLapsed, EndArrangement, AbortSweep
<1>3. ASSUME NEW next, sweep' = [sweep EXCEPT ![s] = next]
      PROVE  sweep'[s] = next
  BY <1>1, <1>3
<1>4. ASSUME StartSweep(s)
      PROVE  /\ sweep[s].pc = "idle" /\ sweep'[s].pc = "promises" /\ sweep'[s].todo = Due
  <2> DEFINE next == [IdleSweep EXCEPT !.pc = "promises", !.todo = Due, !.denied = ~access]
  <2>1. next.pc = "promises" /\ next.todo = Due
    BY DEF IdleSweep
  <2>2. sweep' = [sweep EXCEPT ![s] = next] /\ sweep[s].pc = "idle"
    BY <1>4 DEF StartSweep
  <2> HIDE DEF next
  <2> QED BY <1>3, <2>1, <2>2
<1>5. ASSUME NEW p \in Promises, BreakPromise(s, p)
      PROVE  /\ sweep[s].pc = "promises" /\ p \in sweep[s].todo
             /\ sweep'[s].todo = sweep[s].todo \ {p}
             /\ \/ sweep'[s].pc = "promises"
                \/ sweep'[s].pc = "mail" /\ sweep'[s].at = p
  <2> DEFINE skipped == [sweep[s] EXCEPT !.todo = @ \ {p}]
             broken == [sweep[s] EXCEPT !.pc = "mail", !.at = p, !.todo = @ \ {p}]
  <2>1. /\ skipped.pc = sweep[s].pc /\ skipped.todo = sweep[s].todo \ {p}
        /\ broken.pc = "mail" /\ broken.at = p /\ broken.todo = sweep[s].todo \ {p}
    BY <1>1 DEF SweepRecord
  <2>2. /\ sweep[s].pc = "promises" /\ p \in sweep[s].todo
        /\ sweep' = [sweep EXCEPT ![s] = skipped] \/ sweep' = [sweep EXCEPT ![s] = broken]
    BY <1>5 DEF BreakPromise
  <2> HIDE DEF skipped, broken
  <2> QED BY <1>3, <2>1, <2>2
<1>6. ASSUME NextPromise(s)
      PROVE  sweep'[s].pc = "promises" /\ sweep'[s].todo = sweep[s].todo
  <2> DEFINE next == [sweep[s] EXCEPT !.pc = "promises", !.at = Null]
  <2>1. next.pc = "promises" /\ next.todo = sweep[s].todo
    BY <1>1 DEF SweepRecord
  <2>2. sweep' = [sweep EXCEPT ![s] = next]
    BY <1>6 DEF NextPromise
  <2> HIDE DEF next
  <2> QED BY <1>3, <2>1, <2>2
<1>7. ASSUME sweep' = [sweep EXCEPT ![s].pc = "tell"]
      PROVE  /\ sweep'[s].pc = "tell" /\ sweep'[s].todo = sweep[s].todo
             /\ sweep'[s].at = sweep[s].at
  <2> DEFINE next == [sweep[s] EXCEPT !.pc = "tell"]
  <2>1. next.pc = "tell" /\ next.todo = sweep[s].todo /\ next.at = sweep[s].at
    BY <1>1 DEF SweepRecord
  <2>2. sweep' = [sweep EXCEPT ![s] = next]
    BY <1>7
  <2> HIDE DEF next
  <2> QED BY <1>3, <2>1, <2>2
<1>8. ASSUME FindLapsed(s) \/ EndArrangement(s) \/ AbortSweep(s)
      PROVE  sweep'[s].pc \notin {"mail", "tell"} /\ sweep'[s].todo = {}
  <2> DEFINE next == [IdleSweep EXCEPT !.pc = "arrangement"]
  <2>1. /\ next.pc = "arrangement" /\ next.todo = {}
        /\ IdleSweep.pc = "idle" /\ IdleSweep.todo = {}
    BY DEF IdleSweep
  <2>2. sweep' = [sweep EXCEPT ![s] = next] \/ sweep' = [sweep EXCEPT ![s] = IdleSweep]
    BY <1>8 DEF FindLapsed, EndArrangement, AbortSweep
  <2> HIDE DEF next
  <2> QED BY <1>3, <2>1, <2>2
<1> QED BY <1>2, <1>4, <1>5, <1>6, <1>7, <1>8

\* Every step keeps a sweep's promise off what it has still to do.
LEMMA TakenStep == TypeOK /\ TakenInv /\ [Next]_vars => TakenInv'
<1> SUFFICES ASSUME TypeOK, TakenInv, [Next]_vars PROVE TakenInv'
  OBVIOUS
<1>1. ASSUME NEW s \in Sweeps, StartSweep(s) \/ SweepStep(s) \/ AbortSweep(s)
      PROVE  TakenInv'
  <2>1. \A t \in Sweeps : t # s => sweep'[t] = sweep[t]
    BY <1>1, SweepChanges
  <2>2. sweep'[s].pc \in {"mail", "tell"} => sweep'[s].at \notin sweep'[s].todo
    <3>1. CASE StartSweep(s) \/ \E p \in Promises : BreakPromise(s, p)
      BY <1>1, <3>1, SweepChanges
    <3>2. CASE TellUser(s) \/ RecordTold(s)
      <4>1. NextPromise(s) \/ sweep' = [sweep EXCEPT ![s].pc = "tell"]
        BY <3>2 DEF TellUser, RecordTold
      <4>2. sweep[s].at \notin sweep[s].todo
        BY <3>2 DEF TellUser, RecordTold, TakenInv
      <4>3. CASE NextPromise(s)
        BY <1>1, <4>3, SweepChanges
      <4>4. CASE sweep' = [sweep EXCEPT ![s].pc = "tell"]
        BY <1>1, <4>2, <4>4, SweepChanges
      <4> QED BY <4>1, <4>3, <4>4
    <3>3. CASE FindLapsed(s) \/ EndArrangement(s) \/ AbortSweep(s)
      BY <1>1, <3>3, SweepChanges
    <3> QED BY <1>1, <3>1, <3>2, <3>3 DEF SweepStep
  <2> QED BY <2>1, <2>2 DEF TakenInv
<1>2. CASE sweep' = sweep
  BY <1>2 DEF TakenInv
<1> QED BY <1>1, <1>2
    DEF Next, vars, Submit, Supersede, Create, AbortRequest, Deliver,
        LookForPromises, KeepPromises, FindArrangement, CountUnresolved, Fulfil,
        AbortHandler, RequestArrangement, Arrange, RequestChange, WriteChange,
        Settle, Reopen, ChangeAccess, PromiseDatePasses, ArrangementDatePasses

\* A step of a sweep keeps the count of a promise's notices.
LEMMA MailSweep ==
    ASSUME TypeOK, TakenInv, MailInv, NEW s \in Sweeps, NEW p \in Promises,
           StartSweep(s) \/ SweepStep(s) \/ AbortSweep(s)
    PROVE  Sparing(p)'
<1> DEFINE q == sweep[s].at
<1>0. /\ promise[p] \in PromiseRecord /\ promise[p].mails \in Nat
      /\ promise[p].told \in BOOLEAN /\ faults \in Nat
  BY DEF TypeOK, PromiseRecord
<1>1. Sparing(p)
  BY DEF MailInv
<1>2. \A t \in Sweeps : t # s => sweep'[t] = sweep[t]
  BY SweepChanges
<1>3. /\ Cardinality(Telling(p)) \in Nat /\ Cardinality(Telling(p))' \in Nat
      /\ Cardinality(Chosen(p)) \in Nat /\ Cardinality(Chosen(p))' \in Nat
      /\ (TellsOf(s, p)' <=> TellsOf(s, p)) =>
            Cardinality(Telling(p))' = Cardinality(Telling(p))
      /\ TellsOf(s, p)' /\ ~TellsOf(s, p) =>
            Cardinality(Telling(p))' = Cardinality(Telling(p)) + 1
      /\ ~TellsOf(s, p)' => Cardinality(Telling(p)) <= Cardinality(Telling(p))' + 1
      /\ (HasChosen(s, p)' => HasChosen(s, p)) =>
            Cardinality(Chosen(p))' <= Cardinality(Chosen(p))
      /\ ~HasChosen(s, p)' /\ HasChosen(s, p) =>
            Cardinality(Chosen(p)) = Cardinality(Chosen(p))' + 1
  BY <1>2, SweepCounts
<1>4. /\ Cardinality(Telling(p)) + Cardinality(Chosen(p)) <= Cardinality(Sweeps)
      /\ Cardinality(Sweeps) \in Nat
  BY AllSweeps
\* Nothing is told, and nothing recorded.
<1>k. ASSUME promise'[p].told = promise[p].told, promise'[p].mails = promise[p].mails,
             \/ faults' = faults /\ (TellsOf(s, p)' <=> TellsOf(s, p))
             \/ faults' = faults + 1 /\ ~TellsOf(s, p)',
             promise[p].told => (HasChosen(s, p)' => HasChosen(s, p))
      PROVE  Sparing(p)'
  BY <1>0, <1>1, <1>3, <1>4, <1>k DEF Sparing
<1>5. CASE StartSweep(s)
  <2>1. promise' = promise /\ faults' = faults
    BY <1>5 DEF StartSweep
  <2>2. promise[p].told => ~HasChosen(s, p)'
    BY <1>5, SweepChanges DEF HasChosen, Due
  <2>3. TellsOf(s, p)' <=> TellsOf(s, p)
    BY <1>5, SweepChanges DEF TellsOf
  <2> QED BY <1>k, <2>1, <2>2, <2>3
<1>6. ASSUME NEW b \in Promises, BreakPromise(s, b)
      PROVE  Sparing(p)'
  <2>1. promise'[p].told = promise[p].told /\ promise'[p].mails = promise[p].mails
    <3>1. promise' = promise \/ promise' = With({b}, "broken")
      BY <1>6 DEF BreakPromise
    <3>2. /\ [promise[p] EXCEPT !.status = "broken"].told = promise[p].told
          /\ [promise[p] EXCEPT !.status = "broken"].mails = promise[p].mails
      BY <1>0 DEF PromiseRecord
    <3> QED BY <3>1, <3>2 DEF With
  <2>2. faults' = faults
    BY <1>6 DEF BreakPromise
  <2>3. HasChosen(s, p)' => HasChosen(s, p)
    BY <1>6, SweepChanges DEF HasChosen
  <2>4. TellsOf(s, p)' <=> TellsOf(s, p)
    BY <1>6, SweepChanges DEF TellsOf
  <2> QED BY <1>k, <2>1, <2>2, <2>3, <2>4
<1>7. CASE FindLapsed(s) \/ EndArrangement(s) \/ AbortSweep(s)
  <2>1. promise' = promise
    BY <1>7 DEF FindLapsed, EndArrangement, AbortSweep
  <2>2. ~TellsOf(s, p)' /\ ~HasChosen(s, p)'
    BY <1>7, SweepChanges DEF TellsOf, HasChosen
  <2>3. \/ faults' = faults /\ ~TellsOf(s, p)
        \/ faults' = faults + 1
    BY <1>7 DEF FindLapsed, EndArrangement, AbortSweep, Fault, TellsOf
  <2> QED BY <1>k, <2>1, <2>2, <2>3
<1>n. ASSUME NextPromise(s), sweep[s].pc \in {"mail", "tell"}
      PROVE  ~TellsOf(s, p)' /\ (HasChosen(s, p)' => HasChosen(s, p))
  BY <1>n, SweepChanges DEF TellsOf, HasChosen
<1>8. CASE TellUser(s)
  <2>1. sweep[s].pc = "mail" /\ ~TellsOf(s, p)
    BY <1>8 DEF TellUser, TellsOf
  <2>2. CASE NextPromise(s) /\ promise' = promise /\ (faults' = faults \/ Fault)
    BY <1>k, <1>n, <2>1, <2>2 DEF Fault
  <2>3. CASE promise' = [promise EXCEPT ![q].mails = @ + 1]
    <3>1. /\ promise'[p].told = promise[p].told
          /\ promise'[p].mails = IF p = q THEN promise[p].mails + 1 ELSE promise[p].mails
      BY <1>0, <2>3 DEF TypeOK, PromiseRecord
    <3>2. CASE NextPromise(s) /\ Fault
      <4>1. faults' = faults + 1 /\ ~TellsOf(s, p)' /\ (HasChosen(s, p)' => HasChosen(s, p))
        BY <1>n, <2>1, <3>2 DEF Fault
      <4> QED BY <1>0, <1>1, <1>3, <1>4, <2>1, <3>1, <4>1 DEF Sparing
    <3>3. CASE sweep' = [sweep EXCEPT ![s].pc = "tell"] /\ faults' = faults
      <4>1. /\ sweep'[s].pc = "tell" /\ sweep'[s].todo = sweep[s].todo
            /\ sweep'[s].at = q
        BY <3>3, SweepChanges
      <4>2. CASE p = q
        <5>1. TellsOf(s, p)' /\ HasChosen(s, p)
          BY <2>1, <4>1, <4>2 DEF TellsOf, HasChosen
        <5>2. ~HasChosen(s, p)'
          BY <2>1, <4>1, <4>2 DEF HasChosen, TakenInv
        <5> QED BY <1>0, <1>1, <1>3, <1>4, <2>1, <3>1, <3>3, <4>2, <5>1, <5>2 DEF Sparing
      <4>3. CASE p # q
        <5>1. ~TellsOf(s, p)' /\ (HasChosen(s, p)' => HasChosen(s, p))
          BY <4>1, <4>3 DEF TellsOf, HasChosen
        <5> QED BY <1>k, <2>1, <3>1, <3>3, <4>3, <5>1
      <4> QED BY <4>2, <4>3
    <3>4. \/ NextPromise(s) /\ Fault
          \/ sweep' = [sweep EXCEPT ![s].pc = "tell"] /\ faults' = faults
          \/ NextPromise(s) /\ promise' = promise /\ (faults' = faults \/ Fault)
      BY <1>8 DEF TellUser
    <3> QED BY <2>2, <3>2, <3>3, <3>4
  <2> QED BY <1>8, <2>2, <2>3 DEF TellUser
<1>9. CASE RecordTold(s)
  <2>1. sweep[s].pc = "tell" /\ NextPromise(s) /\ q \in Promises
    BY <1>9 DEF RecordTold, TypeOK
  <2>2. ~TellsOf(s, p)' /\ (HasChosen(s, p)' => HasChosen(s, p))
    BY <1>n, <2>1
  <2>3. CASE promise' = promise /\ Fault
    BY <1>k, <2>2, <2>3 DEF Fault
  <2>4. CASE promise' = [promise EXCEPT ![q].told = TRUE] /\ faults' = faults
    <3>1. /\ promise'[p].told = IF p = q THEN TRUE ELSE promise[p].told
          /\ promise'[p].mails = promise[p].mails
      BY <1>0, <2>4 DEF TypeOK, PromiseRecord
    <3>2. CASE p = q
      <4>1. promise[p].mails + Cardinality(Chosen(p)) <= Cardinality(Sweeps) + faults
        BY <1>0, <1>1, <1>3, <1>4 DEF Sparing
      <4>2. Cardinality(Chosen(p))' <= Cardinality(Chosen(p))
        BY <1>3, <2>2
      <4>3. promise'[p].told /\ promise'[p].mails = promise[p].mails /\ faults' = faults
        BY <2>4, <3>1, <3>2
      <4>4. promise'[p].mails + Cardinality(Chosen(p))' <= Cardinality(Sweeps) + faults'
        BY <1>0, <1>3, <1>4, <4>1, <4>2, <4>3
      <4> QED BY <4>3, <4>4 DEF Sparing
    <3>3. CASE p # q
      <4>1. ~TellsOf(s, p)
        BY <3>3 DEF TellsOf
      <4> QED BY <1>k, <2>2, <2>4, <3>1, <3>3, <4>1
    <3> QED BY <3>2, <3>3
  <2> QED BY <1>9, <2>3, <2>4 DEF RecordTold
<1> QED BY <1>5, <1>6, <1>7, <1>8, <1>9 DEF SweepStep

\* So does every other step.
LEMMA MailStep == TypeOK /\ TakenInv /\ MailInv /\ [Next]_vars => MailInv'
<1> SUFFICES ASSUME TypeOK, TakenInv, MailInv, [Next]_vars, NEW p \in Promises
             PROVE  Sparing(p)'
  BY DEF MailInv
<1>0. /\ promise \in [Promises -> PromiseRecord] /\ promise[p] \in PromiseRecord
      /\ faults \in Nat /\ promise[p].mails \in Nat
  BY DEF TypeOK, PromiseRecord
<1>1. /\ Sparing(p)
      /\ Cardinality(Telling(p)) \in Nat /\ Cardinality(Chosen(p)) \in Nat
      /\ Cardinality(Sweeps) \in Nat
  BY AllSweeps DEF MailInv
<1>k. ASSUME sweep' = sweep, promise'[p].told = promise[p].told,
             promise'[p].mails = promise[p].mails,
             faults' = faults \/ faults' = faults + 1
      PROVE  Sparing(p)'
  <2>1. Telling(p)' = Telling(p) /\ Chosen(p)' = Chosen(p)
    BY <1>k DEF Telling, Chosen, TellsOf, HasChosen
  <2>2. /\ Cardinality(Telling(p))' = Cardinality(Telling(p))
        /\ Cardinality(Chosen(p))' = Cardinality(Chosen(p))
    BY <2>1
  <2> QED BY <1>0, <1>1, <1>k, <2>2 DEF Sparing
<1>2. ASSUME NEW s \in Sweeps, StartSweep(s) \/ SweepStep(s) \/ AbortSweep(s)
      PROVE  Sparing(p)'
  BY <1>2, MailSweep
<1>w. ASSUME NEW ps, NEW status, promise' = With(ps, status), sweep' = sweep,
             faults' = faults
      PROVE  Sparing(p)'
  <2>1. /\ [promise[p] EXCEPT !.status = status].told = promise[p].told
        /\ [promise[p] EXCEPT !.status = status].mails = promise[p].mails
    BY <1>0 DEF PromiseRecord
  <2> QED BY <1>k, <1>w, <2>1 DEF With
<1>3. ASSUME NEW r \in Requests, Create(r) PROVE Sparing(p)'
  <2>1. PICK n \in Promises, i \in {request[r].inv} :
          promise' = [With(Superseded(r), "superseded") EXCEPT ![n] =
                         [NoPromise EXCEPT !.inv = i, !.status = "active"]]
    BY <1>3 DEF Create
  <2>2. sweep' = sweep /\ faults' = faults
    BY <1>3 DEF Create
  <2>3. CASE p = n
    <3>1. ~promise'[p].told /\ promise'[p].mails = 0
      BY <2>1, <2>3 DEF With, NoPromise
    <3>2. Telling(p)' = Telling(p)
      BY <2>2 DEF Telling, TellsOf
    <3>3. Cardinality(Telling(p))' = Cardinality(Telling(p))
      BY <3>2
    <3> QED BY <1>0, <1>1, <2>2, <3>1, <3>3 DEF Sparing
  <2>4. CASE p # n
    <3>1. promise'[p] = With(Superseded(r), "superseded")[p]
      BY <2>1, <2>4 DEF With
    <3>2. /\ [promise[p] EXCEPT !.status = "superseded"].told = promise[p].told
          /\ [promise[p] EXCEPT !.status = "superseded"].mails = promise[p].mails
      BY <1>0 DEF PromiseRecord
    <3> QED BY <1>k, <2>2, <3>1, <3>2 DEF With
  <2> QED BY <2>3, <2>4
<1>4. ASSUME NEW h \in Handlers, KeepPromises(h) PROVE Sparing(p)'
  BY <1>4, <1>w DEF KeepPromises
<1>5. ASSUME NEW q \in Promises, PromiseDatePasses(q) PROVE Sparing(p)'
  <2>1. promise'[p].told = promise[p].told /\ promise'[p].mails = promise[p].mails
    BY <1>0, <1>5 DEF PromiseDatePasses, PromiseRecord
  <2> QED BY <1>5, <1>k, <2>1 DEF PromiseDatePasses
<1>6. ASSUME sweep' = sweep, promise' = promise, faults' = faults \/ faults' = faults + 1
      PROVE  Sparing(p)'
  BY <1>6, <1>k
<1> QED BY <1>2, <1>3, <1>4, <1>5, <1>6
    DEF Next, vars, Submit, Supersede, AbortRequest, Deliver, LookForPromises,
        FindArrangement, CountUnresolved, Fulfil, AbortHandler, Fault,
        RequestArrangement, Arrange, RequestChange, WriteChange, Settle, Reopen,
        ChangeAccess, ArrangementDatePasses

\* However many sweeps overlap, die, or lose the record of a mail, the user hears
\* of a broken promise once per overlapping sweep and once per fault at most.
THEOREM ToldSparingly == Spec => []BreachToldSparingly
<1>1. Init => TakenInv /\ MailInv
  <2> SUFFICES ASSUME Init PROVE TakenInv /\ MailInv
    OBVIOUS
  <2>1. IdleSweep.pc = "idle" /\ ~NoPromise.told /\ NoPromise.mails = 0
    BY DEF IdleSweep, NoPromise
  <2>2. /\ \A s \in Sweeps : sweep[s].pc = "idle"
        /\ \A p \in Promises : ~promise[p].told /\ promise[p].mails = 0
    BY <2>1, Zenon DEF Init
  <2>3. TakenInv
    BY <2>2 DEF TakenInv
  <2>4. faults = 0 /\ \A p \in Promises : Cardinality(Telling(p)) \in Nat
    BY <2>3, InitShaped, AllSweeps DEF Init
  <2> QED BY <2>2, <2>3, <2>4 DEF MailInv, Sparing
<1>2. TypeOK /\ TakenInv /\ MailInv => BreachToldSparingly
  <2> SUFFICES ASSUME TypeOK, TakenInv, MailInv, NEW p \in Promises
               PROVE  promise[p].mails <= Cardinality(Sweeps) + faults
    BY DEF BreachToldSparingly
  <2>1. Sparing(p) /\ promise[p].mails \in Nat /\ faults \in Nat
    BY DEF MailInv, TypeOK, PromiseRecord
  <2> QED BY <2>1, AllSweeps DEF Sparing
<1> QED BY <1>1, <1>2, TakenStep, MailStep, Shaped, PTL DEF Spec

-----------------------------------------------------------------------------
(* What becomes of a promise.                                              *)

\* All a step can do to promise p: make it, end it while it is active, break it
\* by id, mail its breach, record the mail, or let its date pass.
Begins(p) ==
    /\ promise[p].status = "none" /\ promise'[p].status = "active"
    /\ ~promise'[p].told /\ promise'[p].mails = 0
Ends(p) ==
    /\ promise[p].status = "active" /\ promise'[p].status \in {"kept", "superseded"}
    /\ promise'[p].past = promise[p].past
    /\ promise'[p].told = promise[p].told /\ promise'[p].mails = promise[p].mails
Breaks(p) ==
    /\ \E s \in Sweeps : p \in sweep[s].todo
    /\ promise'[p].status = "broken" /\ promise'[p].past = promise[p].past
    /\ promise'[p].told = promise[p].told /\ promise'[p].mails = promise[p].mails
Mailed(p) ==
    /\ \E s \in Sweeps : sweep[s].pc = "mail" /\ sweep[s].at = p
    /\ promise'[p].status = promise[p].status /\ promise'[p].past = promise[p].past
    /\ promise'[p].told = promise[p].told /\ promise'[p].mails = promise[p].mails + 1
Recorded(p) ==
    /\ \E s \in Sweeps : sweep[s].pc = "tell" /\ sweep[s].at = p
    /\ promise'[p].status = promise[p].status /\ promise'[p].past = promise[p].past
    /\ promise'[p].mails = promise[p].mails
Passes(p) ==
    /\ promise[p].status # "none"
    /\ promise'[p].status = promise[p].status /\ promise'[p].past
    /\ promise'[p].told = promise[p].told /\ promise'[p].mails = promise[p].mails

\* A status set on some promises leaves the rest of each as it was.
LEMMA WithMoves ==
    ASSUME TypeOK, NEW ps, NEW status, promise' = With(ps, status), NEW p \in Promises
    PROVE  /\ p \notin ps => promise'[p] = promise[p]
           /\ p \in ps => /\ promise'[p].status = status
                          /\ promise'[p].past = promise[p].past
                          /\ promise'[p].told = promise[p].told
                          /\ promise'[p].mails = promise[p].mails
<1>1. promise[p] \in PromiseRecord
  BY DEF TypeOK
<1>2. p \in ps => promise'[p] = [promise[p] EXCEPT !.status = status]
  BY DEF With
<1>3. p \notin ps => promise'[p] = promise[p]
  BY DEF With
<1> QED BY <1>1, <1>2, <1>3 DEF PromiseRecord

LEMMA PromiseChanges ==
    ASSUME TypeOK, [Next]_vars, NEW p \in Promises
    PROVE  \/ promise'[p] = promise[p]
           \/ Begins(p) \/ Ends(p) \/ Breaks(p) \/ Mailed(p) \/ Recorded(p) \/ Passes(p)
<1>0. promise[p] \in PromiseRecord /\ promise \in [Promises -> PromiseRecord]
  BY DEF TypeOK
<1>1. ASSUME NEW r \in Requests, Create(r)
      PROVE  promise'[p] = promise[p] \/ Begins(p) \/ Ends(p)
  <2>1. PICK n \in Promises \ Made, i \in {request[r].inv} :
            promise' = [With(Superseded(r), "superseded") EXCEPT ![n] =
                           [NoPromise EXCEPT !.inv = i, !.status = "active"]]
    BY <1>1 DEF Create
  <2>2. CASE p = n
    <3>1. promise'[p] = [NoPromise EXCEPT !.inv = i, !.status = "active"]
      BY <2>1, <2>2 DEF With
    <3>2. promise[p].status = "none"
      BY <2>2 DEF Made
    <3> QED BY <3>1, <3>2 DEF NoPromise, Begins
  <2>3. CASE p # n
    <3>1. promise'[p] = IF p \in Superseded(r)
                        THEN [promise[p] EXCEPT !.status = "superseded"] ELSE promise[p]
      BY <2>1, <2>3 DEF With
    <3>2. p \in Superseded(r) => promise[p].status = "active"
      BY DEF Superseded, ActiveOn
    <3>3. CASE p \in Superseded(r)
      BY <1>0, <3>1, <3>2, <3>3 DEF PromiseRecord, Ends
    <3> QED BY <3>1, <3>3
  <2> QED BY <2>2, <2>3
<1>2. ASSUME NEW h \in Handlers, KeepPromises(h)
      PROVE  promise'[p] = promise[p] \/ Ends(p)
  <2>1. promise' = With(handler[h].seen \cap ActiveOn(handler[h].inv), "kept")
    BY <1>2 DEF KeepPromises
  <2>2. CASE p \in handler[h].seen \cap ActiveOn(handler[h].inv)
    <3>1. promise[p].status = "active"
      BY <2>2 DEF ActiveOn
    <3>2. /\ promise'[p].status = "kept" /\ promise'[p].past = promise[p].past
          /\ promise'[p].told = promise[p].told /\ promise'[p].mails = promise[p].mails
      <4>1. promise'[p] = [promise[p] EXCEPT !.status = "kept"]
        BY <2>1, <2>2 DEF With
      <4> QED BY <1>0, <4>1 DEF PromiseRecord
    <3> QED BY <3>1, <3>2 DEF Ends
  <2>3. CASE p \notin handler[h].seen \cap ActiveOn(handler[h].inv)
    BY <2>1, <2>3 DEF With
  <2> QED BY <2>2, <2>3
<1>3. ASSUME NEW s \in Sweeps, NEW q \in Promises, BreakPromise(s, q)
      PROVE  promise'[p] = promise[p] \/ Breaks(p)
  <2>1. q \in sweep[s].todo /\ (promise' = promise \/ promise' = With({q}, "broken"))
    BY <1>3 DEF BreakPromise
  <2> QED BY <2>1, WithMoves DEF Breaks
<1>4. ASSUME NEW s \in Sweeps, TellUser(s)
      PROVE  promise'[p] = promise[p] \/ Mailed(p)
  <2>1. /\ sweep[s].pc = "mail"
        /\ \/ promise' = promise
           \/ promise' = [promise EXCEPT ![sweep[s].at].mails = @ + 1]
    BY <1>4 DEF TellUser
  <2> QED BY <1>0, <2>1 DEF Mailed, PromiseRecord
<1>5. ASSUME NEW s \in Sweeps, RecordTold(s)
      PROVE  promise'[p] = promise[p] \/ Recorded(p)
  <2>1. /\ sweep[s].pc = "tell"
        /\ \/ promise' = promise
           \/ promise' = [promise EXCEPT ![sweep[s].at].told = TRUE]
    BY <1>5 DEF RecordTold
  <2> QED BY <1>0, <2>1 DEF Recorded, PromiseRecord
<1>6. ASSUME NEW q \in Promises, PromiseDatePasses(q)
      PROVE  promise'[p] = promise[p] \/ Passes(p)
  BY <1>0, <1>6 DEF PromiseDatePasses, Passes, PromiseRecord
<1>7. CASE promise' = promise
  BY <1>7
<1> QED BY <1>1, <1>2, <1>3, <1>4, <1>5, <1>6, <1>7
    DEF Next, vars, Submit, Supersede, AbortRequest, Deliver, LookForPromises,
        FindArrangement, CountUnresolved, Fulfil, AbortHandler, StartSweep, SweepStep,
        FindLapsed, EndArrangement, AbortSweep, RequestArrangement, Arrange,
        RequestChange, WriteChange, Settle, Reopen, ChangeAccess, ArrangementDatePasses

\* What a sweep's list and the promise it is at say of the promises.
ListsInv ==
    \A s \in Sweeps :
        /\ \A p \in sweep[s].todo : promise[p].status # "none" /\ promise[p].past
        /\ sweep[s].pc \in {"mail", "tell"} => promise[sweep[s].at].status = "broken"
        /\ sweep[s].pc = "tell" => promise[sweep[s].at].mails > 0

\* Every step keeps the notices true to the promises,
LEMMA NoticesStep == TypeOK /\ ListsInv /\ NoticesAreTrue /\ [Next]_vars => NoticesAreTrue'
<1> SUFFICES ASSUME TypeOK, ListsInv, NoticesAreTrue, [Next]_vars, NEW p \in Promises
             PROVE  /\ promise'[p].mails > 0 => promise'[p].status = "broken"
                    /\ promise'[p].status = "broken" => promise'[p].past
                    /\ promise'[p].told => promise'[p].mails > 0
  BY DEF NoticesAreTrue
<1>0. promise[p].mails \in Nat
  BY DEF TypeOK, PromiseRecord
<1>1. /\ promise[p].mails > 0 => promise[p].status = "broken"
      /\ promise[p].status = "broken" => promise[p].past
      /\ promise[p].told => promise[p].mails > 0
  BY DEF NoticesAreTrue
<1>2. CASE promise'[p] = promise[p]
  BY <1>1, <1>2
<1>3. CASE Begins(p) \/ Ends(p)
  BY <1>1, <1>3 DEF Begins, Ends
<1>4. CASE Breaks(p)
  BY <1>1, <1>4 DEF Breaks, ListsInv
<1>5. CASE Mailed(p)
  BY <1>0, <1>1, <1>5 DEF Mailed, ListsInv
<1>6. CASE Recorded(p)
  BY <1>1, <1>6 DEF Recorded, ListsInv
<1>7. CASE Passes(p)
  BY <1>1, <1>7 DEF Passes
<1> QED BY <1>2, <1>3, <1>4, <1>5, <1>6, <1>7, PromiseChanges

\* and the sweeps' lists, for what they say of a promise does not cease to hold.
LEMMA ListsStep == TypeOK /\ ListsInv /\ NoticesAreTrue /\ [Next]_vars => ListsInv'
<1> SUFFICES ASSUME TypeOK, ListsInv, NoticesAreTrue, [Next]_vars PROVE ListsInv'
  OBVIOUS
<1>1. ASSUME NEW p \in Promises
      PROVE  /\ promise[p].status # "none" /\ promise[p].past =>
                    promise'[p].status # "none" /\ promise'[p].past
             /\ promise[p].status = "broken" => promise'[p].status = "broken"
             /\ promise[p].status = "broken" /\ promise[p].mails > 0 => promise'[p].mails > 0
  <2>1. promise[p].mails \in Nat
    BY DEF TypeOK, PromiseRecord
  <2> QED
    BY <2>1, PromiseChanges DEF Begins, Ends, Breaks, Mailed, Recorded, Passes
<1>2. ASSUME NEW s \in Sweeps, sweep'[s].todo \in SUBSET Promises,
             \A p \in sweep'[s].todo : p \in sweep[s].todo \/ p \in Due,
             sweep'[s].pc \in {"mail", "tell"} =>
                 sweep'[s].at \in Promises /\ promise'[sweep'[s].at].status = "broken",
             sweep'[s].pc = "tell" => promise'[sweep'[s].at].mails > 0
      PROVE  /\ \A p \in sweep'[s].todo : promise'[p].status # "none" /\ promise'[p].past
             /\ sweep'[s].pc \in {"mail", "tell"} => promise'[sweep'[s].at].status = "broken"
             /\ sweep'[s].pc = "tell" => promise'[sweep'[s].at].mails > 0
  BY <1>1, <1>2 DEF ListsInv, Due
<1>3. ASSUME NEW s \in Sweeps, sweep'[s] = sweep[s]
      PROVE  /\ \A p \in sweep'[s].todo : promise'[p].status # "none" /\ promise'[p].past
             /\ sweep'[s].pc \in {"mail", "tell"} => promise'[sweep'[s].at].status = "broken"
             /\ sweep'[s].pc = "tell" => promise'[sweep'[s].at].mails > 0
  <2>1. /\ sweep[s].todo \subseteq Promises
        /\ sweep[s].pc \in {"mail", "tell"} => sweep[s].at \in Promises
    BY DEF TypeOK, SweepRecord
  <2> QED BY <1>1, <1>3, <2>1 DEF ListsInv
<1>4. ASSUME NEW s \in Sweeps, StartSweep(s) \/ SweepStep(s) \/ AbortSweep(s)
      PROVE  ListsInv'
  <2>1. sweep[s].todo \subseteq Promises /\ Due \subseteq Promises
    BY DEF TypeOK, SweepRecord, Due
  <2>2. CASE StartSweep(s)
    BY <1>2, <1>4, <2>1, <2>2, <1>3, SweepChanges DEF ListsInv
  <2>3. ASSUME NEW p \in Promises, BreakPromise(s, p) PROVE ListsInv'
    <3>1. sweep'[s].pc = "mail" => promise'[p].status = "broken"
      <4>1. sweep[s].pc = "promises"
        BY <2>3 DEF BreakPromise
      <4>2. CASE sweep' = [sweep EXCEPT ![s].todo = @ \ {p}]
        BY <4>1, <4>2 DEF TypeOK, SweepRecord
      <4>3. CASE promise' = With({p}, "broken")
        <5>1. promise'[p] = [promise[p] EXCEPT !.status = "broken"]
          BY <4>3 DEF With
        <5> QED BY <5>1 DEF TypeOK, PromiseRecord
      <4> QED BY <2>3, <4>2, <4>3 DEF BreakPromise
    <3> QED BY <1>2, <1>3, <1>4, <2>1, <2>3, <3>1, SweepChanges DEF ListsInv
  <2>4. CASE TellUser(s)
    <3>1. /\ sweep[s].pc = "mail" /\ sweep[s].at \in Promises
          /\ promise[sweep[s].at].mails \in Nat
      BY <2>4 DEF TellUser, TypeOK, PromiseRecord
    <3>2. CASE NextPromise(s)
      BY <1>2, <1>3, <1>4, <2>1, <3>2, SweepChanges DEF ListsInv
    <3>3. CASE /\ sweep' = [sweep EXCEPT ![s].pc = "tell"]
               /\ promise' = [promise EXCEPT ![sweep[s].at].mails = @ + 1]
      <4>1. promise'[sweep[s].at].mails > 0
        <5>1. promise'[sweep[s].at] = [promise[sweep[s].at] EXCEPT !.mails = @ + 1]
          BY <3>1, <3>3 DEF TypeOK
        <5>2. promise[sweep[s].at] \in PromiseRecord
          BY <3>1 DEF TypeOK
        <5> QED BY <3>1, <5>1, <5>2 DEF PromiseRecord
      <4>2. promise'[sweep[s].at].status = "broken"
        BY <1>1, <3>1 DEF ListsInv
      <4> QED
        BY <1>2, <1>3, <1>4, <2>1, <3>1, <3>3, <4>1, <4>2, SweepChanges DEF ListsInv
    <3> QED BY <2>4, <3>2, <3>3 DEF TellUser
  <2>5. CASE RecordTold(s)
    <3>1. NextPromise(s)
      BY <2>5 DEF RecordTold
    <3> QED BY <1>2, <1>3, <1>4, <2>1, <3>1, SweepChanges DEF ListsInv
  <2>6. CASE FindLapsed(s) \/ EndArrangement(s) \/ AbortSweep(s)
    BY <1>2, <1>3, <1>4, <2>1, <2>6, SweepChanges DEF ListsInv
  <2> QED BY <1>4, <2>2, <2>3, <2>4, <2>5, <2>6 DEF SweepStep
<1>5. CASE sweep' = sweep
  BY <1>3, <1>5 DEF ListsInv
<1> QED BY <1>4, <1>5
    DEF Next, vars, Submit, Supersede, Create, AbortRequest, Deliver,
        LookForPromises, KeepPromises, FindArrangement, CountUnresolved, Fulfil,
        AbortHandler, RequestArrangement, Arrange, RequestChange, WriteChange,
        Settle, Reopen, ChangeAccess, PromiseDatePasses, ArrangementDatePasses

\* However submissions, payments and sweeps overlap, whatever the user was mailed
\* about is broken and past its date, and what is recorded as told was mailed
\* (breachSweep.ts, runPromiseAndArrangementBreachSweep).
THEOREM NoticesAreTrueHolds == Spec => []NoticesAreTrue
<1>1. Init => ListsInv /\ NoticesAreTrue
  <2> SUFFICES ASSUME Init PROVE ListsInv /\ NoticesAreTrue
    OBVIOUS
  <2>1. /\ IdleSweep.pc = "idle" /\ IdleSweep.todo = {}
        /\ ~NoPromise.told /\ NoPromise.mails = 0 /\ NoPromise.status = "none"
    BY DEF IdleSweep, NoPromise
  <2>2. /\ \A s \in Sweeps : sweep[s].pc = "idle" /\ sweep[s].todo = {}
        /\ \A p \in Promises : ~promise[p].told /\ promise[p].mails = 0
                               /\ promise[p].status = "none"
    BY <2>1, Zenon DEF Init
  <2> QED BY <2>2 DEF ListsInv, NoticesAreTrue
<1> QED BY <1>1, NoticesStep, ListsStep, Shaped, PTL DEF Spec

\* No step revives a promise or mends a broken one, and only a sweep that chose
\* it before breaks one that was kept or superseded meanwhile.
THEOREM EndedPromisesStayHolds == Spec => EndedPromisesStay
<1>1. TypeOK /\ [Next]_vars =>
        [\A p \in Promises :
            /\ promise[p].status = "broken" => promise'[p].status = "broken"
            /\ promise[p].status \in {"kept", "superseded"} =>
                  \/ promise'[p].status = promise[p].status
                  \/ promise'[p].status = "broken"
                     /\ \E s \in Sweeps : p \in sweep[s].todo]_vars
  BY PromiseChanges DEF Begins, Ends, Breaks, Mailed, Recorded, Passes
<1> QED BY <1>1, Shaped, PTL DEF Spec, EndedPromisesStay
=============================================================================
