------------------------ MODULE BillingMutationProofs ------------------------
(***************************************************************************)
(* Proofs about the billing journal, for any set of operations, any number *)
(* of executors and every tenant to start from.                            *)
(***************************************************************************)
EXTENDS BillingMutation, TLAPS

USE BillingAssumption

-----------------------------------------------------------------------------
(* Entries and keys.                                                       *)

LEMMA EntryFacts ==
    /\ \A o \in Operations : Root(o) \in Entries /\ Prerequisite(o) \in Entries
    /\ \A o, p \in Operations : /\ Root(o) # Prerequisite(p)
                                /\ Root(o) = Root(p) => o = p
                                /\ Prerequisite(o) = Prerequisite(p) => o = p
    /\ \A i \in Entries : /\ i[1] \in Operations
                          /\ i[2] \in {"root", "customer"}
                          /\ i[2] = "root" => i = Root(i[1])
                          /\ i[2] = "customer" => i = Prerequisite(i[1])
    /\ \A o \in Operations : Root(o)[1] = o /\ Prerequisite(o)[1] = o
                             /\ Root(o)[2] = "root" /\ Prerequisite(o)[2] = "customer"
  BY DEF Root, Prerequisite, Entries

LEMMA KeyFacts ==
    /\ \A i \in Entries : \A n \in {1, 2} : /\ <<i, n>> \in Keys
                                            /\ <<i, n>>[1] = i
                                            /\ <<i, n>>[2] = n
    /\ \A k \in Keys : k[1] \in Entries /\ k[2] \in {1, 2} /\ k = <<k[1], k[2]>>
    /\ \A i \in Entries : StepsOf(i) \subseteq Keys /\ NextStep(i) \in Keys
                          /\ NextStep(i)[1] = i /\ NextStep(i)[2] \in {1, 2}
                          /\ NextStep(i) = <<i, NextStep(i)[2]>>
  BY DEF Keys, StepsOf, NextStep

-----------------------------------------------------------------------------
(* Types.  An executor at work is at an entry.                             *)

AtWork(e) == executor[e].pc \notin {"new", "gone"}
EntryInv == \A e \in Executors : AtWork(e) => executor[e].entry \in Entries
TypeInv == TypeOK /\ EntryInv

Places == {"new", "gone", "claim", "run", "dispatch", "wait", "uncertain", "refused",
           "record", "verify", "reject"}

LEMMA AtFacts ==
    ASSUME NEW pc \in Places, NEW i \in Entries \cup {Null}, NEW n \in {1, 2},
           NEW recovery \in BOOLEAN
    PROVE  /\ At(pc, i, n, recovery) \in ExecutorRecord
           /\ At(pc, i, n, recovery).pc = pc
           /\ At(pc, i, n, recovery).entry = i
           /\ At(pc, i, n, recovery).step = n
           /\ At(pc, i, n, recovery).recovery = recovery
  BY DEF At, ExecutorRecord, Places

\* What replacing the record of one executor does to the others.
LEMMA Replaced ==
    ASSUME TypeInv, NEW e \in Executors, NEW r \in ExecutorRecord,
           r.pc \notin {"new", "gone"} => r.entry \in Entries,
           executor' = [executor EXCEPT ![e] = r]
    PROVE  /\ executor' \in [Executors -> ExecutorRecord]
           /\ EntryInv'
           /\ executor'[e] = r
           /\ \A f \in Executors \ {e} : executor'[f] = executor[f]
  BY DEF TypeInv, TypeOK, EntryInv, AtWork

LEMMA RecordFacts ==
    ASSUME TypeInv, NEW e \in Executors
    PROVE  /\ executor[e] \in ExecutorRecord
           /\ executor[e].pc \in Places
           /\ executor[e].entry \in Entries \cup {Null}
           /\ executor[e].step \in {1, 2}
           /\ executor[e].recovery \in BOOLEAN
           /\ AtWork(e) => executor[e].entry \in Entries /\ KeyOf(e) \in Keys
  <1>1. executor[e] \in ExecutorRecord
    BY DEF TypeInv, TypeOK
  <1>2. AtWork(e) => executor[e].entry \in Entries
    BY DEF TypeInv, EntryInv
  <1> QED
    BY <1>1, <1>2, KeyFacts DEF ExecutorRecord, Places, KeyOf

LEMMA Left ==
    ASSUME TypeInv, NEW e \in Executors, Leave(e)
    PROVE  /\ executor' \in [Executors -> ExecutorRecord]
           /\ EntryInv'
           /\ executor'[e].pc = "gone"
           /\ \A f \in Executors \ {e} : executor'[f] = executor[f]
  <1>1. Gone \in ExecutorRecord /\ Gone.pc = "gone"
    BY DEF Gone, At, ExecutorRecord
  <1>2. executor' = [executor EXCEPT ![e] = Gone]
    BY DEF Leave
  <1> QED
    BY <1>1, <1>2, Replaced

LEMMA Moved ==
    ASSUME TypeInv, NEW e \in Executors, AtWork(e),
           NEW pc \in Places, NEW n \in {1, 2}, GotoStep(e, pc, n)
    PROVE  /\ executor' \in [Executors -> ExecutorRecord]
           /\ EntryInv'
           /\ executor'[e].pc = pc
           /\ executor'[e].entry = executor[e].entry
           /\ executor'[e].step = n
           /\ executor'[e].recovery = executor[e].recovery
           /\ \A f \in Executors \ {e} : executor'[f] = executor[f]
  <1> DEFINE r == At(pc, executor[e].entry, n, executor[e].recovery)
  <1>1. /\ executor[e].entry \in Entries
        /\ executor[e].recovery \in BOOLEAN
    BY RecordFacts
  <1>2. /\ r \in ExecutorRecord /\ r.pc = pc /\ r.entry = executor[e].entry
        /\ r.step = n /\ r.recovery = executor[e].recovery
    BY <1>1, AtFacts
  <1>3. executor' = [executor EXCEPT ![e] = r]
    BY DEF GotoStep
  <1> HIDE DEF r
  <1> QED
    BY <1>1, <1>2, <1>3, Replaced

\* EntryInv is about the executors only.
LEMMA EntriesStay == ASSUME EntryInv, UNCHANGED executor PROVE EntryInv'
  BY DEF EntryInv, AtWork

LEMMA TypedInit == Init => TypeInv
  <1> SUFFICES ASSUME Init PROVE TypeInv
    OBVIOUS
  <1>1. New \in ExecutorRecord /\ New.pc = "new"
    BY DEF New, At, ExecutorRecord
  <1>2. /\ executor \in [Executors -> ExecutorRecord]
        /\ EntryInv
    BY <1>1 DEF Init, EntryInv, AtWork
  <1>3. bound \in Bindings
    BY DEF Init, Bindings, Links
  <1>4. /\ scheduled \in BOOLEAN /\ trialing \in BOOLEAN /\ owner \in BOOLEAN
        /\ subscription \in {"none", "live", "ended"}
        /\ schedule \in {"none", "active", "released"}
    BY DEF Init
  <1>5. /\ plan \in [Operations -> Actions \cup {Null}]
        /\ status \in [Entries -> OpenStatuses \cup {"absent", "succeeded", "failed"}]
        /\ execution \in [Entries -> Bindings \cup {Null}]
        /\ holder \in [Entries -> Executors \cup {Null}]
        /\ step \in [Keys -> OpenStatuses \cup {"absent", "succeeded", "failed"}]
    BY DEF Init
  <1>6. /\ attempts \in [Keys -> 0..2] /\ effects \in [Keys -> 0..2]
        /\ kept \in [Keys -> {"none", "done", "failed"}]
    BY DEF Init
  <1> QED
    BY <1>2, <1>3, <1>4, <1>5, <1>6 DEF Init, TypeInv, TypeOK

\* What Stripe does with a request, whoever waits for the answer.
LEMMA HandleTypes ==
    ASSUME TypeInv, NEW k \in Keys, NEW a \in Answers, Handle(k, a)
    PROVE  /\ effects' \in [Keys -> 0..2]
           /\ kept' \in [Keys -> {"none", "done", "failed"}]
           /\ subscription' = subscription
           /\ schedule' \in {"none", "active", "released"}
  <1>1. effects' \in [Keys -> 0..2]
    BY DEF Handle, Perform, TypeInv, TypeOK
  <1>2. kept' \in [Keys -> {"none", "done", "failed"}]
    BY DEF Handle, Answers, TypeInv, TypeOK
  <1>3. ScheduleAfter(k) \in {"none", "active", "released"}
    BY DEF ScheduleAfter, TypeInv, TypeOK
  <1>4. schedule' \in {"none", "active", "released"}
    BY <1>3 DEF Handle, Perform, TypeInv, TypeOK
  <1> QED
    BY <1>1, <1>2, <1>4 DEF Handle

LEMMA LateTypes ==
    ASSUME TypeInv, NEW k \in Keys, Late(k)
    PROVE  /\ effects' \in [Keys -> 0..2]
           /\ kept' \in [Keys -> {"none", "done", "failed"}]
           /\ subscription' = subscription
           /\ schedule' \in {"none", "active", "released"}
  <1>1. CASE \E a \in Answers : Handle(k, a)
    BY <1>1, HandleTypes
  <1>2. CASE UNCHANGED <<effects, kept, subscription, schedule>>
    BY <1>2 DEF TypeInv, TypeOK
  <1> QED
    BY <1>1, <1>2 DEF Late

LEMMA TypedEnvironment == TypeInv /\ Environment => TypeInv'
  <1> SUFFICES ASSUME TypeInv, Environment PROVE TypeInv'
    OBVIOUS
  <1> USE DEF TypeInv
  <1>1. ASSUME NEW o \in Operations, Accept(o) PROVE TypeInv'
    <2>1. PICK intent \in Intents : \E a \in Planned(intent) :
            plan' = [plan EXCEPT ![o] = a]
      BY <1>1 DEF Accept
    <2>2. Planned(intent) \subseteq Actions
      BY DEF Planned, Actions
    <2>3. plan' \in [Operations -> Actions \cup {Null}]
      BY <2>1, <2>2 DEF TypeOK
    <2>4. current' \subseteq Operations
      BY <1>1 DEF Accept, TypeOK
    <2> QED
      BY <1>1, <2>3, <2>4, EntriesStay DEF Accept, TypeOK, journal, provider
  <1>2. ASSUME NEW i \in Entries, LeaseExpires(i) PROVE TypeInv'
    BY <1>2, EntriesStay DEF LeaseExpires, TypeOK, profile, provider
  <1>3. ASSUME NEW k \in Keys, WindowCloses(k) PROVE TypeInv'
    BY <1>3, EntriesStay DEF WindowCloses, TypeOK, profile, provider
  <1>4. ASSUME NEW k \in Keys, Late(k) PROVE TypeInv'
    <2>1. /\ effects' \in [Keys -> 0..2]
          /\ kept' \in [Keys -> {"none", "done", "failed"}]
          /\ subscription' = subscription
          /\ schedule' \in {"none", "active", "released"}
      BY <1>4, LateTypes
    <2>2. wire' \subseteq Keys
      BY <1>4 DEF Late, TypeOK
    <2> QED
      BY <1>4, <2>1, <2>2, EntriesStay DEF Late, TypeOK, profile, journal
  <1>5. ASSUME NEW k \in Keys, Forget(k) PROVE TypeInv'
    BY <1>5, EntriesStay DEF Forget, TypeOK, profile, journal
  <1>6. CASE SubscriptionWebhook \/ ReleaseWebhook \/ OwnerReserves \/ OwnerReleases
    BY <1>6, EntriesStay
    DEF SubscriptionWebhook, ReleaseWebhook, OwnerReserves, OwnerReleases, TypeOK,
        Bindings, journal, provider
  <1>7. CASE Subscribe \/ SubscriptionEnds
    BY <1>7, EntriesStay DEF Subscribe, SubscriptionEnds, TypeOK, profile, journal
  <1> QED
    BY <1>1, <1>2, <1>3, <1>4, <1>5, <1>6, <1>7 DEF Environment

LEMMA TypedExecutor ==
    ASSUME TypeInv, NEW e \in Executors, ExecutorStep(e)
    PROVE  TypeInv'
  <1> USE DEF TypeInv
  <1> DEFINE i == executor[e].entry
  <1>0. AtWork(e) => i \in Entries /\ KeyOf(e) \in Keys
    BY RecordFacts
  <1>1. ASSUME NEW o \in Operations, Reserve(e, o) PROVE TypeInv'
    <2>1. PICK r \in Entries : /\ status' = [status EXCEPT ![Root(o)] = "pending",
                                                          ![r] = "pending"]
                               /\ execution' = [execution EXCEPT ![r] = bound]
                               /\ \/ step' = step
                                  \/ step' = [step EXCEPT ![<<r, 1>>] = "pending"]
                               /\ pending' = r
                               /\ executor' = [executor EXCEPT ![e] =
                                                 At("claim", r, 1, FALSE)]
      BY <1>1, EntryFacts DEF Reserve
    <2>2. At("claim", r, 1, FALSE) \in ExecutorRecord
      BY DEF At, ExecutorRecord
    <2>3. executor' \in [Executors -> ExecutorRecord] /\ EntryInv'
      BY <2>1, <2>2, Replaced DEF At
    <2>4. <<r, 1>> \in Keys /\ Root(o) \in Entries
      BY KeyFacts, EntryFacts
    <2>5. status' \in [Entries -> OpenStatuses \cup {"absent", "succeeded", "failed"}]
      BY <2>1, <2>4 DEF TypeOK, OpenStatuses
    <2>6. step' \in [Keys -> OpenStatuses \cup {"absent", "succeeded", "failed"}]
      BY <2>1, <2>4 DEF TypeOK, OpenStatuses
    <2>7. execution' \in [Entries -> Bindings \cup {Null}]
      BY <2>1 DEF TypeOK
    <2> QED
      BY <1>1, <2>1, <2>3, <2>5, <2>6, <2>7 DEF Reserve, TypeOK, provider
  <1>2. ASSUME NEW o \in Operations, Recover(e, o) PROVE TypeInv'
    <2>1. PICK r \in {Root(o), Prerequisite(o)} :
            executor' = [executor EXCEPT ![e] = At("claim", r, 1, TRUE)]
      BY <1>2 DEF Recover
    <2>0. r \in Entries
      BY EntryFacts
    <2>2. At("claim", r, 1, TRUE) \in ExecutorRecord
      BY <2>0 DEF At, ExecutorRecord
    <2>3. executor' \in [Executors -> ExecutorRecord] /\ EntryInv'
      BY <2>0, <2>1, <2>2, Replaced DEF At
    <2> QED
      BY <1>2, <2>3 DEF Recover, TypeOK, profile, journal, provider
  <1>3. CASE Claim(e)
    <2>1. executor' \in [Executors -> ExecutorRecord] /\ EntryInv'
      BY <1>3, Moved, RecordFacts DEF Claim, Goto, AtWork, Places
    <2> QED
      BY <1>3, <2>1 DEF Claim, TypeOK, profile, provider
  <1>4. CASE Bind(e)
    <2>1. i \in Entries
      BY <1>0, <1>4 DEF Bind, Fenced, AtWork
    <2>2. bound' \in Bindings
      BY <1>4 DEF Bind, TypeOK, Bindings, Links
    <2> QED
      BY <1>4, <2>1, <2>2, EntriesStay DEF Bind, TypeOK, provider
  <1>5. CASE Freeze(e)
    <2>1. NextStep(i) \in Keys
      BY <1>0, <1>5, KeyFacts DEF Freeze, Fenced, AtWork
    <2> QED
      BY <1>5, <2>1, EntriesStay DEF Freeze, TypeOK, OpenStatuses, profile, provider
  <1>6. CASE Lookup(e)
    <2>1. i \in Entries /\ AtWork(e)
      BY <1>0, <1>6 DEF Lookup, Fenced, AtWork
    <2>2. NextStep(i)[2] \in {1, 2}
      BY <2>1, KeyFacts
    <2>3. executor' \in [Executors -> ExecutorRecord] /\ EntryInv'
      BY <1>6, <2>1, <2>2, Moved DEF Lookup, Places
    <2> QED
      BY <1>6, <2>3 DEF Lookup, TypeOK, profile, journal, provider
  <1>7. CASE Dispatch(e)
    <2>1. i \in Entries /\ AtWork(e)
      BY <1>0, <1>7 DEF Dispatch, Fenced, AtWork
    <2>2. NextStep(i) \in Keys /\ NextStep(i)[2] \in {1, 2}
      BY <2>1, KeyFacts
    <2>3. executor' \in [Executors -> ExecutorRecord] /\ EntryInv'
      BY <1>7, <2>1, <2>2, Moved DEF Dispatch, Places
    <2>4. attempts' \in [Keys -> 0..2]
      BY <1>7, <2>2 DEF Dispatch, TypeOK
    <2> QED
      BY <1>7, <2>3, <2>4 DEF Dispatch, TypeOK, profile, provider
  <1>8. CASE Answered(e)
    <2>1. AtWork(e)
      BY <1>8 DEF Answered, AtWork
    <2>2. PICK a \in Answers :
            /\ Handle(KeyOf(e), a)
            /\ Goto(e, CASE a = "done" -> "record"
                         [] a = "failed" -> "uncertain"
                         [] a = "refused" -> "refused")
      BY <1>8 DEF Answered
    <2>3. executor' \in [Executors -> ExecutorRecord] /\ EntryInv'
      BY <2>1, <2>2, Moved, RecordFacts DEF Goto, Answers, Places
    <2>4. /\ effects' \in [Keys -> 0..2]
          /\ kept' \in [Keys -> {"none", "done", "failed"}]
          /\ subscription' = subscription
          /\ schedule' \in {"none", "active", "released"}
      BY <2>1, <2>2, <1>0, HandleTypes
    <2> QED
      BY <1>8, <2>3, <2>4 DEF Answered, TypeOK, profile, journal
  <1>9. CASE Unknown(e)
    <2>1. AtWork(e)
      BY <1>9 DEF Unknown, AtWork
    <2>2. executor' \in [Executors -> ExecutorRecord] /\ EntryInv'
      BY <1>9, <2>1, Moved, RecordFacts DEF Unknown, Goto, Places
    <2>3. wire' \subseteq Keys
      BY <1>9, <1>0, <2>1 DEF Unknown, Abandon, TypeOK
    <2> QED
      BY <1>9, <2>2, <2>3 DEF Unknown, TypeOK, profile, journal
  <1>10. CASE MarkUncertain(e)
    <2>1. AtWork(e)
      BY <1>10 DEF MarkUncertain, Fenced, AtWork
    <2>2. executor' \in [Executors -> ExecutorRecord] /\ EntryInv'
      BY <1>10, <2>1, Moved, Left, RecordFacts DEF MarkUncertain, Goto, Places
    <2> QED
      BY <1>10, <1>0, <2>1, <2>2 DEF MarkUncertain, TypeOK, OpenStatuses, profile, provider
  <1>11. ASSUME NEW s \in {"succeeded", "failed"}, AtWork(e), RecordStep(e, s)
         PROVE  TypeInv'
    <2>1. executor' \in [Executors -> ExecutorRecord] /\ EntryInv'
      BY <1>11, Moved DEF RecordStep, Places
    <2> QED
      BY <1>11, <1>0, <2>1 DEF RecordStep, TypeOK, OpenStatuses, profile, provider
  <1>12. CASE RecordDone(e) \/ RecordRefused(e)
    BY <1>11, <1>12 DEF RecordDone, RecordRefused, Fenced, AtWork
  <1>13. CASE Handoff(e)
    <2>1. i \in Entries
      BY <1>0, <1>13 DEF Handoff, Fenced, AtWork
    <2>2. Root(i[1]) \in Entries
      BY <2>1, EntryFacts
    <2>3. At("claim", Root(i[1]), 1, executor[e].recovery) \in ExecutorRecord
      BY <2>2, RecordFacts DEF At, ExecutorRecord
    <2>4. executor' \in [Executors -> ExecutorRecord] /\ EntryInv'
      BY <1>13, <2>2, <2>3, Replaced DEF Handoff, At
    <2>5. bound' \in Bindings
      BY <1>13 DEF Handoff, Bindings
    <2> QED
      BY <1>13, <2>1, <2>2, <2>4, <2>5 DEF Handoff, TypeOK, OpenStatuses, provider
  <1>14. CASE Succeed(e) \/ Fail(e)
    <2>1. i \in Entries
      BY <1>0, <1>14 DEF Succeed, Fail, Fenced, AtWork
    <2>2. Root(i[1]) \in Entries
      BY <2>1, EntryFacts
    <2>3. executor' \in [Executors -> ExecutorRecord] /\ EntryInv'
      BY <1>14, Left DEF Succeed, Fail, Release
    <2>4. scheduled' \in BOOLEAN /\ trialing' \in BOOLEAN
      BY <1>14, Zenon DEF Succeed, Fail, Project, TypeOK
    <2> QED
      BY <1>14, <2>1, <2>2, <2>3, <2>4
      DEF Succeed, Fail, Release, TypeOK, OpenStatuses, provider
  <1>15. CASE Stop(e)
    <2>1. executor' \in [Executors -> ExecutorRecord] /\ EntryInv'
      BY <1>15, Left DEF Stop
    <2>2. wire' \subseteq Keys
      BY <1>15, <1>0 DEF Stop, Abandon, TypeOK, AtWork
    <2> QED
      BY <1>15, <2>1, <2>2 DEF Stop, TypeOK, profile, journal
  <1> QED
    BY <1>1, <1>2, <1>3, <1>4, <1>5, <1>6, <1>7, <1>8, <1>9, <1>10, <1>12, <1>13,
       <1>14, <1>15 DEF ExecutorStep

LEMMA TypedStep == TypeInv /\ [Next]_vars => TypeInv'
  <1> SUFFICES ASSUME TypeInv, [Next]_vars PROVE TypeInv'
    OBVIOUS
  <1>1. CASE UNCHANGED vars
    BY <1>1, EntriesStay DEF TypeInv, TypeOK, vars, profile, journal, provider
  <1>2. CASE Environment
    BY <1>2, TypedEnvironment
  <1>3. ASSUME NEW e \in Executors, ExecutorStep(e) PROVE TypeInv'
    BY <1>3, TypedExecutor
  <1> QED
    BY <1>1, <1>2, <1>3 DEF Next

LEMMA Shaped == Spec => []TypeInv
  BY TypedInit, TypedStep, PTL DEF Spec

\* Every variable keeps its type, whatever the executors, Stripe and the
\* webhooks do (BillingMutation's TypeOK).
THEOREM BillingTyped == Spec => []TypeOK
  <1>1. TypeInv => TypeOK
    BY DEF TypeInv
  <1> QED
    BY <1>1, Shaped, PTL

-----------------------------------------------------------------------------
(* The reservation.                                                        *)

LEMMA HeldStays ==
    ASSUME ReservationHeld, UNCHANGED <<pending, owner, status>>
    PROVE  ReservationHeld'
  BY DEF ReservationHeld, Unresolved

\* A fenced executor is at work on the entry the tenant is reserved for.
LEMMA FencedFacts ==
    ASSUME TypeInv, NEW e \in Executors, NEW pcs, Fenced(e, pcs),
           pcs \cap {"new", "gone"} = {}
    PROVE  /\ AtWork(e)
           /\ executor[e].entry \in Entries
           /\ pending = executor[e].entry
           /\ holder[executor[e].entry] = e
           /\ Unresolved(executor[e].entry)
           /\ ~owner
           /\ execution[executor[e].entry] = bound
  <1>1. AtWork(e)
    BY DEF Fenced, AtWork
  <1>2. executor[e].entry \in Entries
    BY <1>1, RecordFacts
  <1> QED
    BY <1>1, <1>2 DEF Fenced, Executable, Holds

LEMMA HeldByReserve ==
    ASSUME TypeInv, ReservationHeld, NEW e \in Executors, NEW o \in Operations,
           Reserve(e, o)
    PROVE  ReservationHeld'
  <1>1. pending = Null /\ ~owner /\ owner' = owner
    BY DEF Reserve, Unreserved
  <1>2. PICK i \in {Root(o), Prerequisite(o)} :
          /\ status' = [status EXCEPT ![Root(o)] = "pending", ![i] = "pending"]
          /\ pending' = i
    BY DEF Reserve
  <1>3. i \in Entries /\ Root(o) \in Entries
    BY EntryFacts
  <1>4. status'[i] = "pending" /\ status'[Root(o)] = "pending"
    BY <1>2, <1>3 DEF TypeInv, TypeOK
  <1>5. ASSUME NEW p \in Operations, p # o PROVE ~Unresolved(Root(p))'
    <2>1. ~Unresolved(Root(p))
      BY <1>1, EntryFacts DEF ReservationHeld, Entries
    <2>2. status'[Root(p)] = status[Root(p)]
      BY <1>2, <1>5, EntryFacts DEF TypeInv, TypeOK
    <2> QED
      BY <2>1, <2>2 DEF Unresolved
  <1> QED
    BY <1>1, <1>2, <1>4, <1>5 DEF ReservationHeld, Unresolved, OpenStatuses

\* MarkUncertain and RecordStep: the entry stays unresolved.
LEMMA HeldByProgress ==
    ASSUME TypeInv, ReservationHeld, pending \in Entries,
           status' = [status EXCEPT ![pending] = "reconciliation_required"],
           UNCHANGED <<pending, owner>>
    PROVE  ReservationHeld'
  <1>1. Unresolved(pending)'
    BY DEF Unresolved, OpenStatuses, TypeInv, TypeOK
  <1>2. ASSUME NEW o \in Operations, Unresolved(Root(o))'
        PROVE  Unresolved(Root(o)) \/ Root(o) = pending
    BY <1>2, EntryFacts DEF Unresolved, TypeInv, TypeOK
  <1> QED
    BY <1>1, <1>2 DEF ReservationHeld

LEMMA HeldByHandoff ==
    ASSUME TypeInv, ReservationHeld, NEW e \in Executors, Handoff(e)
    PROVE  ReservationHeld'
  <1>0. PICK i \in Entries : i = executor[e].entry
    BY FencedFacts DEF Handoff
  <1> DEFINE root == Root(i[1])
  <1>1. i \in Entries /\ pending = i /\ ~owner
    BY <1>0, FencedFacts DEF Handoff
  <1>2. /\ i[2] = "customer" /\ Unresolved(root)
        /\ status' = [status EXCEPT ![i] = "succeeded"]
        /\ pending' = root /\ owner' = owner
    BY <1>0 DEF Handoff
  <1>3. i[1] \in Operations /\ i = Prerequisite(i[1]) /\ root \in Entries /\ root # i
    BY <1>1, <1>2, EntryFacts
  <1>4. status'[root] = status[root]
    BY <1>2, <1>3 DEF TypeInv, TypeOK
  <1>5. Unresolved(root)'
    BY <1>2, <1>4 DEF Unresolved
  <1>6. ASSUME NEW p \in Operations, Unresolved(Root(p))' PROVE p = i[1]
    <2>1. Root(p) # i /\ Root(p) \in Entries
      BY <1>3, EntryFacts
    <2>2. status'[Root(p)] = status[Root(p)]
      BY <1>2, <2>1 DEF TypeInv, TypeOK
    <2>3. Unresolved(Root(p))
      BY <1>6, <2>2 DEF Unresolved
    <2> QED
      BY <1>1, <1>3, <2>3, EntryFacts DEF ReservationHeld
  <1>7. pending' # Null => Unresolved(pending)'
    BY <1>2, <1>5
  <1> QED
    BY <1>1, <1>2, <1>6, <1>7 DEF ReservationHeld

LEMMA HeldByFinalize ==
    ASSUME TypeInv, ReservationHeld, NEW e \in Executors, Succeed(e) \/ Fail(e)
    PROVE  ReservationHeld'
  <1> DEFINE i == executor[e].entry
  <1>1. i \in Entries /\ pending = i /\ pending' = Null
    BY FencedFacts DEF Succeed, Fail, Release
  <1>2. i[1] \in Operations /\ Root(i[1]) \in Entries
    BY <1>1, EntryFacts
  <1>3. /\ status'[Root(i[1])] \in {"succeeded", "failed"}
        /\ \A r \in Entries \ {i, Root(i[1])} : status'[r] = status[r]
    <2>1. CASE Succeed(e)
      BY <1>1, <1>2, <2>1, EntryFacts DEF Succeed, TypeInv, TypeOK
    <2>2. CASE Fail(e)
      BY <1>1, <1>2, <2>2 DEF Fail, TypeInv, TypeOK
    <2> QED
      BY <2>1, <2>2
  <1> HIDE DEF i
  <1>4. ASSUME NEW p \in Operations PROVE ~Unresolved(Root(p))'
    <2>1. CASE p = i[1]
      BY <1>3, <2>1 DEF Unresolved, OpenStatuses
    <2>2. CASE p # i[1]
      <3>1. Root(p) \in Entries \ {i, Root(i[1])} /\ i \notin {Root(p), Prerequisite(p)}
        BY <1>1, <1>2, <2>2, EntryFacts
      <3>2. ~Unresolved(Root(p))
        BY <1>1, <3>1 DEF ReservationHeld
      <3> QED
        BY <1>3, <3>1, <3>2 DEF Unresolved
    <2> QED
      BY <2>1, <2>2
  <1> QED
    BY <1>1, <1>4 DEF ReservationHeld

LEMMA HeldStep == TypeInv /\ ReservationHeld /\ [Next]_vars => ReservationHeld'
  <1> SUFFICES ASSUME TypeInv, ReservationHeld, [Next]_vars PROVE ReservationHeld'
    OBVIOUS
  <1>1. CASE UNCHANGED vars
    BY <1>1, HeldStays DEF vars, profile, journal
  <1>2. CASE OwnerReserves
    BY <1>2 DEF OwnerReserves, Unreserved, ReservationHeld, Unresolved, journal
  <1>3. CASE OwnerReleases
    BY <1>3 DEF OwnerReleases, ReservationHeld, Unresolved, journal
  <1>4. CASE Environment /\ ~OwnerReserves /\ ~OwnerReleases
    BY <1>4, HeldStays
    DEF Environment, Accept, LeaseExpires, WindowCloses, Late, Forget, SubscriptionWebhook,
        ReleaseWebhook, Subscribe, SubscriptionEnds, profile, journal
  <1>5. ASSUME NEW e \in Executors, ExecutorStep(e) PROVE ReservationHeld'
    <2>1. CASE \E o \in Operations : Reserve(e, o)
      BY <2>1, HeldByReserve
    <2>2. CASE \/ \E o \in Operations : Recover(e, o)
               \/ Claim(e) \/ Bind(e) \/ Freeze(e) \/ Lookup(e) \/ Dispatch(e)
               \/ Answered(e) \/ Unknown(e) \/ Stop(e)
      BY <2>2, HeldStays
      DEF Recover, Claim, Bind, Freeze, Lookup, Dispatch, Answered, Unknown, Stop, profile,
          journal
    <2>3. CASE MarkUncertain(e) \/ RecordDone(e) \/ RecordRefused(e)
      <3>1. executor[e].entry \in Entries /\ pending = executor[e].entry
        BY <2>3, FencedFacts DEF MarkUncertain, RecordDone, RecordRefused
      <3> QED
        BY <2>3, <3>1, HeldByProgress
        DEF MarkUncertain, RecordDone, RecordRefused, RecordStep, profile
    <2>4. CASE Handoff(e)
      BY <2>4, HeldByHandoff
    <2>5. CASE Succeed(e) \/ Fail(e)
      BY <2>5, HeldByFinalize
    <2> QED
      BY <1>5, <2>1, <2>2, <2>3, <2>4, <2>5 DEF ExecutorStep
  <1> QED
    BY <1>1, <1>2, <1>3, <1>4, <1>5 DEF Next

\* For any interleaving of operations, executors, crashes and expired leases,
\* an unresolved operation keeps its tenant, alone (ReservationHeld).
THEOREM ReservationIsHeld == Spec => []ReservationHeld
  <1>1. Init => ReservationHeld
    BY EntryFacts DEF Init, ReservationHeld, Unresolved, OpenStatuses
  <1> QED
    BY <1>1, HeldStep, Shaped, PTL DEF Spec

-----------------------------------------------------------------------------
(* Fencing.                                                                *)

Steady == UNCHANGED <<pending, status, execution, step>>

LEMMA OnlyTheHolder ==
    ASSUME TypeInv, [Next]_vars, pending # Null, ~Steady
    PROVE  /\ holder[pending] # Null
           /\ executor[holder[pending]].entry = pending
           /\ \A f \in Executors \ {holder[pending]} : executor'[f] = executor[f]
  <1>1. CASE UNCHANGED vars \/ Environment
    BY <1>1
    DEF Steady, Environment, Accept, LeaseExpires, WindowCloses, Late, Forget,
        SubscriptionWebhook, ReleaseWebhook, OwnerReserves, OwnerReleases, Subscribe,
        SubscriptionEnds, profile, journal, vars
  <1>2. ASSUME NEW e \in Executors, ExecutorStep(e)
        PROVE  /\ holder[pending] = e
               /\ executor[e].entry = pending
               /\ \A f \in Executors \ {e} : executor'[f] = executor[f]
    <2>1. CASE \/ \E o \in Operations : Reserve(e, o) \/ Recover(e, o)
               \/ Claim(e) \/ Lookup(e) \/ Dispatch(e) \/ Answered(e) \/ Unknown(e)
               \/ Stop(e)
      BY <2>1
      DEF Steady, Reserve, Unreserved, Recover, Claim, Lookup, Dispatch, Answered, Unknown,
          Stop, profile, journal
    <2>2. CASE Bind(e) \/ Freeze(e)
      BY <2>2, FencedFacts DEF Bind, Freeze
    <2>3. CASE MarkUncertain(e)
      BY <2>3, FencedFacts, Moved, Left, RecordFacts DEF MarkUncertain, Goto, Places
    <2>4. CASE RecordDone(e) \/ RecordRefused(e)
      BY <2>4, FencedFacts, Moved DEF RecordDone, RecordRefused, RecordStep, Places
    <2>5. CASE Handoff(e)
      BY <2>5, FencedFacts DEF Handoff, TypeInv, TypeOK
    <2>6. CASE Succeed(e) \/ Fail(e)
      BY <2>6, FencedFacts, Left DEF Succeed, Fail, Release
    <2> QED
      BY <1>2, <2>1, <2>2, <2>3, <2>4, <2>5, <2>6 DEF ExecutorStep
  <1> QED
    BY <1>1, <1>2 DEF Next

\* Whatever a stale executor still does, it never writes the journal or the
\* reservation of its tenant (StaleNeverWrites).
THEOREM StaleExecutorsAreFenced == Spec => StaleNeverWrites
  <1>1. TypeInv /\ [Next]_vars =>
          [/\ pending # Null
           /\ <<pending, status, execution, step>>' # <<pending, status, execution, step>>
           => /\ holder[pending] # Null
              /\ executor[holder[pending]].entry = pending
              /\ \A e \in Executors \ {holder[pending]} : executor'[e] = executor[e]]_vars
    BY OnlyTheHolder DEF Steady
  <1> QED
    BY <1>1, Shaped, PTL DEF Spec, StaleNeverWrites

-----------------------------------------------------------------------------
(* Plans.  A plan whose version is current fits the profile's links; an     *)
(* operation not yet reserved has no trace; one with a prerequisite undoes  *)
(* nothing.                                                                *)

Fits(a, links) ==
    /\ a \in {"checkout_create", "cancel"} => "subscription" \notin links
    /\ a = "undo_downgrade" => links = Links

CurrentInv == \A o \in current : Fits(plan[o], bound)
FreshInv ==
    \A o \in Operations :
        /\ status[Root(o)] = "absent" => /\ status[Prerequisite(o)] = "absent"
                                        /\ execution[Root(o)] = Null
        /\ status[Prerequisite(o)] # "absent" => plan[o] # "undo_downgrade"
PlanInv == CurrentInv /\ FreshInv /\ PlanFitsBinding

LEMMA PlanStays ==
    ASSUME PlanInv,
           UNCHANGED <<plan, execution>>,
           current' = {} \/ UNCHANGED <<current, bound>>,
           \A i \in Entries : status'[i] = "absent" <=> status[i] = "absent"
    PROVE  PlanInv'
  BY EntryFacts DEF PlanInv, CurrentInv, FreshInv, PlanFitsBinding, Fits

LEMMA PlanByAccept ==
    ASSUME TypeInv, PlanInv, NEW o \in Operations, Accept(o)
    PROVE  PlanInv'
  <1>1. PICK intent \in Intents : \E a \in Planned(intent) :
          plan' = [plan EXCEPT ![o] = a]
    BY DEF Accept
  <1>2. PICK a \in Planned(intent) : plan' = [plan EXCEPT ![o] = a]
    BY <1>1
  <1>3. Fits(a, bound)
    BY <1>2 DEF Planned, Fits
  <1>4. plan'[o] = a /\ \A p \in Operations \ {o} : plan'[p] = plan[p]
    BY <1>2 DEF TypeInv, TypeOK
  <1>5. CurrentInv'
    BY <1>3, <1>4 DEF Accept, PlanInv, CurrentInv, Fits, TypeInv, TypeOK
  <1>6. FreshInv' /\ PlanFitsBinding'
    BY <1>4 DEF Accept, PlanInv, FreshInv, PlanFitsBinding, journal
  <1> QED
    BY <1>5, <1>6 DEF PlanInv

LEMMA PlanByReserve ==
    ASSUME TypeInv, PlanInv, NEW e \in Executors, NEW o \in Operations, Reserve(e, o)
    PROVE  PlanInv'
  <1> DEFINE i == IF plan[o] = "cancel" \/ "customer" \in bound
                  THEN Root(o) ELSE Prerequisite(o)
  <1>1. /\ status' = [status EXCEPT ![Root(o)] = "pending", ![i] = "pending"]
        /\ execution' = [execution EXCEPT ![i] = bound]
        /\ current' = {} /\ plan' = plan
        /\ Fits(plan[o], bound)
    BY DEF Reserve, VersionIsCurrent, PlanInv, CurrentInv
  <1>2. i \in Entries /\ Root(o) \in Entries
    BY EntryFacts
  <1>3. status'[Root(o)] = "pending"
    BY <1>1, <1>2 DEF TypeInv, TypeOK
  <1>4. i = Prerequisite(o) => plan[o] # "undo_downgrade"
    BY <1>1, EntryFacts DEF Fits, Links
  <1> HIDE DEF i
  <1>5. i \in {Root(o), Prerequisite(o)}
    BY DEF i
  <1>6. ASSUME NEW p \in Operations, p # o
        PROVE  /\ status'[Root(p)] = status[Root(p)]
               /\ status'[Prerequisite(p)] = status[Prerequisite(p)]
               /\ execution'[Root(p)] = execution[Root(p)]
    BY <1>1, <1>2, <1>5, <1>6, EntryFacts DEF TypeInv, TypeOK
  <1>7. FreshInv'
    <2> SUFFICES ASSUME NEW p \in Operations
                 PROVE  /\ status'[Root(p)] = "absent" =>
                             /\ status'[Prerequisite(p)] = "absent"
                             /\ execution'[Root(p)] = Null
                        /\ status'[Prerequisite(p)] # "absent" =>
                             plan'[p] # "undo_downgrade"
      BY DEF FreshInv
    <2>1. CASE p # o
      BY <1>1, <1>6, <2>1 DEF PlanInv, FreshInv
    <2>2. CASE p = o /\ i = Prerequisite(o)
      BY <1>1, <1>3, <1>4, <2>2
    <2>3. CASE p = o /\ i = Root(o)
      <3>1. status'[Prerequisite(o)] = status[Prerequisite(o)]
        BY <1>1, <2>3, EntryFacts DEF TypeInv, TypeOK
      <3> QED
        BY <1>1, <1>3, <2>3, <3>1 DEF PlanInv, FreshInv
    <2> QED
      BY <1>5, <2>1, <2>2, <2>3
  <1>8. PlanFitsBinding'
    <2> SUFFICES ASSUME NEW p \in Operations, execution'[Root(p)] # Null
                 PROVE  Fits(plan[p], execution'[Root(p)])
      BY <1>1 DEF PlanFitsBinding, Fits
    <2>1. CASE p # o
      BY <1>6, <2>1 DEF PlanInv, PlanFitsBinding, Fits
    <2>2. CASE p = o /\ i = Root(o)
      BY <1>1, <1>2, <2>2 DEF TypeInv, TypeOK
    <2>3. CASE p = o /\ i = Prerequisite(o)
      <3>1. execution'[Root(o)] = execution[Root(o)]
        BY <1>1, <2>3, EntryFacts DEF TypeInv, TypeOK
      <3> QED
        BY <2>3, <3>1 DEF PlanInv, PlanFitsBinding, Fits
    <2> QED
      BY <1>5, <2>1, <2>2, <2>3
  <1> QED
    BY <1>1, <1>7, <1>8 DEF PlanInv, CurrentInv

\* Bind and Handoff: entry x executes under new links that fit its plan.
LEMMA PlanByBinding ==
    ASSUME TypeInv, PlanInv, NEW x \in Entries, NEW links,
           status[x] # "absent", Fits(ActionOf(x), links),
           execution' = [execution EXCEPT ![x] = links],
           current' = {}, plan' = plan,
           \A i \in Entries : status'[i] = "absent" <=> status[i] = "absent"
    PROVE  PlanInv'
  <1>1. FreshInv'
    <2> SUFFICES ASSUME NEW p \in Operations
                 PROVE  /\ status'[Root(p)] = "absent" =>
                             /\ status'[Prerequisite(p)] = "absent"
                             /\ execution'[Root(p)] = Null
                        /\ status'[Prerequisite(p)] # "absent" =>
                             plan'[p] # "undo_downgrade"
      BY DEF FreshInv
    <2>1. status[Root(p)] = "absent" => execution'[Root(p)] = execution[Root(p)]
      BY EntryFacts DEF TypeInv, TypeOK
    <2> QED
      BY <2>1, EntryFacts DEF PlanInv, FreshInv
  <1>2. PlanFitsBinding'
    <2> SUFFICES ASSUME NEW p \in Operations, execution'[Root(p)] # Null
                 PROVE  Fits(plan[p], execution'[Root(p)])
      BY DEF PlanFitsBinding, Fits
    <2>1. CASE Root(p) = x
      <3>1. ActionOf(x) = plan[p]
        BY <2>1, EntryFacts DEF ActionOf
      <3>2. execution'[Root(p)] = links
        BY <2>1 DEF TypeInv, TypeOK
      <3> QED
        BY <3>1, <3>2
    <2>2. CASE Root(p) # x
      BY <2>2, EntryFacts DEF PlanInv, PlanFitsBinding, Fits, TypeInv, TypeOK
    <2> QED
      BY <2>1, <2>2
  <1> QED
    BY <1>1, <1>2 DEF PlanInv, CurrentInv

LEMMA PlanStep == TypeInv /\ PlanInv /\ [Next]_vars => PlanInv'
  <1> SUFFICES ASSUME TypeInv, PlanInv, [Next]_vars PROVE PlanInv'
    OBVIOUS
  <1>1. CASE UNCHANGED vars
    BY <1>1, PlanStays DEF vars, profile, journal
  <1>2. CASE \E o \in Operations : Accept(o)
    BY <1>2, PlanByAccept
  <1>3. CASE Environment /\ ~\E o \in Operations : Accept(o)
    BY <1>3, PlanStays
    DEF Environment, LeaseExpires, WindowCloses, Late, Forget, SubscriptionWebhook,
        ReleaseWebhook, OwnerReserves, OwnerReleases, Subscribe, SubscriptionEnds, profile,
        journal
  <1>4. ASSUME NEW e \in Executors, ExecutorStep(e) PROVE PlanInv'
    <2>1. CASE \E o \in Operations : Reserve(e, o)
      BY <2>1, PlanByReserve
    <2>2. CASE \/ \E o \in Operations : Recover(e, o)
               \/ Claim(e) \/ Freeze(e) \/ Lookup(e) \/ Dispatch(e)
               \/ Answered(e) \/ Unknown(e) \/ Stop(e)
      BY <2>2, PlanStays
      DEF Recover, Claim, Freeze, Lookup, Dispatch, Answered, Unknown, Stop, profile, journal
    <2>3. CASE MarkUncertain(e) \/ RecordDone(e) \/ RecordRefused(e)
      <3> DEFINE i == executor[e].entry
      <3>1. i \in Entries /\ Unresolved(i)
        BY <2>3, FencedFacts DEF MarkUncertain, RecordDone, RecordRefused
      <3>2. /\ status' = [status EXCEPT ![i] = "reconciliation_required"]
            /\ UNCHANGED <<plan, execution, current, bound>>
        BY <2>3 DEF MarkUncertain, RecordDone, RecordRefused, RecordStep, profile
      <3>3. \A r \in Entries : status'[r] = "absent" <=> status[r] = "absent"
        BY <3>1, <3>2 DEF Unresolved, OpenStatuses, TypeInv, TypeOK
      <3> QED
        BY <3>2, <3>3, PlanStays
    <2>4. CASE Bind(e)
      <3> DEFINE i == executor[e].entry
                 links == bound \cup {"subscription"}
      <3>1. i \in Entries /\ Unresolved(i) /\ MustBind(i)
        BY <2>4, FencedFacts DEF Bind
      <3>2. status[i] # "absent" /\ Fits(ActionOf(i), links)
        BY <3>1 DEF Unresolved, OpenStatuses, MustBind, ForSubscription, Fits
      <3>3. /\ execution' = [execution EXCEPT ![i] = links]
            /\ current' = {} /\ plan' = plan /\ status' = status
        BY <2>4 DEF Bind
      <3> QED
        BY <3>1, <3>2, <3>3, PlanByBinding
    <2>5. CASE Handoff(e)
      <3>0. PICK i \in Entries : i = executor[e].entry
        BY <2>5, FencedFacts DEF Handoff
      <3> DEFINE root == Root(i[1])
      <3>1. /\ Unresolved(i) /\ i[2] = "customer" /\ Unresolved(root)
            /\ status' = [status EXCEPT ![i] = "succeeded"]
            /\ execution' = [execution EXCEPT ![root] = {"customer"}]
            /\ current' = {} /\ plan' = plan
        BY <2>5, <3>0, FencedFacts DEF Handoff
      <3>2. /\ i[1] \in Operations /\ i = Prerequisite(i[1])
            /\ root \in Entries /\ root[1] = i[1] /\ root[2] = "root"
        BY <3>1, EntryFacts
      <3>3. status[i] # "absent" /\ status[root] # "absent"
        BY <3>1 DEF Unresolved, OpenStatuses
      <3>4. Fits(ActionOf(root), {"customer"})
        BY <3>2, <3>3 DEF ActionOf, Fits, PlanInv, FreshInv
      <3>5. \A r \in Entries : status'[r] = "absent" <=> status[r] = "absent"
        BY <3>1, <3>3 DEF TypeInv, TypeOK
      <3> HIDE DEF root
      <3> QED
        BY <3>1, <3>2, <3>3, <3>4, <3>5, PlanByBinding
    <2>6. CASE Succeed(e) \/ Fail(e)
      <3>0. PICK i \in Entries : i = executor[e].entry
        BY <2>6, FencedFacts DEF Succeed, Fail
      <3>1. /\ Unresolved(i) /\ current' = {}
            /\ UNCHANGED <<plan, execution>>
        BY <2>6, <3>0, FencedFacts DEF Succeed, Fail, Release
      <3>2. i[1] \in Operations /\ Root(i[1]) \in Entries
            /\ (i = Root(i[1]) \/ i = Prerequisite(i[1]))
        BY EntryFacts
      <3>3. status[i] # "absent" /\ status[Root(i[1])] # "absent"
        BY <3>1, <3>2 DEF Unresolved, OpenStatuses, PlanInv, FreshInv
      <3>4. \/ status' = [status EXCEPT ![i] = "succeeded"]
            \/ status' = [status EXCEPT ![i] = "failed", ![Root(i[1])] = "failed"]
        BY <2>6, <3>0 DEF Succeed, Fail
      <3>5. \A r \in Entries : status'[r] = "absent" <=> status[r] = "absent"
        BY <3>2, <3>3, <3>4 DEF TypeInv, TypeOK
      <3> QED
        BY <3>1, <3>5, PlanStays
    <2> QED
      BY <1>4, <2>1, <2>2, <2>3, <2>4, <2>5, <2>6 DEF ExecutorStep
  <1> QED
    BY <1>1, <1>2, <1>3, <1>4 DEF Next

\* Webhooks, other operations and the owner may overtake a plan at any moment
\* before it is reserved: what is executed still fits (PlanFitsBinding).
THEOREM PlansFit == Spec => []PlanFitsBinding
  <1>1. Init => PlanInv
    BY EntryFacts DEF Init, PlanInv, CurrentInv, FreshInv, PlanFitsBinding
  <1>2. PlanInv => PlanFitsBinding
    BY DEF PlanInv
  <1> QED
    BY <1>1, <1>2, PlanStep, Shaped, PTL DEF Spec

-----------------------------------------------------------------------------
(* Effects.  While a request for a step that was done can still reach       *)
(* Stripe, Stripe keeps its key; a key it has dropped is never sent again,  *)
(* as the window of its step has closed.                                   *)

Waiting(e, k) == executor[e].pc = "wait" /\ KeyOf(e) = k
InFlight(k) == k \in wire \/ \E e \in Executors : Waiting(e, k)

EffectInv ==
    \A k \in Keys :
        /\ effects[k] <= 1
        /\ InFlight(k) \/ k \in closed \/ effects[k] = 1 => attempts[k] > 0
        /\ effects[k] = 1 => kept[k] # "none" \/ (k \in closed /\ ~InFlight(k))

LEMMA EffectStays ==
    ASSUME EffectInv, UNCHANGED <<effects, kept, closed, attempts>>,
           \A k \in Keys : InFlight(k)' => InFlight(k)
    PROVE  EffectInv'
  BY DEF EffectInv

\* An executor that does not start to wait puts nothing in flight.
LEMMA FlightEnds ==
    ASSUME NEW e \in Executors,
           \A f \in Executors \ {e} : executor'[f] = executor[f],
           executor'[e].pc # "wait" \/ executor'[e] = executor[e],
           \/ wire' = wire
           \/ executor[e].pc = "wait" /\ wire' = wire \cup {KeyOf(e)}
    PROVE  \A k \in Keys : InFlight(k)' => InFlight(k)
  <1> SUFFICES ASSUME NEW k \in Keys, InFlight(k)' PROVE InFlight(k)
    OBVIOUS
  <1>1. CASE k \in wire'
    BY <1>1 DEF InFlight, Waiting
  <1>2. ASSUME NEW f \in Executors, Waiting(f, k)' PROVE InFlight(k)
    <2>1. executor'[f] = executor[f]
      BY <1>2 DEF Waiting
    <2> QED
      BY <1>2, <2>1 DEF Waiting, InFlight, KeyOf
  <1> QED
    BY <1>1, <1>2 DEF InFlight

\* Stripe handles a request for k that was in flight.
LEMMA EffectByHandling ==
    ASSUME TypeInv, EffectInv, NEW k \in Keys, NEW a \in Answers, Handle(k, a),
           InFlight(k), UNCHANGED <<closed, attempts>>,
           \A j \in Keys : InFlight(j)' => InFlight(j)
    PROVE  EffectInv'
  <1>1. attempts[k] > 0 /\ (effects[k] = 1 => kept[k] # "none") /\ effects[k] \in {0, 1}
    BY DEF EffectInv, TypeInv, TypeOK
  <1>2. /\ \A j \in Keys \ {k} : effects'[j] = effects[j] /\ kept'[j] = kept[j]
        /\ effects'[k] \in {0, 1}
        /\ effects'[k] = 1 => kept'[k] # "none"
    <2>1. CASE kept[k] # "none"
      <3>1. a = kept[k] /\ effects' = effects
        BY <2>1 DEF Handle
      <3>2. kept' = kept \/ kept' = [kept EXCEPT ![k] = a]
        BY DEF Handle
      <3> QED
        BY <1>1, <2>1, <3>1, <3>2 DEF TypeInv, TypeOK
    <2>2. CASE kept[k] = "none" /\ a # "refused" /\ Perform(k)
      <3>1. kept' = [kept EXCEPT ![k] = a]
        BY <2>2 DEF Handle
      <3>2. effects' = [effects EXCEPT ![k] = IF @ = 0 THEN 1 ELSE 2]
        BY <2>2 DEF Perform
      <3> QED
        BY <1>1, <2>2, <3>1, <3>2 DEF TypeInv, TypeOK, Answers
    <2>3. CASE kept[k] = "none" /\ effects' = effects
      <3>1. kept' = kept \/ kept' = [kept EXCEPT ![k] = a]
        BY DEF Handle
      <3> QED
        BY <1>1, <2>3, <3>1 DEF TypeInv, TypeOK
    <2> QED
      BY <2>1, <2>2, <2>3 DEF Handle
  <1> QED
    BY <1>1, <1>2 DEF EffectInv

LEMMA EffectByDispatch ==
    ASSUME TypeInv, EffectInv, NEW e \in Executors, Dispatch(e)
    PROVE  EffectInv'
  <1>0. PICK i \in Entries : i = executor[e].entry
    BY FencedFacts DEF Dispatch
  <1>1. PICK k \in Keys : k = NextStep(i)
    BY KeyFacts
  <1>2. /\ k[2] \in {1, 2} /\ k = <<i, k[2]>>
    BY <1>1, KeyFacts
  <1>3. /\ WindowIsOpen(k)
        /\ attempts' = [attempts EXCEPT ![k] = IF @ = 0 THEN 1 ELSE 2]
        /\ GotoStep(e, "wait", k[2])
        /\ UNCHANGED <<effects, kept, closed, wire>>
    BY <1>0, <1>1 DEF Dispatch, provider
  <1>4. /\ executor'[e].entry = i /\ executor'[e].step = k[2]
        /\ \A f \in Executors \ {e} : executor'[f] = executor[f]
    BY <1>0, <1>2, <1>3, FencedFacts, Moved DEF Dispatch, Places
  <1>5. ASSUME NEW j \in Keys, InFlight(j)' PROVE InFlight(j) \/ j = k
    <2>1. CASE j \in wire'
      BY <1>3, <2>1 DEF InFlight
    <2>2. ASSUME NEW f \in Executors, Waiting(f, j)' PROVE InFlight(j) \/ j = k
      <3>1. CASE f = e
        BY <1>2, <1>4, <2>2, <3>1 DEF Waiting, KeyOf
      <3>2. CASE f # e
        BY <1>4, <2>2, <3>2 DEF Waiting, KeyOf, InFlight
      <3> QED
        BY <3>1, <3>2
    <2> QED
      BY <1>5, <2>1, <2>2 DEF InFlight
  <1>6. attempts'[k] > 0 /\ \A j \in Keys \ {k} : attempts'[j] = attempts[j]
    BY <1>3 DEF TypeInv, TypeOK
  <1>7. effects[k] = 1 => kept[k] # "none"
    BY <1>3 DEF EffectInv, WindowIsOpen
  <1> QED
    BY <1>3, <1>5, <1>6, <1>7 DEF EffectInv

LEMMA EffectByEnvironment ==
    ASSUME TypeInv, EffectInv, Environment
    PROVE  EffectInv'
  <1>1. ASSUME NEW k \in Keys, WindowCloses(k) PROVE EffectInv'
    BY <1>1 DEF WindowCloses, EffectInv, InFlight, Waiting, KeyOf, provider
  <1>2. ASSUME NEW k \in Keys, Late(k) PROVE EffectInv'
    <2>1. /\ InFlight(k) /\ UNCHANGED <<closed, attempts>>
          /\ \A j \in Keys : InFlight(j)' => InFlight(j)
      BY <1>2 DEF Late, InFlight, Waiting, KeyOf, journal
    <2>2. CASE \E a \in Answers : Handle(k, a)
      BY <2>1, <2>2, EffectByHandling
    <2>3. CASE UNCHANGED <<effects, kept>>
      BY <2>1, <2>3, EffectStays
    <2> QED
      BY <1>2, <2>2, <2>3 DEF Late
  <1>3. ASSUME NEW k \in Keys, Forget(k) PROVE EffectInv'
    <2>1. ~InFlight(k) /\ k \in closed
      BY <1>3 DEF Forget, InFlight, Waiting
    <2>2. /\ kept' = [kept EXCEPT ![k] = "none"]
          /\ UNCHANGED <<effects, wire, executor, closed, attempts>>
      BY <1>3 DEF Forget, journal
    <2>3. \A j \in Keys : InFlight(j)' <=> InFlight(j)
      BY <2>2 DEF InFlight, Waiting, KeyOf
    <2>4. \A j \in Keys \ {k} : kept'[j] = kept[j]
      BY <2>2 DEF TypeInv, TypeOK
    <2> QED
      BY <2>1, <2>2, <2>3, <2>4 DEF EffectInv
  <1>4. CASE \/ \E o \in Operations : Accept(o)
             \/ \E i \in Entries : LeaseExpires(i)
             \/ SubscriptionWebhook \/ ReleaseWebhook \/ OwnerReserves \/ OwnerReleases
             \/ Subscribe \/ SubscriptionEnds
    <2>1. UNCHANGED <<effects, kept, wire, executor, closed, attempts>>
      BY <1>4
      DEF Accept, LeaseExpires, SubscriptionWebhook, ReleaseWebhook, OwnerReserves,
          OwnerReleases, Subscribe, SubscriptionEnds, journal, provider
    <2> QED
      BY <2>1, EffectStays DEF InFlight, Waiting, KeyOf
  <1> QED
    BY <1>1, <1>2, <1>3, <1>4 DEF Environment

LEMMA EffectByExecutor ==
    ASSUME TypeInv, EffectInv, NEW e \in Executors, ExecutorStep(e)
    PROVE  EffectInv'
  <1> DEFINE Settles == /\ \A f \in Executors \ {e} : executor'[f] = executor[f]
                        /\ executor'[e].pc # "wait" \/ executor'[e] = executor[e]
                        /\ \/ wire' = wire
                           \/ /\ executor[e].pc = "wait"
                              /\ wire' = wire \cup {KeyOf(e)}
             Calm == UNCHANGED <<effects, kept, closed, attempts>>
  <1>1. ASSUME Settles, Calm PROVE EffectInv'
    BY <1>1, FlightEnds, EffectStays
  <1>2. ASSUME NEW o \in Operations, Reserve(e, o) \/ Recover(e, o) PROVE Settles /\ Calm
    BY <1>2 DEF Reserve, Recover, At, TypeInv, TypeOK, journal, provider
  <1>3. CASE Claim(e)
    <2>1. Settles
      BY <1>3, Moved, RecordFacts DEF Claim, Goto, AtWork, Places, provider
    <2> QED
      BY <1>1, <1>3, <2>1 DEF Claim, provider
  <1>4. CASE Bind(e) \/ Freeze(e)
    BY <1>1, <1>4 DEF Bind, Freeze, provider
  <1>5. CASE Lookup(e)
    <2>1. AtWork(e) /\ NextStep(executor[e].entry)[2] \in {1, 2}
      BY <1>5, FencedFacts, KeyFacts DEF Lookup
    <2>2. Settles
      BY <1>5, <2>1, Moved DEF Lookup, Places, provider
    <2> QED
      BY <1>1, <1>5, <2>2 DEF Lookup, journal, provider
  <1>6. CASE Dispatch(e)
    BY <1>6, EffectByDispatch
  <1>7. CASE Answered(e)
    <2>1. AtWork(e) /\ executor[e].pc = "wait"
      BY <1>7 DEF Answered, AtWork
    <2>2. PICK a \in Answers :
            /\ Handle(KeyOf(e), a)
            /\ Goto(e, CASE a = "done" -> "record"
                         [] a = "failed" -> "uncertain"
                         [] a = "refused" -> "refused")
      BY <1>7 DEF Answered
    <2>3. Settles
      BY <1>7, <2>1, <2>2, Moved, RecordFacts DEF Answered, Answers, Goto, Places
    <2>4. PICK k \in Keys : k = KeyOf(e)
      BY <2>1, RecordFacts
    <2>5. InFlight(k)
      BY <2>1, <2>4 DEF InFlight, Waiting
    <2>6. UNCHANGED <<closed, attempts>>
      BY <1>7 DEF Answered, journal
    <2>7. \A j \in Keys : InFlight(j)' => InFlight(j)
      BY <2>3, FlightEnds
    <2> QED
      BY <2>2, <2>4, <2>5, <2>6, <2>7, EffectByHandling
  <1>8. CASE Unknown(e)
    <2>1. Settles
      BY <1>8, Moved, RecordFacts DEF Unknown, Goto, Abandon, AtWork, Places
    <2> QED
      BY <1>1, <1>8, <2>1 DEF Unknown, journal
  <1>9. CASE MarkUncertain(e)
    <2>1. Settles
      BY <1>9, FencedFacts, Moved, Left, RecordFacts DEF MarkUncertain, Goto, Places, provider
    <2> QED
      BY <1>1, <1>9, <2>1 DEF MarkUncertain, provider
  <1>10. CASE RecordDone(e) \/ RecordRefused(e)
    <2>1. Settles
      BY <1>10, FencedFacts, Moved DEF RecordDone, RecordRefused, RecordStep, Places, provider
    <2> QED
      BY <1>1, <1>10, <2>1 DEF RecordDone, RecordRefused, RecordStep, provider
  <1>11. CASE Handoff(e)
    <2>1. Settles
      BY <1>11 DEF Handoff, At, TypeInv, TypeOK, provider
    <2> QED
      BY <1>1, <1>11, <2>1 DEF Handoff, provider
  <1>12. CASE Succeed(e) \/ Fail(e)
    <2>1. Settles
      BY <1>12, Left DEF Succeed, Fail, Release, provider
    <2> QED
      BY <1>1, <1>12, <2>1 DEF Succeed, Fail, Release, provider
  <1>13. CASE Stop(e)
    <2>1. Settles
      BY <1>13, Left DEF Stop, Abandon
    <2> QED
      BY <1>1, <1>13, <2>1 DEF Stop, journal
  <1> QED
    BY <1>1, <1>2, <1>3, <1>4, <1>5, <1>6, <1>7, <1>8, <1>9, <1>10, <1>11, <1>12,
       <1>13 DEF ExecutorStep

LEMMA EffectInit == Init => EffectInv
  <1> SUFFICES ASSUME Init PROVE EffectInv
    OBVIOUS
  <1>1. \A e \in Executors : executor[e].pc = "new"
    BY DEF Init, New, At
  <1> QED
    BY <1>1 DEF Init, EffectInv, InFlight, Waiting

LEMMA EffectStep == TypeInv /\ EffectInv /\ [Next]_vars => EffectInv'
  <1> SUFFICES ASSUME TypeInv, EffectInv, [Next]_vars PROVE EffectInv'
    OBVIOUS
  <1>1. CASE UNCHANGED vars
    BY <1>1, EffectStays DEF vars, journal, provider, InFlight, Waiting, KeyOf
  <1>2. CASE Environment
    BY <1>2, EffectByEnvironment
  <1>3. ASSUME NEW e \in Executors, ExecutorStep(e) PROVE EffectInv'
    BY <1>3, EffectByExecutor
  <1> QED
    BY <1>1, <1>2, <1>3 DEF Next

\* However often a step is dispatched, by however many executors, and however
\* late its requests arrive, Stripe does it at most once (EffectOnce).
THEOREM EffectsHappenOnce == Spec => []EffectOnce
  <1>1. EffectInv => EffectOnce
    BY DEF EffectInv, EffectOnce
  <1> QED
    BY <1>1, EffectInit, EffectStep, Shaped, PTL DEF Spec

-----------------------------------------------------------------------------
(* The journal.  Steps are taken in order, those of an operation only after *)
(* its prerequisite's; nothing that failed has a step that succeeded.       *)

FreshEntry(i) == status[i] = "absent" => step[<<i, 1>>] = "absent"
InOrder(i) == step[<<i, 2>>] # "absent" => step[<<i, 1>>] = "succeeded"
PrerequisiteFirst(o) ==
    Unresolved(Prerequisite(o)) =>
        /\ pending = Prerequisite(o)
        /\ Unresolved(Root(o))
        /\ step[<<Root(o), 1>>] = "absent"
NothingSucceeded(i) == step[<<i, 1>>] \in {"absent", "failed"}
FailedClean(o) ==
    status[Root(o)] = "failed" => NothingSucceeded(Root(o)) /\ NothingSucceeded(Prerequisite(o))
SucceededAll(o) == status[Root(o)] = "succeeded" => AllDone(Root(o))

JournalInv ==
    /\ \A i \in Entries : FreshEntry(i) /\ InOrder(i)
    /\ \A o \in Operations : PrerequisiteFirst(o) /\ FailedClean(o) /\ SucceededAll(o)

LEMMA JournalStays ==
    ASSUME JournalInv, UNCHANGED <<plan, status, step, pending>>
    PROVE  JournalInv'
  BY DEF JournalInv, FreshEntry, InOrder, PrerequisiteFirst, NothingSucceeded, FailedClean,
         SucceededAll, AllDone, StepsOf, StepCount, ActionOf, Unresolved

LEMMA JournalByAccept ==
    ASSUME TypeInv, JournalInv, NEW o \in Operations, Accept(o)
    PROVE  JournalInv'
  <1>1. /\ status[Root(o)] = "absent" /\ UNCHANGED <<status, step, pending>>
        /\ \A p \in Operations \ {o} : plan'[p] = plan[p]
    BY DEF Accept, journal, TypeInv, TypeOK
  <1>2. ASSUME NEW p \in Operations, SucceededAll(p) PROVE SucceededAll(p)'
    <2>1. CASE p = o
      BY <1>1, <2>1 DEF SucceededAll
    <2>2. CASE p # o
      <3>1. ActionOf(Root(p))' = ActionOf(Root(p))
        BY <1>1, <2>2, EntryFacts DEF ActionOf
      <3> QED
        BY <1>1, <1>2, <3>1 DEF SucceededAll, AllDone, StepsOf, StepCount
    <2> QED
      BY <2>1, <2>2
  <1> QED
    BY <1>1, <1>2 DEF JournalInv, FreshEntry, InOrder, PrerequisiteFirst, NothingSucceeded,
       FailedClean, Unresolved

\* A step k of the reserved entry moves on to s, and perhaps its entry.
Progress(k, s) ==
    /\ pending = k[1] /\ Unresolved(k[1])
    /\ step[k] \in OpenStatuses \cup {"absent"} /\ s # "absent"
    /\ k[2] = 2 => step[<<k[1], 1>>] = "succeeded"
    /\ step' = [step EXCEPT ![k] = s]
    /\ \/ status' = status
       \/ status' = [status EXCEPT ![k[1]] = "reconciliation_required"]
    /\ UNCHANGED <<plan, pending>>

LEMMA JournalByProgress ==
    ASSUME TypeInv, JournalInv, NEW k \in Keys, NEW s, Progress(k, s)
    PROVE  JournalInv'
  <1>0. PICK i \in Entries : i = k[1]
    BY KeyFacts
  <1>1. k = <<i, 1>> \/ k = <<i, 2>>
    BY <1>0, KeyFacts
  <1>2. /\ \A j \in Keys \ {k} : step'[j] = step[j]
        /\ step'[k] = s
        /\ \A r \in Entries \ {i} : status'[r] = status[r]
        /\ Unresolved(i) /\ Unresolved(i)' /\ pending = i
        /\ UNCHANGED <<plan, pending>>
    BY <1>0 DEF Progress, Unresolved, OpenStatuses, TypeInv, TypeOK
  <1>3. \A r \in Entries \ {i} : /\ step'[<<r, 1>>] = step[<<r, 1>>]
                                /\ step'[<<r, 2>>] = step[<<r, 2>>]
    BY <1>1, <1>2 DEF Keys
  <1>4. FreshEntry(i)' /\ InOrder(i)'
    <2>1. FreshEntry(i)'
      BY <1>2 DEF FreshEntry, Unresolved, OpenStatuses
    <2>2. CASE k = <<i, 1>>
      <3>1. step[<<i, 2>>] = "absent"
        BY <2>2 DEF JournalInv, InOrder, Progress, OpenStatuses
      <3> QED
        BY <1>2, <2>1, <2>2, <3>1, KeyFacts DEF InOrder
    <2>3. CASE k = <<i, 2>>
      BY <1>0, <1>2, <2>1, <2>3, KeyFacts DEF InOrder, Progress
    <2> QED
      BY <1>1, <2>1, <2>2, <2>3
  <1>5. ASSUME NEW r \in Entries PROVE FreshEntry(r)' /\ InOrder(r)'
    <2>1. CASE r = i
      BY <1>4, <2>1
    <2>2. CASE r # i
      BY <1>2, <1>3, <2>2 DEF JournalInv, FreshEntry, InOrder
    <2> QED
      BY <2>1, <2>2
  <1>6. ASSUME NEW o \in Operations PROVE PrerequisiteFirst(o)'
    <2> SUFFICES ASSUME Unresolved(Prerequisite(o))'
                 PROVE  /\ pending' = Prerequisite(o) /\ Unresolved(Root(o))'
                        /\ step'[<<Root(o), 1>>] = "absent"
      BY DEF PrerequisiteFirst
    <2>1. Unresolved(Prerequisite(o))
      BY <1>2, EntryFacts DEF Unresolved
    <2>2. i = Prerequisite(o) /\ Unresolved(Root(o)) /\ step[<<Root(o), 1>>] = "absent"
      BY <1>2, <2>1 DEF JournalInv, PrerequisiteFirst
    <2>3. Root(o) \in Entries \ {i}
      BY <2>2, EntryFacts
    <2> QED
      BY <1>2, <1>3, <2>2, <2>3 DEF Unresolved
  <1>7. ASSUME NEW o \in Operations PROVE FailedClean(o)'
    <2> SUFFICES ASSUME status'[Root(o)] = "failed"
                 PROVE  NothingSucceeded(Root(o))' /\ NothingSucceeded(Prerequisite(o))'
      BY DEF FailedClean
    <2>1. i # Root(o)
      BY <1>2 DEF Unresolved, OpenStatuses
    <2>2. status[Root(o)] = "failed"
      BY <1>2, <2>1, EntryFacts
    <2>3. i # Prerequisite(o)
      BY <1>2, <2>2 DEF JournalInv, PrerequisiteFirst, Unresolved, OpenStatuses
    <2>4. NothingSucceeded(Root(o)) /\ NothingSucceeded(Prerequisite(o))
      BY <2>2 DEF JournalInv, FailedClean
    <2>5. Root(o) \in Entries \ {i} /\ Prerequisite(o) \in Entries \ {i}
      BY <2>1, <2>3, EntryFacts
    <2> QED
      BY <1>3, <2>4, <2>5 DEF NothingSucceeded
  <1>8. ASSUME NEW o \in Operations PROVE SucceededAll(o)'
    <2> SUFFICES ASSUME status'[Root(o)] = "succeeded" PROVE AllDone(Root(o))'
      BY DEF SucceededAll
    <2>1. i # Root(o)
      BY <1>2 DEF Unresolved, OpenStatuses
    <2>2. AllDone(Root(o))
      BY <1>2, <2>1, EntryFacts DEF JournalInv, SucceededAll
    <2>3. \A j \in StepsOf(Root(o)) : step'[j] = step[j]
      BY <1>0, <1>2, <2>1 DEF StepsOf
    <2> QED
      BY <1>2, <2>2, <2>3 DEF AllDone, StepsOf, StepCount, ActionOf
  <1> QED
    BY <1>5, <1>6, <1>7, <1>8 DEF JournalInv

LEMMA JournalByReserve ==
    ASSUME TypeInv, PlanInv, ReservationHeld, JournalInv,
           NEW e \in Executors, NEW o \in Operations, Reserve(e, o)
    PROVE  JournalInv'
  <1> DEFINE entry == IF plan[o] = "cancel" \/ "customer" \in bound
                      THEN Root(o) ELSE Prerequisite(o)
  <1>1. PICK i \in {Root(o), Prerequisite(o)} : i = entry
    OBVIOUS
  <1>2. /\ status' = [status EXCEPT ![Root(o)] = "pending", ![i] = "pending"]
        /\ step' = step \/ step' = [step EXCEPT ![<<i, 1>>] = "pending"]
        /\ pending' = i /\ plan' = plan
        /\ pending = Null
        /\ status[Root(o)] = "absent" /\ status[Prerequisite(o)] = "absent"
    BY <1>1 DEF Reserve, Unreserved, PlanInv, FreshInv
  <1>3. i \in Entries /\ Root(o) \in Entries /\ Prerequisite(o) \in Entries /\ <<i, 1>> \in Keys
    BY EntryFacts, KeyFacts
  <1>4. /\ status'[i] = "pending" /\ status'[Root(o)] = "pending"
        /\ \A r \in Entries \ {i, Root(o)} : status'[r] = status[r]
        /\ \A k \in Keys \ {<<i, 1>>} : step'[k] = step[k]
    BY <1>2, <1>3 DEF TypeInv, TypeOK
  <1>5. \A r \in Entries \ {i} : /\ step'[<<r, 1>>] = step[<<r, 1>>]
                                /\ step'[<<r, 2>>] = step[<<r, 2>>]
    BY <1>4 DEF Keys
  <1>6. ASSUME NEW r \in Entries PROVE FreshEntry(r)' /\ InOrder(r)'
    <2>1. CASE r # i
      BY <1>4, <1>5, <2>1 DEF JournalInv, FreshEntry, InOrder
    <2>2. CASE r = i
      <3>1. step[<<i, 1>>] = "absent" /\ step[<<i, 2>>] = "absent"
        BY <1>2, <1>3 DEF JournalInv, FreshEntry, InOrder
      <3>2. step'[<<i, 2>>] = "absent"
        BY <1>3, <1>4, <3>1 DEF Keys
      <3> QED
        BY <1>4, <2>2, <3>2 DEF FreshEntry, InOrder
    <2> QED
      BY <2>1, <2>2
  <1>7. ASSUME NEW p \in Operations, p # o
        PROVE  PrerequisiteFirst(p)' /\ FailedClean(p)' /\ SucceededAll(p)'
    <2>1. Root(p) \in Entries \ {i, Root(o)} /\ Prerequisite(p) \in Entries \ {i, Root(o)}
      BY <1>7, EntryFacts
    <2>2. PrerequisiteFirst(p)'
      BY <1>2, <1>4, <2>1 DEF JournalInv, PrerequisiteFirst, Unresolved, Entries
    <2>3. FailedClean(p)'
      BY <1>4, <1>5, <2>1 DEF JournalInv, FailedClean, NothingSucceeded
    <2>4. \A k \in StepsOf(Root(p)) : step'[k] = step[k]
      BY <1>4, <2>1 DEF StepsOf
    <2>5. SucceededAll(p)'
      BY <1>2, <1>4, <2>1, <2>4
      DEF JournalInv, SucceededAll, AllDone, StepsOf, StepCount, ActionOf
    <2> QED
      BY <2>2, <2>3, <2>5
  <1>8. PrerequisiteFirst(o)' /\ FailedClean(o)' /\ SucceededAll(o)'
    <2>1. FailedClean(o)' /\ SucceededAll(o)'
      BY <1>4 DEF FailedClean, SucceededAll
    <2>2. CASE i = Root(o)
      <3>1. status'[Prerequisite(o)] = "absent"
        BY <1>2, <1>3, <1>4, <2>2, EntryFacts
      <3> QED
        BY <2>1, <3>1 DEF PrerequisiteFirst, Unresolved, OpenStatuses
    <2>3. CASE i = Prerequisite(o)
      <3>1. step[<<Root(o), 1>>] = "absent"
        BY <1>2, <1>3 DEF JournalInv, FreshEntry
      <3>2. step'[<<Root(o), 1>>] = "absent"
        BY <1>3, <1>5, <2>3, <3>1, EntryFacts
      <3> QED
        BY <1>2, <1>4, <2>1, <2>3, <3>2 DEF PrerequisiteFirst, Unresolved, OpenStatuses
    <2> QED
      BY <2>1, <2>2, <2>3
  <1> QED
    BY <1>6, <1>7, <1>8 DEF JournalInv

\* Handoff, Succeed and Fail: no step changes, and no entry is begun.
LEMMA JournalByClosing ==
    ASSUME TypeInv, JournalInv, NEW i \in Entries, pending = i, ~Unresolved(i)',
           UNCHANGED <<plan, step>>,
           \A r \in Entries \ {i, Root(i[1])} : status'[r] = status[r],
           \A r \in Entries : status'[r] = "absent" => status[r] = "absent",
           FailedClean(i[1])', SucceededAll(i[1])'
    PROVE  JournalInv'
  <1>1. ASSUME NEW r \in Entries PROVE FreshEntry(r)' /\ InOrder(r)'
    BY <1>1 DEF JournalInv, FreshEntry, InOrder
  <1>2. ASSUME NEW p \in Operations PROVE PrerequisiteFirst(p)'
    <2>1. i[1] \in Operations /\ Prerequisite(p) \in Entries /\ Prerequisite(p) # Root(i[1])
      BY EntryFacts
    <2>2. ~Unresolved(Prerequisite(p))'
      <3>1. CASE Prerequisite(p) = i
        BY <3>1
      <3>2. CASE Prerequisite(p) # i
        BY <2>1, <3>2 DEF JournalInv, PrerequisiteFirst, Unresolved
      <3> QED
        BY <3>1, <3>2
    <2> QED
      BY <2>2 DEF PrerequisiteFirst
  <1>3. ASSUME NEW p \in Operations PROVE FailedClean(p)' /\ SucceededAll(p)'
    <2>1. CASE p = i[1]
      BY <2>1
    <2>2. CASE p # i[1]
      <3>1. Root(p) \in Entries \ {i, Root(i[1])}
        BY <2>2, EntryFacts
      <3>2. status'[Root(p)] = status[Root(p)]
        BY <3>1
      <3>3. AllDone(Root(p))' <=> AllDone(Root(p))
        BY DEF AllDone, StepsOf, StepCount, ActionOf
      <3> QED
        BY <3>2, <3>3 DEF JournalInv, FailedClean, SucceededAll, NothingSucceeded
    <2> QED
      BY <2>1, <2>2
  <1> QED
    BY <1>1, <1>2, <1>3 DEF JournalInv

LEMMA JournalByHandoff ==
    ASSUME TypeInv, JournalInv, NEW e \in Executors, Handoff(e)
    PROVE  JournalInv'
  <1>0. PICK i \in Entries : i = executor[e].entry
    BY FencedFacts DEF Handoff
  <1>1. /\ pending = i /\ i[2] = "customer" /\ Unresolved(Root(i[1]))
        /\ status' = [status EXCEPT ![i] = "succeeded"]
        /\ UNCHANGED <<plan, step>>
    BY <1>0, FencedFacts DEF Handoff
  <1>2. i[1] \in Operations /\ Root(i[1]) \in Entries /\ Root(i[1]) # i
    BY <1>1, EntryFacts
  <1>3. /\ status'[i] = "succeeded"
        /\ \A r \in Entries \ {i} : status'[r] = status[r]
    BY <1>1 DEF TypeInv, TypeOK
  <1>4. ~Unresolved(i)' /\ status'[Root(i[1])] \in OpenStatuses
    BY <1>1, <1>2, <1>3 DEF Unresolved, OpenStatuses
  <1>5. FailedClean(i[1])' /\ SucceededAll(i[1])'
    BY <1>4 DEF FailedClean, SucceededAll, OpenStatuses
  <1> QED
    BY <1>1, <1>3, <1>4, <1>5, JournalByClosing

LEMMA JournalBySucceed ==
    ASSUME TypeInv, JournalInv, NEW e \in Executors, Succeed(e)
    PROVE  JournalInv'
  <1>0. PICK i \in Entries : i = executor[e].entry
    BY FencedFacts DEF Succeed
  <1>1. /\ pending = i /\ i[2] = "root" /\ AllDone(i)
        /\ status' = [status EXCEPT ![i] = "succeeded"]
        /\ UNCHANGED <<plan, step>>
    BY <1>0, FencedFacts DEF Succeed, Release
  <1>2. i[1] \in Operations /\ Root(i[1]) = i
    BY <1>1, EntryFacts
  <1>3. /\ status'[i] = "succeeded"
        /\ \A r \in Entries \ {i} : status'[r] = status[r]
    BY <1>1 DEF TypeInv, TypeOK
  <1>4. AllDone(i)'
    BY <1>1 DEF AllDone, StepsOf, StepCount, ActionOf
  <1>5. FailedClean(i[1])' /\ SucceededAll(i[1])' /\ ~Unresolved(i)'
    BY <1>2, <1>3, <1>4 DEF FailedClean, SucceededAll, Unresolved, OpenStatuses
  <1> QED
    BY <1>1, <1>3, <1>5, JournalByClosing

LEMMA JournalByFail ==
    ASSUME TypeInv, PlanInv, JournalInv, NEW e \in Executors, Fail(e)
    PROVE  JournalInv'
  <1>0. PICK i \in Entries : i = executor[e].entry
    BY FencedFacts DEF Fail
  <1>1. /\ pending = i /\ Unresolved(i) /\ Refused(i) /\ NotPartial(i)
        /\ status' = [status EXCEPT ![i] = "failed", ![Root(i[1])] = "failed"]
        /\ UNCHANGED <<plan, step>>
    BY <1>0, FencedFacts DEF Fail, Release
  <1>2. /\ i[1] \in Operations /\ Root(i[1]) \in Entries
        /\ i = Root(i[1]) \/ i = Prerequisite(i[1])
        /\ Prerequisite(i[1]) \in Entries
    BY EntryFacts
  <1>3. /\ status'[i] = "failed" /\ status'[Root(i[1])] = "failed"
        /\ \A r \in Entries \ {i, Root(i[1])} : status'[r] = status[r]
    BY <1>1, <1>2 DEF TypeInv, TypeOK
  <1>4. \E k \in Keys : k[1] = i /\ step[k] = "failed" /\ <<i, 1>> \in StepsOf(i)
    BY <1>1, KeyFacts DEF Refused, StepsOf, StepCount, Keys
  <1>5. step[<<i, 1>>] # "succeeded"
    BY <1>1, <1>4 DEF NotPartial
  <1>6. NothingSucceeded(i)
    <2>1. step[<<i, 2>>] = "absent"
      BY <1>5 DEF JournalInv, InOrder
    <2>2. PICK k \in Keys : k[1] = i /\ step[k] = "failed"
      BY <1>4
    <2>3. k = <<i, 1>> \/ k = <<i, 2>>
      BY <2>2, KeyFacts
    <2> QED
      BY <2>1, <2>2, <2>3 DEF NothingSucceeded
  <1>7. FailedClean(i[1])'
    <2>1. CASE i = Root(i[1])
      <3>1. status[Prerequisite(i[1])] = "absent"
        BY <1>1, <1>2, <2>1, EntryFacts DEF NotPartial
      <3>2. step[<<Prerequisite(i[1]), 1>>] = "absent"
        BY <1>2, <3>1 DEF JournalInv, FreshEntry
      <3> QED
        BY <1>1, <1>6, <2>1, <3>2 DEF FailedClean, NothingSucceeded
    <2>2. CASE i = Prerequisite(i[1])
      <3>1. step[<<Root(i[1]), 1>>] = "absent"
        BY <1>1, <1>2, <2>2 DEF JournalInv, PrerequisiteFirst
      <3> QED
        BY <1>1, <1>6, <2>2, <3>1 DEF FailedClean, NothingSucceeded
    <2> QED
      BY <1>2, <2>1, <2>2
  <1>8. SucceededAll(i[1])' /\ ~Unresolved(i)'
    BY <1>3 DEF SucceededAll, Unresolved, OpenStatuses
  <1> QED
    BY <1>1, <1>2, <1>3, <1>7, <1>8, JournalByClosing DEF PlanInv

\* Freeze, MarkUncertain and RecordStep move the executor's step on.
LEMMA StepsProgress ==
    ASSUME TypeInv, NEW e \in Executors
    PROVE  /\ Freeze(e) => LET k == NextStep(executor[e].entry)
                           IN k \in Keys /\ Progress(k, "pending") /\ step[k] = "absent"
           /\ MarkUncertain(e) =>
                KeyOf(e) \in Keys /\ (JournalInv => Progress(KeyOf(e), "reconciliation_required"))
           /\ \A s \in {"succeeded", "failed"} :
                Fenced(e, {"record", "verify", "reject"}) /\ RecordStep(e, s) =>
                  KeyOf(e) \in Keys /\ (JournalInv => Progress(KeyOf(e), s))
  <1>1. ASSUME Freeze(e)
        PROVE  LET k == NextStep(executor[e].entry)
               IN k \in Keys /\ Progress(k, "pending") /\ step[k] = "absent"
    <2>1. PICK i \in Entries : i = executor[e].entry
      BY <1>1, FencedFacts DEF Freeze
    <2>2. PICK k \in Keys : k = NextStep(i)
      BY KeyFacts
    <2>3. k[1] = i /\ (k[2] = 2 => step[<<i, 1>>] = "succeeded")
      BY <2>2 DEF NextStep
    <2>4. /\ step[k] = "absent" /\ step' = [step EXCEPT ![k] = "pending"]
          /\ UNCHANGED <<plan, pending, status>>
      BY <1>1, <2>1, <2>2 DEF Freeze, profile
    <2>5. pending = i /\ Unresolved(i)
      BY <1>1, <2>1, FencedFacts DEF Freeze
    <2> QED
      BY <2>1, <2>2, <2>3, <2>4, <2>5 DEF Progress
  <1>2. ASSUME Fenced(e, {"uncertain", "refused", "record", "verify", "reject"}),
               NEW s \in OpenStatuses \cup {"succeeded", "failed"},
               step[KeyOf(e)] \in OpenStatuses,
               step' = [step EXCEPT ![KeyOf(e)] = s],
               status' = [status EXCEPT ![executor[e].entry] = "reconciliation_required"],
               UNCHANGED <<plan, pending>>
        PROVE  KeyOf(e) \in Keys /\ (JournalInv => Progress(KeyOf(e), s))
    <2>1. PICK i \in Entries : i = executor[e].entry
      BY <1>2, FencedFacts
    <2>2. PICK n \in {1, 2} : n = executor[e].step
      BY RecordFacts
    <2>3. KeyOf(e) = <<i, n>> /\ <<i, n>> \in Keys
      BY <2>1, <2>2, KeyFacts DEF KeyOf
    <2>4. pending = i /\ Unresolved(i)
      BY <1>2, <2>1, FencedFacts
    <2>5. ASSUME JournalInv, n = 2 PROVE step[<<i, 1>>] = "succeeded"
      BY <1>2, <2>3, <2>5 DEF JournalInv, InOrder, OpenStatuses
    <2> QED
      BY <1>2, <2>1, <2>3, <2>4, <2>5 DEF Progress, OpenStatuses
  <1>3. MarkUncertain(e) =>
          KeyOf(e) \in Keys /\ (JournalInv => Progress(KeyOf(e), "reconciliation_required"))
    BY <1>2 DEF MarkUncertain, Fenced, OpenStatuses, profile
  <1>4. \A s \in {"succeeded", "failed"} :
          Fenced(e, {"record", "verify", "reject"}) /\ RecordStep(e, s) =>
            KeyOf(e) \in Keys /\ (JournalInv => Progress(KeyOf(e), s))
    BY <1>2 DEF RecordStep, Fenced, profile
  <1> QED
    BY <1>1, <1>3, <1>4

LEMMA JournalStep ==
    TypeInv /\ PlanInv /\ ReservationHeld /\ JournalInv /\ [Next]_vars => JournalInv'
  <1> SUFFICES ASSUME TypeInv, PlanInv, ReservationHeld, JournalInv, [Next]_vars
               PROVE  JournalInv'
    OBVIOUS
  <1>1. CASE UNCHANGED vars
    BY <1>1, JournalStays DEF vars, profile, journal
  <1>2. CASE \E o \in Operations : Accept(o)
    BY <1>2, JournalByAccept
  <1>3. CASE Environment /\ ~\E o \in Operations : Accept(o)
    BY <1>3, JournalStays
    DEF Environment, LeaseExpires, WindowCloses, Late, Forget, SubscriptionWebhook,
        ReleaseWebhook, OwnerReserves, OwnerReleases, Subscribe, SubscriptionEnds, profile,
        journal
  <1>4. ASSUME NEW e \in Executors, ExecutorStep(e) PROVE JournalInv'
    <2>1. CASE \E o \in Operations : Reserve(e, o)
      BY <2>1, JournalByReserve
    <2>2. CASE \/ \E o \in Operations : Recover(e, o)
               \/ Claim(e) \/ Bind(e) \/ Lookup(e) \/ Dispatch(e)
               \/ Answered(e) \/ Unknown(e) \/ Stop(e)
      BY <2>2, JournalStays
      DEF Recover, Claim, Bind, Lookup, Dispatch, Answered, Unknown, Stop, profile, journal
    <2>3. CASE Freeze(e)
      BY <2>3, StepsProgress, JournalByProgress
    <2>4. CASE MarkUncertain(e)
      BY <2>4, StepsProgress, JournalByProgress
    <2>5. CASE RecordDone(e) \/ RecordRefused(e)
      <3>1. \E s \in {"succeeded", "failed"} :
               Fenced(e, {"record", "verify", "reject"}) /\ RecordStep(e, s)
        BY <2>5 DEF RecordDone, RecordRefused, Fenced
      <3> QED
        BY <3>1, StepsProgress, JournalByProgress
    <2>6. CASE Handoff(e)
      BY <2>6, JournalByHandoff
    <2>7. CASE Succeed(e)
      BY <2>7, JournalBySucceed
    <2>8. CASE Fail(e)
      BY <2>8, JournalByFail
    <2> QED
      BY <1>4, <2>1, <2>2, <2>3, <2>4, <2>5, <2>6, <2>7, <2>8 DEF ExecutorStep
  <1> QED
    BY <1>1, <1>2, <1>3, <1>4 DEF Next

-----------------------------------------------------------------------------
(* Answers.  A step's first request, unanswered or refused, has done        *)
(* nothing; what is recorded as done was done, and what is recorded as      *)
(* refused was not and has no request left that could do it.                *)

Asking == {"wait", "refused", "reject"}
Asks(e, k) == executor[e].pc \in Asking /\ KeyOf(e) = k

AskedInv(k) ==
    /\ k \in wire \/ (\E e \in Executors : Asks(e, k)) => attempts[k] > 0
    /\ step[k] = "absent" => attempts[k] = 0
FirstInv(k) ==
    attempts[k] = 1 =>
        \A e \in Executors :
            Asks(e, k) => /\ k \notin wire /\ effects[k] = 0
                          /\ \A f \in Executors : Asks(f, k) => f = e
OutcomeInv(k) ==
    /\ step[k] = "failed" => effects[k] = 0 /\ ~InFlight(k)
    /\ step[k] = "succeeded" => effects[k] > 0
    /\ kept[k] = "done" => effects[k] > 0
ProofInv ==
    \A e \in Executors :
        executor[e].pc \in {"record", "verify"} => effects[KeyOf(e)] > 0
AnswerInv ==
    /\ \A k \in Keys : AskedInv(k) /\ FirstInv(k) /\ OutcomeInv(k)
    /\ ProofInv

\* What a step is recorded as is true when it is recorded.
TrueRecord ==
    \A k \in Keys : \/ step'[k] = step[k]
                    \/ step'[k] \in OpenStatuses
                    \/ step'[k] = "succeeded" /\ effects[k] > 0
                    \/ step'[k] = "failed" /\ effects[k] = 0 /\ ~InFlight(k)

LEMMA AnswerCalm ==
    ASSUME AnswerInv, UNCHANGED <<effects, attempts, executor>>, wire' \subseteq wire,
           TrueRecord, \A k \in Keys : kept'[k] \in {kept[k], "none"}
    PROVE  AnswerInv'
  <1>1. \A k \in Keys : \A e \in Executors : (Asks(e, k))' <=> Asks(e, k)
    BY DEF Asks, KeyOf
  <1>2. \A k \in Keys : InFlight(k)' => InFlight(k)
    BY DEF InFlight, Waiting, KeyOf
  <1>3. ASSUME NEW k \in Keys PROVE AskedInv(k)' /\ FirstInv(k)' /\ OutcomeInv(k)'
    BY <1>1, <1>2 DEF AnswerInv, AskedInv, FirstInv, OutcomeInv, TrueRecord, OpenStatuses
  <1>4. ProofInv'
    BY DEF AnswerInv, ProofInv, KeyOf
  <1> QED
    BY <1>3, <1>4 DEF AnswerInv

\* An executor goes where it does not ask, to proof only where there is some.
LEMMA AnswerMoved ==
    ASSUME AnswerInv, NEW e \in Executors,
           UNCHANGED <<effects, attempts, kept>>, TrueRecord,
           \A f \in Executors \ {e} : executor'[f] = executor[f],
           executor'[e].pc \notin Asking,
           executor'[e].pc \in {"record", "verify"} => effects[KeyOf(e)'] > 0,
           \/ wire' = wire
           \/ executor[e].pc = "wait" /\ wire' = wire \cup {KeyOf(e)}
    PROVE  AnswerInv'
  <1>1. ASSUME NEW k \in Keys, NEW f \in Executors, (Asks(f, k))'
        PROVE  f # e /\ Asks(f, k)
    BY <1>1 DEF Asks, KeyOf
  <1>2. \A k \in Keys : InFlight(k)' => InFlight(k)
    BY FlightEnds DEF Asking
  <1>3. ASSUME NEW k \in Keys, k \in wire' PROVE k \in wire \/ Asks(e, k)
    BY <1>3 DEF Asks, Asking
  <1>4. ASSUME NEW k \in Keys PROVE AskedInv(k)'
    BY <1>1, <1>3 DEF AnswerInv, AskedInv, TrueRecord, OpenStatuses
  <1>5. ASSUME NEW k \in Keys PROVE FirstInv(k)'
    BY <1>1, <1>3 DEF AnswerInv, FirstInv
  <1>6. ASSUME NEW k \in Keys PROVE OutcomeInv(k)'
    BY <1>2 DEF AnswerInv, OutcomeInv, TrueRecord, OpenStatuses
  <1>7. ProofInv'
    BY DEF AnswerInv, ProofInv, KeyOf
  <1> QED
    BY <1>4, <1>5, <1>6, <1>7 DEF AnswerInv

LEMMA HandleFacts ==
    ASSUME TypeInv, AnswerInv, NEW k \in Keys, NEW a \in Answers, Handle(k, a)
    PROVE  /\ \A j \in Keys \ {k} : effects'[j] = effects[j] /\ kept'[j] = kept[j]
           /\ effects[k] > 0 => effects'[k] > 0
           /\ a = "done" => effects'[k] > 0
           /\ a = "refused" => effects' = effects
           /\ kept'[k] = "done" => effects'[k] > 0
  <1>1. kept[k] = "done" => effects[k] > 0
    BY DEF AnswerInv, OutcomeInv
  <1>2. kept[k] \in {"none", "done", "failed"}
    BY DEF TypeInv, TypeOK
  <1>3. /\ \A j \in Keys \ {k} : kept'[j] = kept[j]
        /\ kept'[k] = "done" => a = "done" \/ kept[k] = "done"
    BY DEF Handle, TypeInv, TypeOK
  <1>4. CASE kept[k] # "none" /\ a = kept[k] /\ effects' = effects
    BY <1>1, <1>2, <1>3, <1>4
  <1>5. CASE a # "refused" /\ Perform(k)
    <2>1. effects' = [effects EXCEPT ![k] = IF @ = 0 THEN 1 ELSE 2]
      BY <1>5 DEF Perform
    <2>2. effects'[k] > 0 /\ \A j \in Keys \ {k} : effects'[j] = effects[j]
      BY <2>1 DEF TypeInv, TypeOK
    <2> QED
      BY <1>3, <1>5, <2>2
  <1>6. CASE kept[k] = "none" /\ a # "done" /\ effects' = effects
    BY <1>1, <1>3, <1>6
  <1> QED
    BY <1>4, <1>5, <1>6 DEF Handle

LEMMA AnswerByLate ==
    ASSUME TypeInv, AnswerInv, NEW k \in Keys, Late(k)
    PROVE  AnswerInv'
  <1>1. /\ k \in wire /\ wire' = wire \ {k}
        /\ UNCHANGED <<attempts, step, executor>>
    BY DEF Late, journal
  <1>2. CASE UNCHANGED <<effects, kept>>
    BY <1>1, <1>2, AnswerCalm DEF TrueRecord
  <1>3. CASE \E a \in Answers : Handle(k, a)
    <2>1. /\ \A j \in Keys \ {k} : effects'[j] = effects[j] /\ kept'[j] = kept[j]
          /\ effects[k] > 0 => effects'[k] > 0
          /\ kept'[k] = "done" => effects'[k] > 0
      BY <1>3, HandleFacts
    <2>2. \A j \in Keys : \A e \in Executors : (Asks(e, j))' <=> Asks(e, j)
      BY <1>1 DEF Asks, KeyOf
    <2>3. \A j \in Keys : InFlight(j)' => InFlight(j)
      BY <1>1 DEF InFlight, Waiting, KeyOf
    <2>4. InFlight(k)
      BY <1>1 DEF InFlight
    <2>5. ASSUME NEW j \in Keys PROVE AskedInv(j)'
      BY <1>1, <2>2 DEF AnswerInv, AskedInv
    <2>6. ASSUME NEW j \in Keys PROVE FirstInv(j)'
      BY <1>1, <2>1, <2>2 DEF AnswerInv, FirstInv
    <2>7. ASSUME NEW j \in Keys PROVE OutcomeInv(j)'
      BY <1>1, <2>1, <2>3, <2>4 DEF AnswerInv, OutcomeInv
    <2>8. ProofInv'
      <3> SUFFICES ASSUME NEW e \in Executors, executor'[e].pc \in {"record", "verify"}
                   PROVE  effects'[KeyOf(e)'] > 0
        BY DEF ProofInv
      <3>1. KeyOf(e)' = KeyOf(e) /\ effects[KeyOf(e)] > 0 /\ KeyOf(e) \in Keys
        BY <1>1, RecordFacts DEF KeyOf, AnswerInv, ProofInv, AtWork
      <3> QED
        BY <2>1, <3>1
    <2> QED
      BY <2>5, <2>6, <2>7, <2>8 DEF AnswerInv
  <1> QED
    BY <1>2, <1>3 DEF Late

LEMMA AnswerByDispatch ==
    ASSUME TypeInv, EffectInv, AnswerInv, NEW e \in Executors, Dispatch(e)
    PROVE  AnswerInv'
  <1>0. PICK i \in Entries : i = executor[e].entry
    BY FencedFacts DEF Dispatch
  <1>1. PICK k \in Keys : k = NextStep(i)
    BY KeyFacts
  <1>2. k[2] \in {1, 2} /\ k = <<i, k[2]>>
    BY <1>1, KeyFacts
  <1>3. /\ step[k] \in OpenStatuses
        /\ attempts' = [attempts EXCEPT ![k] = IF @ = 0 THEN 1 ELSE 2]
        /\ GotoStep(e, "wait", k[2])
        /\ UNCHANGED <<effects, kept, wire, step>>
    BY <1>0, <1>1 DEF Dispatch, Ready, provider
  <1>4. /\ executor'[e].pc = "wait" /\ KeyOf(e)' = k
        /\ \A f \in Executors \ {e} : executor'[f] = executor[f]
    BY <1>0, <1>2, <1>3, FencedFacts, Moved DEF Dispatch, Places, KeyOf
  <1>5. /\ attempts[k] \in {0, 1, 2} /\ attempts'[k] = IF attempts[k] = 0 THEN 1 ELSE 2
        /\ \A j \in Keys \ {k} : attempts'[j] = attempts[j]
    BY <1>3 DEF TypeInv, TypeOK
  <1>6. ASSUME NEW f \in Executors, NEW j \in Keys, (Asks(f, j))'
        PROVE  (Asks(f, j) /\ f # e) \/ (f = e /\ j = k)
    BY <1>4, <1>6 DEF Asks, KeyOf
  <1>7. ASSUME NEW j \in Keys PROVE AskedInv(j)'
    BY <1>3, <1>5, <1>6 DEF AnswerInv, AskedInv, OpenStatuses
  <1>8. ASSUME NEW j \in Keys PROVE FirstInv(j)'
    <2>1. CASE j # k
      BY <1>3, <1>5, <1>6, <2>1 DEF AnswerInv, FirstInv
    <2>2. CASE j = k
      <3> SUFFICES ASSUME attempts'[k] = 1, NEW f \in Executors, (Asks(f, k))'
                   PROVE  /\ k \notin wire /\ effects[k] = 0
                          /\ \A g \in Executors : (Asks(g, k))' => g = f
        BY <1>3, <2>2 DEF FirstInv
      <3>1. attempts[k] = 0
        BY <1>5
      <3>2. k \notin wire /\ ~\E g \in Executors : Asks(g, k)
        BY <3>1 DEF AnswerInv, AskedInv
      <3>3. effects[k] = 0
        BY <3>1 DEF EffectInv, TypeInv, TypeOK
      <3> QED
        BY <1>6, <3>2, <3>3
    <2> QED
      BY <2>1, <2>2
  <1>9. ASSUME NEW j \in Keys PROVE OutcomeInv(j)'
    <2>1. InFlight(j)' => InFlight(j) \/ j = k
      BY <1>3, <1>4 DEF InFlight, Waiting, KeyOf
    <2> QED
      BY <1>3, <2>1 DEF AnswerInv, OutcomeInv, OpenStatuses
  <1>10. ProofInv'
    BY <1>3, <1>4 DEF AnswerInv, ProofInv, KeyOf
  <1> QED
    BY <1>7, <1>8, <1>9, <1>10 DEF AnswerInv

LEMMA AnswerByAnswered ==
    ASSUME TypeInv, AnswerInv, NEW e \in Executors, Answered(e)
    PROVE  AnswerInv'
  <1>1. AtWork(e) /\ executor[e].pc = "wait" /\ UNCHANGED <<wire, attempts, step>>
    BY DEF Answered, AtWork, journal
  <1>2. PICK a \in Answers :
          /\ Handle(KeyOf(e), a)
          /\ Goto(e, CASE a = "done" -> "record"
                       [] a = "failed" -> "uncertain"
                       [] a = "refused" -> "refused")
    BY DEF Answered
  <1>3. PICK k \in Keys : k = KeyOf(e)
    BY <1>1, RecordFacts
  <1>4. /\ a = "done" => executor'[e].pc = "record"
        /\ a = "failed" => executor'[e].pc = "uncertain"
        /\ a = "refused" => executor'[e].pc = "refused"
        /\ KeyOf(e)' = k
        /\ \A f \in Executors \ {e} : executor'[f] = executor[f]
    BY <1>1, <1>2, <1>3, Moved, RecordFacts DEF Goto, Answers, Places, KeyOf
  <1>5. /\ \A j \in Keys \ {k} : effects'[j] = effects[j] /\ kept'[j] = kept[j]
        /\ effects[k] > 0 => effects'[k] > 0
        /\ a = "done" => effects'[k] > 0
        /\ a = "refused" => effects' = effects
        /\ kept'[k] = "done" => effects'[k] > 0
    BY <1>2, <1>3, HandleFacts
  <1>6. Asks(e, k) /\ InFlight(k)
    BY <1>1, <1>3 DEF Asks, Asking, InFlight, Waiting
  <1>7. ASSUME NEW f \in Executors, NEW j \in Keys, (Asks(f, j))'
        PROVE  Asks(f, j) /\ (f = e => j = k /\ a = "refused")
    <2>1. CASE f = e
      BY <1>3, <1>4, <1>6, <1>7, <2>1 DEF Asks, Asking, Answers
    <2>2. CASE f # e
      BY <1>4, <1>7, <2>2 DEF Asks, KeyOf
    <2> QED
      BY <2>1, <2>2
  <1>8. \A j \in Keys : InFlight(j)' => InFlight(j)
    BY <1>1, <1>4, FlightEnds DEF Answers
  <1>9. ASSUME NEW j \in Keys PROVE AskedInv(j)'
    BY <1>1, <1>7 DEF AnswerInv, AskedInv
  <1>10. ASSUME NEW j \in Keys PROVE FirstInv(j)'
    <2> SUFFICES ASSUME attempts[j] = 1, NEW f \in Executors, (Asks(f, j))'
                 PROVE  /\ j \notin wire /\ effects'[j] = 0
                        /\ \A g \in Executors : (Asks(g, j))' => g = f
      BY <1>1 DEF FirstInv
    <2>1. /\ j \notin wire /\ effects[j] = 0
          /\ \A g \in Executors : Asks(g, j) => g = f
      BY <1>7 DEF AnswerInv, FirstInv
    <2>2. effects'[j] = 0
      <3>1. CASE j # k
        BY <1>5, <2>1, <3>1
      <3>2. CASE j = k
        BY <1>5, <1>6, <1>7, <2>1, <3>2
      <3> QED
        BY <3>1, <3>2
    <2> QED
      BY <1>7, <2>1, <2>2
  <1>11. ASSUME NEW j \in Keys PROVE OutcomeInv(j)'
    BY <1>1, <1>5, <1>6, <1>8 DEF AnswerInv, OutcomeInv
  <1>12. ProofInv'
    <2> SUFFICES ASSUME NEW f \in Executors, executor'[f].pc \in {"record", "verify"}
                 PROVE  effects'[KeyOf(f)'] > 0
      BY DEF ProofInv
    <2>1. CASE f = e
      BY <1>4, <1>5, <2>1 DEF Answers
    <2>2. CASE f # e
      <3>1. KeyOf(f)' = KeyOf(f) /\ executor[f].pc \in {"record", "verify"}
        BY <1>4, <2>2 DEF KeyOf
      <3>2. effects[KeyOf(f)] > 0 /\ KeyOf(f) \in Keys
        BY <3>1, RecordFacts DEF AnswerInv, ProofInv, AtWork
      <3> QED
        BY <1>5, <3>1, <3>2
    <2> QED
      BY <2>1, <2>2
  <1> QED
    BY <1>9, <1>10, <1>11, <1>12 DEF AnswerInv

\* A refusal becomes uncertainty before it may become a rejection.
LEMMA AnswerByRefusal ==
    ASSUME TypeInv, AnswerInv, NEW e \in Executors, MarkUncertain(e),
           executor[e].pc = "refused"
    PROVE  AnswerInv'
  <1>1. AtWork(e) /\ Goto(e, "reject") /\ KeyOf(e) \in Keys
    BY FencedFacts, RecordFacts DEF MarkUncertain
  <1>2. /\ executor'[e].pc = "reject" /\ KeyOf(e)' = KeyOf(e)
        /\ \A f \in Executors \ {e} : executor'[f] = executor[f]
    BY <1>1, Moved, RecordFacts DEF Goto, Places, KeyOf
  <1>3. UNCHANGED <<effects, attempts, kept, wire>> /\ TrueRecord
    <2>1. step' = [step EXCEPT ![KeyOf(e)] = "reconciliation_required"]
      BY DEF MarkUncertain
    <2> QED
      BY <1>1, <2>1 DEF MarkUncertain, TrueRecord, OpenStatuses, TypeInv, TypeOK, provider
  <1>4. \A k \in Keys : \A f \in Executors : (Asks(f, k))' <=> Asks(f, k)
    <2>1. \A k \in Keys : (Asks(e, k))' <=> Asks(e, k)
      BY <1>2 DEF Asks, Asking
    <2>2. \A f \in Executors \ {e} : \A k \in Keys : (Asks(f, k))' <=> Asks(f, k)
      BY <1>2 DEF Asks, KeyOf
    <2> QED
      BY <2>1, <2>2
  <1>5. \A k \in Keys : InFlight(k)' => InFlight(k)
    BY <1>2, <1>3, FlightEnds
  <1>6. ASSUME NEW k \in Keys PROVE AskedInv(k)' /\ FirstInv(k)' /\ OutcomeInv(k)'
    <2>1. AskedInv(k)'
      BY <1>3, <1>4 DEF AnswerInv, AskedInv, TrueRecord, OpenStatuses
    <2>2. FirstInv(k)'
      BY <1>3, <1>4 DEF AnswerInv, FirstInv
    <2>3. OutcomeInv(k)'
      BY <1>3, <1>5 DEF AnswerInv, OutcomeInv, TrueRecord, OpenStatuses
    <2> QED
      BY <2>1, <2>2, <2>3
  <1>7. ProofInv'
    BY <1>2, <1>3 DEF AnswerInv, ProofInv, KeyOf
  <1> QED
    BY <1>6, <1>7 DEF AnswerInv

LEMMA AnswerByRecord ==
    ASSUME TypeInv, AnswerInv, NEW e \in Executors, RecordDone(e) \/ RecordRefused(e)
    PROVE  AnswerInv'
  <1>1. AtWork(e) /\ KeyOf(e) \in Keys
    BY FencedFacts, RecordFacts DEF RecordDone, RecordRefused
  <1>2. PICK k \in Keys : k = KeyOf(e)
    BY <1>1
  <1>3. PICK s \in {"succeeded", "failed"} :
          /\ RecordStep(e, s)
          /\ s = "succeeded" => executor[e].pc \in {"record", "verify"}
          /\ s = "failed" => executor[e].pc = "reject" /\ attempts[k] = 1
    BY <1>2 DEF RecordDone, RecordRefused, Fenced, ProvesNothingDone
  <1>4. /\ executor'[e].pc = "run"
        /\ \A f \in Executors \ {e} : executor'[f] = executor[f]
    BY <1>1, <1>3, Moved DEF RecordStep, Places
  <1>5. /\ step' = [step EXCEPT ![k] = s]
        /\ UNCHANGED <<effects, attempts, kept, wire>>
    BY <1>2, <1>3 DEF RecordStep, provider
  <1>6. s = "succeeded" => effects[k] > 0
    BY <1>2, <1>3 DEF AnswerInv, ProofInv
  <1>7. s = "failed" => effects[k] = 0 /\ ~InFlight(k)
    <2> SUFFICES ASSUME s = "failed" PROVE effects[k] = 0 /\ ~InFlight(k)
      OBVIOUS
    <2>1. Asks(e, k) /\ attempts[k] = 1 /\ executor[e].pc # "wait"
      BY <1>2, <1>3 DEF Asks, Asking
    <2>2. /\ k \notin wire /\ effects[k] = 0
          /\ \A f \in Executors : Asks(f, k) => f = e
      BY <2>1 DEF AnswerInv, FirstInv
    <2>3. \A f \in Executors : ~Waiting(f, k)
      BY <2>1, <2>2 DEF Waiting, Asks, Asking
    <2> QED
      BY <2>2, <2>3 DEF InFlight
  <1>8. TrueRecord
    BY <1>5, <1>6, <1>7 DEF TrueRecord, TypeInv, TypeOK
  <1> QED
    BY <1>4, <1>5, <1>8, AnswerMoved DEF Asking

LEMMA AnswerByLookup ==
    ASSUME TypeInv, AnswerInv, NEW e \in Executors, Lookup(e)
    PROVE  AnswerInv'
  <1>0. PICK i \in Entries : i = executor[e].entry
    BY FencedFacts DEF Lookup
  <1>1. PICK k \in Keys : k = NextStep(i)
    BY KeyFacts
  <1>2. k[2] \in {1, 2} /\ k = <<i, k[2]>>
    BY <1>1, KeyFacts
  <1>3. PICK pc \in {"verify", "dispatch"} :
          GotoStep(e, pc, k[2]) /\ (pc = "verify" => effects[k] = 1)
    BY <1>0, <1>1 DEF Lookup
  <1>4. /\ executor'[e].pc = pc /\ KeyOf(e)' = k
        /\ \A f \in Executors \ {e} : executor'[f] = executor[f]
    BY <1>0, <1>2, <1>3, FencedFacts, Moved DEF Lookup, Places, KeyOf
  <1>5. UNCHANGED <<effects, attempts, kept, wire, step>>
    BY DEF Lookup, journal, provider
  <1>6. effects'[KeyOf(e)'] = effects[k]
    BY <1>4, <1>5
  <1> QED
    BY <1>3, <1>4, <1>5, <1>6, AnswerMoved DEF Asking, TrueRecord

LEMMA AnswerByExecutor ==
    ASSUME TypeInv, EffectInv, AnswerInv, NEW e \in Executors, ExecutorStep(e)
    PROVE  AnswerInv'
  <1> DEFINE Aside == /\ \A f \in Executors \ {e} : executor'[f] = executor[f]
                      /\ executor'[e].pc \notin Asking \cup {"record", "verify"}
                      /\ \/ wire' = wire
                         \/ /\ executor[e].pc = "wait"
                            /\ wire' = wire \cup {KeyOf(e)}
             Mute == UNCHANGED <<effects, attempts, kept>> /\ TrueRecord
  <1>1. ASSUME Aside, Mute PROVE AnswerInv'
    BY <1>1, AnswerMoved
  <1>2. ASSUME NEW o \in Operations, Reserve(e, o) \/ Recover(e, o) PROVE Aside /\ Mute
    <2>1. Aside
      BY <1>2 DEF Reserve, Recover, At, Asking, TypeInv, TypeOK, provider
    <2>2. UNCHANGED <<effects, attempts, kept>>
      BY <1>2 DEF Reserve, Recover, journal, provider
    <2>3. step' = step \/ \E r \in Entries : step' = [step EXCEPT ![<<r, 1>>] = "pending"]
      BY <1>2, EntryFacts DEF Reserve, Recover, journal
    <2>4. CASE step' = step
      BY <2>1, <2>2, <2>4 DEF TrueRecord
    <2>5. ASSUME NEW k \in Keys, step' = [step EXCEPT ![k] = "pending"]
          PROVE  Aside /\ Mute
      <3>1. TrueRecord
        BY <2>5 DEF TrueRecord, OpenStatuses, TypeInv, TypeOK
      <3> QED
        BY <2>1, <2>2, <3>1
    <2>6. \A r \in Entries : <<r, 1>> \in Keys
      BY KeyFacts
    <2> QED
      BY <2>3, <2>4, <2>5, <2>6
  <1>3. CASE Claim(e)
    <2>1. Aside
      BY <1>3, Moved, RecordFacts DEF Claim, Goto, AtWork, Places, Asking, provider
    <2> QED
      BY <1>1, <1>3, <2>1 DEF Claim, TrueRecord, provider
  <1>4. CASE Bind(e)
    BY <1>4, AnswerCalm DEF Bind, TrueRecord, provider
  <1>5. CASE Freeze(e)
    <2>0. PICK i \in Entries : i = executor[e].entry
      BY <1>5, FencedFacts DEF Freeze
    <2>1. PICK k \in Keys : k = NextStep(i)
      BY KeyFacts
    <2>3. step' = [step EXCEPT ![k] = "pending"]
      BY <1>5, <2>0, <2>1 DEF Freeze
    <2>2. TrueRecord
      BY <2>3 DEF TrueRecord, OpenStatuses, TypeInv, TypeOK
    <2> QED
      BY <1>5, <2>2, AnswerCalm DEF Freeze, provider
  <1>6. CASE Lookup(e)
    BY <1>6, AnswerByLookup
  <1>7. CASE Dispatch(e)
    BY <1>7, AnswerByDispatch
  <1>8. CASE Answered(e)
    BY <1>8, AnswerByAnswered
  <1>9. CASE Unknown(e)
    <2>1. Aside
      BY <1>9, Moved, RecordFacts DEF Unknown, Goto, Abandon, AtWork, Places, Asking
    <2> QED
      BY <1>1, <1>9, <2>1 DEF Unknown, journal, TrueRecord
  <1>10. CASE MarkUncertain(e) /\ executor[e].pc = "refused"
    BY <1>10, AnswerByRefusal
  <1>11. CASE MarkUncertain(e) /\ executor[e].pc # "refused"
    <2>1. Aside
      BY <1>11, Left DEF MarkUncertain, Asking, provider
    <2>2. KeyOf(e) \in Keys /\ step' = [step EXCEPT ![KeyOf(e)] = "reconciliation_required"]
      BY <1>11, FencedFacts, RecordFacts DEF MarkUncertain
    <2>3. TrueRecord
      BY <2>2 DEF TrueRecord, OpenStatuses, TypeInv, TypeOK
    <2> QED
      BY <1>1, <1>11, <2>1, <2>3 DEF MarkUncertain, provider
  <1>12. CASE RecordDone(e) \/ RecordRefused(e)
    BY <1>12, AnswerByRecord
  <1>13. CASE Handoff(e)
    <2>1. Aside
      BY <1>13 DEF Handoff, At, Asking, TypeInv, TypeOK, provider
    <2> QED
      BY <1>1, <1>13, <2>1 DEF Handoff, TrueRecord, provider
  <1>14. CASE Succeed(e) \/ Fail(e)
    <2>1. Aside
      BY <1>14, Left DEF Succeed, Fail, Release, Asking, provider
    <2> QED
      BY <1>1, <1>14, <2>1 DEF Succeed, Fail, Release, TrueRecord, provider
  <1>15. CASE Stop(e)
    <2>1. Aside
      BY <1>15, Left DEF Stop, Abandon, Asking
    <2> QED
      BY <1>1, <1>15, <2>1 DEF Stop, journal, TrueRecord
  <1> QED
    BY <1>1, <1>2, <1>3, <1>4, <1>5, <1>6, <1>7, <1>8, <1>9, <1>10, <1>11, <1>12,
       <1>13, <1>14, <1>15 DEF ExecutorStep

LEMMA AnswerByEnvironment ==
    ASSUME TypeInv, AnswerInv, Environment
    PROVE  AnswerInv'
  <1>1. CASE \E k \in Keys : Late(k)
    BY <1>1, AnswerByLate
  <1>2. ASSUME NEW k \in Keys, Forget(k) PROVE AnswerInv'
    <2>1. \A j \in Keys : kept'[j] \in {kept[j], "none"}
      BY <1>2 DEF Forget, TypeInv, TypeOK
    <2> QED
      BY <1>2, <2>1, AnswerCalm DEF Forget, journal, TrueRecord
  <1>3. CASE \/ \E o \in Operations : Accept(o)
             \/ \E i \in Entries : LeaseExpires(i)
             \/ \E k \in Keys : WindowCloses(k)
             \/ SubscriptionWebhook \/ ReleaseWebhook \/ OwnerReserves \/ OwnerReleases
             \/ Subscribe \/ SubscriptionEnds
    <2>1. UNCHANGED <<effects, kept, wire, executor, attempts, step>>
      BY <1>3
      DEF Accept, LeaseExpires, WindowCloses, SubscriptionWebhook, ReleaseWebhook,
          OwnerReserves, OwnerReleases, Subscribe, SubscriptionEnds, journal, provider
    <2> QED
      BY <2>1, AnswerCalm DEF TrueRecord
  <1> QED
    BY <1>1, <1>2, <1>3 DEF Environment

LEMMA AnswerStep == TypeInv /\ EffectInv /\ AnswerInv /\ [Next]_vars => AnswerInv'
  <1> SUFFICES ASSUME TypeInv, EffectInv, AnswerInv, [Next]_vars PROVE AnswerInv'
    OBVIOUS
  <1>1. CASE UNCHANGED vars
    BY <1>1, AnswerCalm DEF vars, journal, provider, TrueRecord
  <1>2. CASE Environment
    BY <1>2, AnswerByEnvironment
  <1>3. ASSUME NEW e \in Executors, ExecutorStep(e) PROVE AnswerInv'
    BY <1>3, AnswerByExecutor
  <1> QED
    BY <1>1, <1>2, <1>3 DEF Next

LEMMA AnswerInit == Init => AnswerInv
  <1> SUFFICES ASSUME Init PROVE AnswerInv
    OBVIOUS
  <1>1. \A e \in Executors : executor[e].pc = "new"
    BY DEF Init, New, At
  <1>2. \A k \in Keys : /\ step[k] = "absent" /\ attempts[k] = 0
                        /\ kept[k] = "none" /\ k \notin wire
    BY DEF Init
  <1>3. \A k \in Keys : AskedInv(k) /\ FirstInv(k) /\ OutcomeInv(k)
    BY <1>1, <1>2 DEF AskedInv, FirstInv, OutcomeInv, Asks, Asking
  <1>4. ProofInv
    BY <1>1 DEF ProofInv
  <1> QED
    BY <1>3, <1>4 DEF AnswerInv

LEMMA JournalInit == Init => JournalInv
  <1> SUFFICES ASSUME Init PROVE JournalInv
    OBVIOUS
  <1>1. /\ \A i \in Entries : status[i] = "absent"
        /\ \A k \in Keys : step[k] = "absent"
    BY DEF Init
  <1>2. \A i \in Entries : FreshEntry(i) /\ InOrder(i)
    BY <1>1, KeyFacts DEF FreshEntry, InOrder
  <1>3. \A o \in Operations : PrerequisiteFirst(o) /\ FailedClean(o) /\ SucceededAll(o)
    BY <1>1, EntryFacts
    DEF PrerequisiteFirst, FailedClean, SucceededAll, Unresolved, OpenStatuses
  <1> QED
    BY <1>2, <1>3 DEF JournalInv

\* The steps of an entry none of whose steps succeeded have no effect.
LEMMA NoEffect ==
    ASSUME TypeInv, EffectInv, JournalInv, AnswerInv,
           NEW i \in Entries, NothingSucceeded(i), NEW k \in Keys, k[1] = i
    PROVE  effects[k] = 0
  <1>1. k = <<i, 1>> \/ k = <<i, 2>>
    BY KeyFacts
  <1>2. step[<<i, 2>>] = "absent"
    BY DEF JournalInv, InOrder, NothingSucceeded
  <1>3. step[k] \in {"absent", "failed"}
    BY <1>1, <1>2 DEF NothingSucceeded
  <1>4. step[k] = "failed" => effects[k] = 0
    BY DEF AnswerInv, OutcomeInv
  <1>5. step[k] = "absent" => attempts[k] = 0
    BY DEF AnswerInv, AskedInv
  <1>6. effects[k] \in 0..2 /\ effects[k] <= 1
    BY DEF TypeInv, TypeOK, EffectInv
  <1>7. attempts[k] = 0 => effects[k] # 1
    BY DEF EffectInv
  <1> QED
    BY <1>3, <1>4, <1>5, <1>6, <1>7

\* What the journal reports of an operation is what Stripe did: a success that
\* is reported was done, and a reported failure has done nothing and never will
\* (OutcomeIsTrue; recordStep, finalize).
THEOREM OutcomesAreTrue == Spec => []OutcomeIsTrue
  <1>1. Init => PlanInv /\ ReservationHeld
    BY EntryFacts DEF Init, PlanInv, CurrentInv, FreshInv, PlanFitsBinding,
                      ReservationHeld, Unresolved, OpenStatuses
  <1>2. TypeInv /\ EffectInv /\ JournalInv /\ AnswerInv => OutcomeIsTrue
    <2> SUFFICES ASSUME TypeInv, EffectInv, JournalInv, AnswerInv, NEW o \in Operations
                 PROVE  /\ status[Root(o)] = "succeeded" =>
                             StepsOf(Root(o)) \subseteq EffectsOf(o)
                        /\ status[Root(o)] = "failed" => EffectsOf(o) = {}
      BY DEF OutcomeIsTrue
    <2>1. /\ Root(o) \in Entries /\ Prerequisite(o) \in Entries
          /\ Root(o)[1] = o
      BY EntryFacts
    <2>2. ASSUME status[Root(o)] = "succeeded", NEW k \in StepsOf(Root(o))
          PROVE  k \in EffectsOf(o)
      <3>1. k \in Keys /\ k[1] = Root(o)
        BY <2>2 DEF StepsOf
      <3>2. step[k] = "succeeded"
        BY <2>2 DEF JournalInv, SucceededAll, AllDone
      <3>3. effects[k] > 0
        BY <3>1, <3>2 DEF AnswerInv, OutcomeInv
      <3> QED
        BY <2>1, <3>1, <3>3 DEF EffectsOf
    <2>3. ASSUME status[Root(o)] = "failed", NEW k \in Keys, k[1][1] = o
          PROVE  ~(effects[k] > 0)
      <3>1. NothingSucceeded(Root(o)) /\ NothingSucceeded(Prerequisite(o))
        BY <2>3 DEF JournalInv, FailedClean
      <3>2. k[1] = Root(o) \/ k[1] = Prerequisite(o)
        BY <2>3, KeyFacts, EntryFacts
      <3>3. effects[k] = 0
        BY <2>1, <3>1, <3>2, NoEffect
      <3> QED
        BY <3>3
    <2> QED
      BY <2>2, <2>3 DEF EffectsOf
  <1> DEFINE Inv == PlanInv /\ ReservationHeld /\ EffectInv /\ JournalInv /\ AnswerInv
  <1>3. Init => Inv
    BY <1>1, EffectInit, JournalInit, AnswerInit
  <1>4. TypeInv /\ Inv /\ [Next]_vars => Inv'
    BY PlanStep, HeldStep, EffectStep, JournalStep, AnswerStep
  <1>5. TypeInv /\ Inv => OutcomeIsTrue
    BY <1>2
  <1> HIDE DEF Inv
  <1> QED
    BY <1>3, <1>4, <1>5, Shaped, PTL DEF Spec
=============================================================================
