------------------------ MODULE BillingContractProofs ------------------------
(***************************************************************************)
(* The billing journal implements its contract: proof, on top of the       *)
(* invariants of BillingMutationProofs.                                    *)
(***************************************************************************)
EXTENDS BillingMutationProofs

USE BillingAssumption

-----------------------------------------------------------------------------
(* Shape.  A step that was begun is one of its entry's steps; a            *)
(* prerequisite that is reported done was done; a downgrade, which has two *)
(* steps of its own, is planned only for a customer and needs no           *)
(* prerequisite.                                                           *)

Begun(k) == step[k] # "absent" => k \in StepsOf(k[1])
CustomerMade(o) ==
    /\ status[Prerequisite(o)] = "succeeded" => step[<<Prerequisite(o), 1>>] = "succeeded"
    /\ status[Root(o)] = "succeeded" => status[Prerequisite(o)] \in {"absent", "succeeded"}
Lonely(o) ==
    /\ o \in current /\ plan[o] = "schedule_downgrade" => "customer" \in bound
    /\ status[Prerequisite(o)] # "absent" => plan[o] # "schedule_downgrade"
ShapeInv ==
    /\ \A k \in Keys : Begun(k)
    /\ \A o \in Operations : CustomerMade(o) /\ Lonely(o)

\* An entry's steps depend on the plan of its operation only.
LEMMA StepsByPlan ==
    ASSUME NEW i \in Entries, plan'[i[1]] = plan[i[1]]
    PROVE  StepsOf(i)' = StepsOf(i) /\ StepCount(i)' = StepCount(i)
  BY DEF StepsOf, StepCount, ActionOf

LEMMA ShapeStays ==
    ASSUME ShapeInv, UNCHANGED <<plan, status, step>>,
           current' = {} \/ UNCHANGED <<current, bound>>
    PROVE  ShapeInv'
  <1>1. \A k \in Keys : Begun(k)'
    <2> SUFFICES ASSUME NEW k \in Keys PROVE Begun(k)'
      OBVIOUS
    <2>1. StepsOf(k[1])' = StepsOf(k[1])
      BY KeyFacts, StepsByPlan
    <2> QED
      BY <2>1 DEF ShapeInv, Begun
  <1>2. \A o \in Operations : CustomerMade(o)' /\ Lonely(o)'
    BY DEF ShapeInv, CustomerMade, Lonely
  <1> QED
    BY <1>1, <1>2 DEF ShapeInv

\* Accept plans an operation of which the journal knows nothing.
LEMMA ShapeByAccept ==
    ASSUME TypeInv, PlanInv, JournalInv, ShapeInv, NEW o \in Operations, Accept(o)
    PROVE  ShapeInv'
  <1>1. PICK intent \in Intents : \E a \in Planned(intent) :
          plan' = [plan EXCEPT ![o] = a]
    BY DEF Accept
  <1>2. PICK a \in Planned(intent) : plan' = [plan EXCEPT ![o] = a]
    BY <1>1
  <1>3. a = "schedule_downgrade" => "customer" \in bound
    BY <1>2 DEF Planned, Found
  <1>4. plan'[o] = a /\ \A p \in Operations \ {o} : plan'[p] = plan[p]
    BY <1>2 DEF TypeInv, TypeOK
  <1>5. /\ status[Root(o)] = "absent" /\ status[Prerequisite(o)] = "absent"
        /\ current' = current \cup {o}
        /\ UNCHANGED <<status, step, bound>>
    BY DEF Accept, PlanInv, FreshInv, journal
  <1>6. \A k \in Keys : Begun(k)'
    <2> SUFFICES ASSUME NEW k \in Keys, step[k] # "absent" PROVE k \in StepsOf(k[1])'
      BY <1>5 DEF Begun
    <2>1. k[1] \in Entries /\ k = <<k[1], k[2]>> /\ k[2] \in {1, 2}
      BY KeyFacts
    <2>2. status[k[1]] # "absent"
      BY <2>1 DEF JournalInv, FreshEntry, InOrder
    <2>3. k[1][1] \in Operations \ {o}
      BY <1>5, <2>1, <2>2, EntryFacts
    <2>4. StepsOf(k[1])' = StepsOf(k[1])
      BY <1>4, <2>1, <2>3, StepsByPlan
    <2> QED
      BY <2>4 DEF ShapeInv, Begun
  <1>7. \A p \in Operations : CustomerMade(p)' /\ Lonely(p)'
    BY <1>3, <1>4, <1>5 DEF ShapeInv, CustomerMade, Lonely
  <1> QED
    BY <1>6, <1>7 DEF ShapeInv

\* A step of a journaled entry moves on.
LEMMA ShapeByProgress ==
    ASSUME TypeInv, JournalInv, ShapeInv, NEW k \in Keys, NEW s, Progress(k, s),
           k \in StepsOf(k[1]), current' = current, bound' = bound
    PROVE  ShapeInv'
  <1>0. PICK i \in Entries : i = k[1]
    BY KeyFacts
  <1>1. /\ \A j \in Keys \ {k} : step'[j] = step[j]
        /\ \A r \in Entries \ {i} : status'[r] = status[r]
        /\ Unresolved(i) /\ Unresolved(i)' /\ plan' = plan
    BY <1>0 DEF Progress, Unresolved, OpenStatuses, TypeInv, TypeOK
  <1>2. ASSUME NEW j \in Keys PROVE Begun(j)'
    <2>1. StepsOf(j[1])' = StepsOf(j[1])
      BY <1>1, KeyFacts, StepsByPlan
    <2> QED
      BY <1>1, <2>1 DEF ShapeInv, Begun
  <1>3. ASSUME NEW o \in Operations PROVE CustomerMade(o)'
    <2>1. CASE i = Prerequisite(o)
      <3>1. Unresolved(Root(o)) /\ i # Root(o)
        BY <1>1, <2>1, EntryFacts DEF JournalInv, PrerequisiteFirst
      <3>2. status'[Root(o)] = status[Root(o)]
        BY <1>1, <3>1, EntryFacts
      <3> QED
        BY <1>1, <2>1, <3>1, <3>2 DEF CustomerMade, Unresolved, OpenStatuses
    <2>2. CASE i # Prerequisite(o)
      <3>1. /\ status'[Prerequisite(o)] = status[Prerequisite(o)]
            /\ status'[Root(o)] = "succeeded" => status[Root(o)] = "succeeded"
        BY <1>1, <2>2, EntryFacts DEF Unresolved, OpenStatuses
      <3>2. <<Prerequisite(o), 1>> \in Keys \ {k}
        BY <1>0, <2>2, EntryFacts, KeyFacts
      <3> QED
        BY <1>1, <3>1, <3>2 DEF ShapeInv, CustomerMade
    <2> QED
      BY <2>1, <2>2
  <1>4. ASSUME NEW o \in Operations PROVE Lonely(o)'
    <2>1. status'[Prerequisite(o)] # "absent" => status[Prerequisite(o)] # "absent"
      BY <1>1, EntryFacts DEF Unresolved, OpenStatuses
    <2> QED
      BY <1>1, <2>1 DEF ShapeInv, Lonely
  <1> QED
    BY <1>2, <1>3, <1>4 DEF ShapeInv

LEMMA ShapeByReserve ==
    ASSUME TypeInv, PlanInv, JournalInv, ShapeInv,
           NEW e \in Executors, NEW o \in Operations, Reserve(e, o)
    PROVE  ShapeInv'
  <1> DEFINE entry == IF plan[o] = "cancel" \/ "customer" \in bound
                      THEN Root(o) ELSE Prerequisite(o)
  <1>1. PICK i \in {Root(o), Prerequisite(o)} : i = entry
    OBVIOUS
  <1>2. /\ status' = [status EXCEPT ![Root(o)] = "pending", ![i] = "pending"]
        /\ step' = IF StepCount(i) = 0 THEN step
                   ELSE [step EXCEPT ![<<i, 1>>] = "pending"]
        /\ plan' = plan /\ o \in current /\ current' = {}
        /\ status[Prerequisite(o)] = "absent"
    BY <1>1 DEF Reserve, VersionIsCurrent, PlanInv, FreshInv
  <1>3. i \in Entries /\ Root(o) \in Entries /\ Prerequisite(o) \in Entries
        /\ <<i, 1>> \in Keys
    BY EntryFacts, KeyFacts
  <1>4. StepCount(i) # 0 => <<i, 1>> \in StepsOf(i)
    BY <1>3 DEF StepsOf, StepCount
  <1>5. /\ \A r \in Entries \ {i, Root(o)} : status'[r] = status[r]
        /\ status'[Root(o)] = "pending"
        /\ \A k \in Keys : step'[k] = step[k] \/ (k = <<i, 1>> /\ StepCount(i) # 0)
    BY <1>2, <1>3 DEF TypeInv, TypeOK
  <1>6. ASSUME NEW k \in Keys PROVE Begun(k)'
    <2>1. StepsOf(k[1])' = StepsOf(k[1])
      BY <1>2, KeyFacts, StepsByPlan
    <2>2. CASE step'[k] = step[k]
      BY <2>1, <2>2 DEF ShapeInv, Begun
    <2>3. CASE k = <<i, 1>> /\ StepCount(i) # 0
      BY <1>3, <1>4, <2>1, <2>3 DEF Begun
    <2> QED
      BY <1>5, <2>2, <2>3
  <1>7. ASSUME NEW p \in Operations PROVE CustomerMade(p)'
    <2>1. CASE Prerequisite(p) = i
      <3>1. status'[i] = "pending"
        BY <1>2, <1>3 DEF TypeInv, TypeOK
      <3>2. p = o
        BY <2>1, EntryFacts
      <3> QED
        BY <1>5, <2>1, <3>1, <3>2 DEF CustomerMade
    <2>2. CASE Prerequisite(p) # i
      <3>1. status'[Prerequisite(p)] = status[Prerequisite(p)]
        BY <1>5, <2>2, EntryFacts
      <3>2. <<Prerequisite(p), 1>> \in Keys /\ <<Prerequisite(p), 1>> # <<i, 1>>
        BY <2>2, EntryFacts, KeyFacts
      <3>3. step'[<<Prerequisite(p), 1>>] = step[<<Prerequisite(p), 1>>]
        BY <1>5, <3>2
      <3>4. status'[Root(p)] = "succeeded" => status[Root(p)] = "succeeded"
        BY <1>1, <1>5, EntryFacts
      <3> QED
        BY <3>1, <3>3, <3>4 DEF ShapeInv, CustomerMade
    <2> QED
      BY <2>1, <2>2
  <1>8. ASSUME NEW p \in Operations PROVE Lonely(p)'
    <2>1. CASE Prerequisite(p) = i
      <3>1. p = o /\ "customer" \notin bound
        BY <1>1, <2>1, EntryFacts
      <3>2. plan[o] # "schedule_downgrade"
        BY <1>2, <3>1 DEF ShapeInv, Lonely
      <3> QED
        BY <1>2, <3>1, <3>2 DEF Lonely
    <2>2. CASE Prerequisite(p) # i
      <3>1. status'[Prerequisite(p)] = status[Prerequisite(p)]
        BY <1>5, <2>2, EntryFacts
      <3> QED
        BY <1>2, <3>1 DEF ShapeInv, Lonely
    <2> QED
      BY <2>1, <2>2
  <1> QED
    BY <1>6, <1>7, <1>8 DEF ShapeInv

\* Handoff, Succeed and Fail: no step changes, and no entry is begun.
LEMMA ShapeByClosing ==
    ASSUME TypeInv, ShapeInv, UNCHANGED <<plan, step>>, current' = {},
           \A r \in Entries : status'[r] = "absent" => status[r] = "absent",
           \A r \in Entries : status[r] = "absent" => status'[r] = "absent",
           \A o \in Operations :
               status'[Prerequisite(o)] = "succeeded" =>
                   \/ status[Prerequisite(o)] = "succeeded"
                   \/ step[<<Prerequisite(o), 1>>] = "succeeded",
           \A o \in Operations :
               status'[Root(o)] = "succeeded" =>
                   status'[Prerequisite(o)] \in {"absent", "succeeded"}
    PROVE  ShapeInv'
  <1>1. \A k \in Keys : Begun(k)'
    <2> SUFFICES ASSUME NEW k \in Keys PROVE Begun(k)'
      OBVIOUS
    <2>1. StepsOf(k[1])' = StepsOf(k[1])
      BY KeyFacts, StepsByPlan
    <2> QED
      BY <2>1 DEF ShapeInv, Begun
  <1>2. \A o \in Operations : CustomerMade(o)' /\ Lonely(o)'
    BY EntryFacts DEF ShapeInv, CustomerMade, Lonely
  <1> QED
    BY <1>1, <1>2 DEF ShapeInv

\* What Handoff, Succeed and Fail do to the status of the entries.
LEMMA ClosingFacts ==
    ASSUME TypeInv, JournalInv, PlanInv, NEW e \in Executors,
           Handoff(e) \/ Succeed(e) \/ Fail(e)
    PROVE  \E i \in Entries :
             /\ executor[e].entry = i /\ pending = i
             /\ Unresolved(i) /\ Unresolved(Root(i[1]))
             /\ UNCHANGED <<plan, step, effects>> /\ current' = {}
             /\ \A r \in Entries \ {i, Root(i[1])} : status'[r] = status[r]
             /\ Handoff(e) => /\ i = Prerequisite(i[1])
                              /\ status'[i] = "succeeded"
                              /\ status'[Root(i[1])] = status[Root(i[1])]
                              /\ step[<<i, 1>>] = "succeeded"
             /\ Succeed(e) => /\ i = Root(i[1]) /\ status'[i] = "succeeded"
                              /\ AllDone(i)
                              /\ status[Prerequisite(i[1])] \in {"absent", "succeeded"}
             /\ Fail(e) => /\ status'[i] = "failed"
                           /\ status'[Root(i[1])] = "failed"
                           /\ Refused(i) /\ NotPartial(i)
  <1>1. PICK i \in Entries : i = executor[e].entry
    BY FencedFacts DEF Handoff, Succeed, Fail
  <1>2. /\ pending = i /\ Unresolved(i)
        /\ UNCHANGED <<plan, step, effects>> /\ current' = {}
    BY <1>1, FencedFacts DEF Handoff, Succeed, Fail, Release, provider
  <1>3. /\ i[1] \in Operations /\ Root(i[1]) \in Entries
        /\ i = Root(i[1]) \/ i = Prerequisite(i[1])
    BY EntryFacts
  <1>4. Unresolved(Root(i[1]))
    BY <1>2, <1>3 DEF JournalInv, PrerequisiteFirst
  <1>5. ASSUME Handoff(e)
        PROVE  /\ i = Prerequisite(i[1]) /\ status'[i] = "succeeded"
               /\ \A r \in Entries \ {i} : status'[r] = status[r]
               /\ step[<<i, 1>>] = "succeeded"
    <2>1. i[2] = "customer" /\ step[<<i, 1>>] = "succeeded"
          /\ status' = [status EXCEPT ![i] = "succeeded"]
      BY <1>1, <1>5 DEF Handoff
    <2> QED
      BY <2>1, EntryFacts DEF TypeInv, TypeOK
  <1>6. ASSUME Succeed(e)
        PROVE  /\ i = Root(i[1]) /\ status'[i] = "succeeded" /\ AllDone(i)
               /\ \A r \in Entries \ {i} : status'[r] = status[r]
               /\ status[Prerequisite(i[1])] \in {"absent", "succeeded"}
    <2>1. /\ i[2] = "root" /\ AllDone(i)
          /\ status' = [status EXCEPT ![i] = "succeeded"]
          /\ status[Prerequisite(i[1])] \in {"absent", "succeeded"}
      BY <1>1, <1>6 DEF Succeed
    <2> QED
      BY <2>1, EntryFacts DEF TypeInv, TypeOK
  <1>7. ASSUME Fail(e)
        PROVE  /\ status'[i] = "failed" /\ status'[Root(i[1])] = "failed"
               /\ \A r \in Entries \ {i, Root(i[1])} : status'[r] = status[r]
               /\ Refused(i) /\ NotPartial(i)
    <2>1. /\ Refused(i) /\ NotPartial(i)
          /\ status' = [status EXCEPT ![i] = "failed", ![Root(i[1])] = "failed"]
      BY <1>1, <1>7 DEF Fail
    <2> QED
      BY <1>3, <2>1 DEF TypeInv, TypeOK
  <1>8. Handoff(e) => i # Root(i[1])
    BY <1>5, EntryFacts
  <1> QED
    BY <1>1, <1>2, <1>3, <1>4, <1>5, <1>6, <1>7, <1>8

LEMMA ShapeStep ==
    TypeInv /\ PlanInv /\ JournalInv /\ ShapeInv /\ [Next]_vars => ShapeInv'
  <1> SUFFICES ASSUME TypeInv, PlanInv, JournalInv, ShapeInv, [Next]_vars
               PROVE  ShapeInv'
    OBVIOUS
  <1>1. CASE UNCHANGED vars
    BY <1>1, ShapeStays DEF vars, profile, journal
  <1>2. CASE \E o \in Operations : Accept(o)
    BY <1>2, ShapeByAccept
  <1>3. CASE Environment /\ ~\E o \in Operations : Accept(o)
    BY <1>3, ShapeStays
    DEF Environment, LeaseExpires, WindowCloses, Late, Forget, SubscriptionWebhook,
        ReleaseWebhook, OwnerReserves, OwnerReleases, Subscribe, SubscriptionEnds, profile,
        journal
  <1>4. ASSUME NEW e \in Executors, ExecutorStep(e) PROVE ShapeInv'
    <2>1. CASE \E o \in Operations : Reserve(e, o)
      BY <2>1, ShapeByReserve
    <2>2. CASE \/ \E o \in Operations : Recover(e, o)
               \/ Claim(e) \/ Bind(e) \/ Lookup(e) \/ Dispatch(e)
               \/ Answered(e) \/ Unknown(e) \/ Stop(e)
      BY <2>2, ShapeStays
      DEF Recover, Claim, Bind, Lookup, Dispatch, Answered, Unknown, Stop, profile, journal
    <2>3. CASE Freeze(e)
      <3>1. PICK i \in Entries : i = executor[e].entry
        BY <2>3, FencedFacts DEF Freeze
      <3>2. PICK k \in Keys : k = NextStep(i)
        BY KeyFacts
      <3>3. Progress(k, "pending")
        BY <2>3, <3>1, <3>2, StepsProgress
      <3>4. k \in StepsOf(i) /\ k[1] = i /\ current' = current /\ bound' = bound
        BY <2>3, <3>1, <3>2, KeyFacts DEF Freeze, profile
      <3> QED
        BY <3>3, <3>4, ShapeByProgress
    <2>4. ASSUME NEW k \in Keys, NEW s, Progress(k, s), step[k] \in OpenStatuses,
                 current' = current, bound' = bound
          PROVE  ShapeInv'
      <3>1. k \in StepsOf(k[1])
        BY <2>4 DEF ShapeInv, Begun, OpenStatuses
      <3> QED
        BY <2>4, <3>1, ShapeByProgress
    <2>5. CASE MarkUncertain(e)
      <3>1. PICK k \in Keys : k = KeyOf(e)
        BY <2>5, StepsProgress
      <3>2. Progress(k, "reconciliation_required")
        BY <2>5, <3>1, StepsProgress
      <3>3. step[k] \in OpenStatuses /\ current' = current /\ bound' = bound
        BY <2>5, <3>1 DEF MarkUncertain, profile
      <3> QED
        BY <2>4, <3>2, <3>3
    <2>6. CASE RecordDone(e) \/ RecordRefused(e)
      <3>1. PICK s \in {"succeeded", "failed"} :
               Fenced(e, {"record", "verify", "reject"}) /\ RecordStep(e, s)
        BY <2>6 DEF RecordDone, RecordRefused, Fenced
      <3>2. PICK k \in Keys : k = KeyOf(e)
        BY <3>1, StepsProgress
      <3>3. Progress(k, s)
        BY <3>1, <3>2, StepsProgress
      <3>4. step[k] \in OpenStatuses /\ current' = current /\ bound' = bound
        BY <3>1, <3>2 DEF RecordStep, profile
      <3> QED
        BY <2>4, <3>3, <3>4
    <2>7. CASE Handoff(e) \/ Succeed(e) \/ Fail(e)
      <3>1. PICK i \in Entries :
             /\ Unresolved(i) /\ Unresolved(Root(i[1]))
             /\ UNCHANGED <<plan, step>> /\ current' = {}
             /\ \A r \in Entries \ {i, Root(i[1])} : status'[r] = status[r]
             /\ Handoff(e) => /\ i = Prerequisite(i[1])
                              /\ status'[i] = "succeeded"
                              /\ status'[Root(i[1])] = status[Root(i[1])]
                              /\ step[<<i, 1>>] = "succeeded"
             /\ Succeed(e) => /\ i = Root(i[1]) /\ status'[i] = "succeeded"
                              /\ status[Prerequisite(i[1])] \in {"absent", "succeeded"}
             /\ Fail(e) => status'[i] = "failed" /\ status'[Root(i[1])] = "failed"
        BY <2>7, ClosingFacts
      <3>2. status[i] # "absent" /\ status[Root(i[1])] # "absent"
        BY <3>1 DEF Unresolved, OpenStatuses
      <3>3. status'[i] # "absent" /\ status'[Root(i[1])] # "absent"
        BY <2>7, <3>1, <3>2
      <3>4. \A r \in Entries : status'[r] = "absent" <=> status[r] = "absent"
        BY <3>1, <3>2, <3>3
      <3>5. ASSUME NEW o \in Operations, status'[Prerequisite(o)] = "succeeded"
            PROVE  \/ status[Prerequisite(o)] = "succeeded"
                   \/ step[<<Prerequisite(o), 1>>] = "succeeded"
        <4>1. CASE Prerequisite(o) # i
          BY <3>1, <3>5, <4>1, EntryFacts
        <4>2. CASE Prerequisite(o) = i
          <5>1. i # Root(i[1])
            BY <4>2, EntryFacts
          <5> QED
            BY <2>7, <3>1, <3>5, <4>2, <5>1
        <4> QED
          BY <4>1, <4>2
      <3>6. ASSUME NEW o \in Operations, status'[Root(o)] = "succeeded"
            PROVE  status'[Prerequisite(o)] \in {"absent", "succeeded"}
        <4>1. CASE o # i[1]
          <5>1. Root(o) \in Entries \ {i, Root(i[1])}
                /\ Prerequisite(o) \in Entries \ {i, Root(i[1])}
            BY <4>1, EntryFacts
          <5> QED
            BY <3>1, <3>6, <5>1 DEF ShapeInv, CustomerMade
        <4>2. CASE o = i[1]
          <5>1. Succeed(e)
            BY <2>7, <3>1, <3>6, <4>2 DEF Unresolved, OpenStatuses
          <5>2. Prerequisite(o) \in Entries \ {i, Root(i[1])}
            BY <3>1, <4>2, <5>1, EntryFacts
          <5> QED
            BY <3>1, <4>2, <5>1, <5>2
        <4> QED
          BY <4>1, <4>2
      <3> QED
        BY <3>1, <3>4, <3>5, <3>6, ShapeByClosing
    <2> QED
      BY <1>4, <2>1, <2>2, <2>3, <2>5, <2>6, <2>7 DEF ExecutorStep
  <1> QED
    BY <1>1, <1>2, <1>3, <1>4 DEF Next

-----------------------------------------------------------------------------
(* The mapping.  Most steps change neither what the customer is told nor    *)
(* what was done.                                                          *)

Quiet == UNCHANGED <<Phase, Asked, Done>>
Progressed(i) ==
    \/ status'[i] = status[i]
    \/ Unresolved(i) /\ Unresolved(i)'
    \/ i[2] = "customer" /\ Unresolved(i) /\ status'[i] # "absent"

LEMMA QuietFacts ==
    ASSUME NEW o \in Operations,
           plan'[o] = plan[o] \/ status[Root(o)] = "absent",
           Progressed(Root(o)), Progressed(Prerequisite(o))
    PROVE  PhaseOf(o)' = PhaseOf(o) /\ AskedOf(o)' = AskedOf(o)
  <1>1. /\ status'[Root(o)] = "absent" <=> status[Root(o)] = "absent"
        /\ status'[Prerequisite(o)] = "absent" <=> status[Prerequisite(o)] = "absent"
        /\ \/ status'[Root(o)] = status[Root(o)]
           \/ Unresolved(Root(o)) /\ Unresolved(Root(o))'
    BY EntryFacts DEF Progressed, Unresolved, OpenStatuses
  <1>2. PhaseOf(o)' = PhaseOf(o)
    BY <1>1 DEF PhaseOf, Unresolved
  <1>3. plan'[o] = plan[o] => StepCount(Root(o))' = StepCount(Root(o))
    BY EntryFacts, StepsByPlan
  <1> QED
    BY <1>1, <1>2, <1>3 DEF AskedOf

LEMMA QuietStep ==
    ASSUME effects' = effects,
           \A o \in Operations : plan'[o] = plan[o] \/ status[Root(o)] = "absent",
           \A i \in Entries : Progressed(i)
    PROVE  Quiet
  <1>1. \A o \in Operations : PhaseOf(o)' = PhaseOf(o) /\ AskedOf(o)' = AskedOf(o)
    BY EntryFacts, QuietFacts
  <1>2. \A o \in Operations : DoneOf(o)' = DoneOf(o)
    BY DEF DoneOf
  <1> QED
    BY <1>1, <1>2 DEF Quiet, Phase, Asked, Done

-----------------------------------------------------------------------------
(* Do, Open and Close.                                                     *)

Shape == TypeInv /\ PlanInv /\ EffectInv /\ JournalInv /\ AnswerInv /\ ShapeInv

\* A step that is on its way or done is one of its entry's, which is
\* journaled.
LEMMA BegunFacts ==
    ASSUME Shape, NEW k \in Keys, step[k] # "absent"
    PROVE  /\ k \in StepsOf(k[1])
           /\ status[k[1]] # "absent"
           /\ status[Root(k[1][1])] # "absent"
  <1>1. k[1] \in Entries /\ k = <<k[1], k[2]>> /\ k[2] \in {1, 2}
    BY KeyFacts
  <1>2. status[k[1]] # "absent"
    BY <1>1 DEF Shape, JournalInv, FreshEntry, InOrder
  <1>3. /\ k[1][1] \in Operations
        /\ k[1] = Root(k[1][1]) \/ k[1] = Prerequisite(k[1][1])
    BY <1>1, EntryFacts
  <1>4. status[Root(k[1][1])] # "absent"
    BY <1>2, <1>3 DEF Shape, PlanInv, FreshInv
  <1> QED
    BY <1>2, <1>4 DEF Shape, ShapeInv, Begun

LEMMA EffectFacts ==
    ASSUME Shape, NEW k \in Keys
    PROVE  /\ effects[k] \in {0, 1}
           /\ effects[k] = 1 \/ InFlight(k) => step[k] # "absent"
  BY DEF Shape, TypeInv, TypeOK, EffectInv, AnswerInv, AskedInv

\* An operation's steps, counted: those at Stripe are among those asked for.
LEMMA Counted ==
    ASSUME Shape, NEW o \in Operations
    PROVE  /\ <<Root(o), 1>> \in Keys /\ <<Root(o), 2>> \in Keys
           /\ <<Prerequisite(o), 1>> \in Keys
           /\ StepCount(Root(o)) \in 0..2
           /\ \A n \in {1, 2} :
                /\ <<Root(o), n>> \in StepsOf(Root(o)) <=> n <= StepCount(Root(o))
                /\ effects[<<Root(o), n>>] \in {0, 1}
                /\ effects[<<Root(o), n>>] = 1 => n <= StepCount(Root(o))
           /\ effects[<<Prerequisite(o), 1>>] \in {0, 1}
           /\ effects[<<Prerequisite(o), 1>>] = 1 => status[Prerequisite(o)] # "absent"
           /\ (\E n \in {1, 2} : effects[<<Root(o), n>>] = 1) => status[Root(o)] # "absent"
           /\ effects[<<Prerequisite(o), 1>>] = 1 => status[Root(o)] # "absent"
  <1>1. Root(o) \in Entries /\ Prerequisite(o) \in Entries
        /\ Root(o)[1] = o /\ Prerequisite(o)[1] = o
    BY EntryFacts
  <1>2. StepCount(Root(o)) \in 0..2
    BY DEF StepCount
  <1>3. ASSUME NEW n \in {1, 2}
        PROVE  /\ <<Root(o), n>> \in StepsOf(Root(o)) <=> n <= StepCount(Root(o))
               /\ effects[<<Root(o), n>>] \in {0, 1}
               /\ effects[<<Root(o), n>>] = 1 => /\ n <= StepCount(Root(o))
                                                /\ status[Root(o)] # "absent"
    <2>1. PICK k \in Keys : k = <<Root(o), n>>
      BY <1>1, KeyFacts
    <2>2. k[1] = Root(o) /\ k[2] = n
      BY <2>1
    <2>3. k \in StepsOf(Root(o)) <=> n <= StepCount(Root(o))
      BY <2>2 DEF StepsOf
    <2>4. effects[k] \in {0, 1} /\ (effects[k] = 1 => step[k] # "absent")
      BY EffectFacts
    <2>5. step[k] # "absent" => k \in StepsOf(Root(o)) /\ status[Root(o)] # "absent"
      BY <2>2, BegunFacts
    <2> QED
      BY <2>1, <2>3, <2>4, <2>5
  <1>4. PICK p \in Keys : p = <<Prerequisite(o), 1>>
    BY <1>1, KeyFacts
  <1>5. /\ effects[p] \in {0, 1}
        /\ effects[p] = 1 => /\ status[Prerequisite(o)] # "absent"
                             /\ status[Root(o)] # "absent"
    BY <1>1, <1>4, EffectFacts, BegunFacts
  <1> QED
    BY <1>1, <1>2, <1>3, <1>4, <1>5, KeyFacts

\* A step that is on its way and not done is an open operation's.
LEMMA OpenWhileInFlight ==
    ASSUME Shape, NEW k \in Keys, InFlight(k), effects[k] = 0
    PROVE  PhaseOf(k[1][1]) = "open"
  <1>1. PICK o \in Operations : o = k[1][1]
    BY KeyFacts, EntryFacts
  <1>2. PICK i \in Entries : i = k[1]
    BY KeyFacts
  <1>3. i = Root(o) \/ i = Prerequisite(o)
    BY <1>1, <1>2, EntryFacts
  <1>4. step[k] # "absent" /\ step[k] # "failed" /\ step[k] # "succeeded"
    BY EffectFacts DEF Shape, AnswerInv, OutcomeInv
  <1>5. k \in StepsOf(i) /\ status[i] # "absent" /\ status[Root(o)] # "absent"
    BY <1>1, <1>2, <1>4, BegunFacts
  <1>6. k = <<i, 1>> \/ k = <<i, 2>>
    BY <1>2, KeyFacts
  <1>7. status[Root(o)] # "succeeded"
    <2> SUFFICES ASSUME status[Root(o)] = "succeeded" PROVE step[k] = "succeeded"
      BY <1>4
    <2>1. CASE i = Root(o)
      BY <1>5, <2>1 DEF Shape, JournalInv, SucceededAll, AllDone
    <2>2. CASE i = Prerequisite(o)
      <3>1. step[<<Prerequisite(o), 1>>] = "succeeded"
        BY <1>5, <2>2 DEF Shape, ShapeInv, CustomerMade
      <3>2. StepCount(i) = 1
        BY <2>2, EntryFacts DEF StepCount, ActionOf
      <3>3. k = <<i, 1>>
        BY <1>5, <1>6, <3>2 DEF StepsOf
      <3> QED
        BY <2>2, <3>1, <3>3
    <2> QED
      BY <1>3, <2>1, <2>2
  <1>8. status[Root(o)] # "failed"
    <2> SUFFICES ASSUME status[Root(o)] = "failed" PROVE step[k] \in {"absent", "failed"}
      BY <1>4
    <2>1. NothingSucceeded(i)
      BY <1>3 DEF Shape, JournalInv, FailedClean
    <2>2. step[<<i, 2>>] = "absent"
      BY <2>1 DEF Shape, JournalInv, InOrder, NothingSucceeded
    <2> QED
      BY <1>6, <2>1, <2>2 DEF NothingSucceeded
  <1>9. status[Root(o)] \in OpenStatuses
    BY <1>5, <1>7, <1>8, EntryFacts DEF Shape, TypeInv, TypeOK
  <1> QED
    BY <1>1, <1>9 DEF PhaseOf, Unresolved, OpenStatuses

\* Stripe handles a request: it does the step, an open operation's, or nothing.
LEMMA ContractByHandling ==
    ASSUME Shape, NEW k \in Keys, NEW a \in Answers, Handle(k, a), InFlight(k),
           UNCHANGED <<plan, status>>
    PROVE  Contract!Next \/ Quiet
  <1>1. CASE effects' = effects
    BY <1>1, QuietStep DEF Progressed
  <1>2. CASE kept[k] = "none" /\ Perform(k)
    <2>1. effects[k] = 0
      BY <1>2, EffectFacts DEF Shape, EffectInv
    <2>2. PICK o \in Operations : o = k[1][1]
      BY KeyFacts, EntryFacts
    <2>3. effects' = [effects EXCEPT ![k] = 1]
      BY <1>2, <2>1 DEF Perform
    <2>4. effects'[k] = 1 /\ \A j \in Keys \ {k} : effects'[j] = effects[j]
      BY <2>3 DEF Shape, TypeInv, TypeOK
    <2>5. step[k] # "absent" /\ k \in StepsOf(k[1]) /\ status[k[1]] # "absent"
          /\ status[Root(o)] # "absent"
      BY <2>2, EffectFacts, BegunFacts
    <2>6. \/ k = <<Root(o), 1>> \/ k = <<Root(o), 2>>
          \/ k = <<Prerequisite(o), 1>>
      <3>1. k[1] = Root(o) \/ k[1] = Prerequisite(o)
        BY <2>2, KeyFacts, EntryFacts
      <3>2. k = <<k[1], 1>> \/ k = <<k[1], 2>>
        BY KeyFacts
      <3>3. k[1] = Prerequisite(o) => StepCount(k[1]) = 1
        BY EntryFacts DEF StepCount, ActionOf
      <3>4. k[1] = Prerequisite(o) => k = <<k[1], 1>>
        BY <2>5, <3>2, <3>3 DEF StepsOf
      <3> QED
        BY <3>1, <3>2, <3>4
    <2>7. /\ <<Root(o), 1>> # <<Root(o), 2>>
          /\ <<Root(o), 1>> # <<Prerequisite(o), 1>>
          /\ <<Root(o), 2>> # <<Prerequisite(o), 1>>
      BY EntryFacts
    <2>8. DoneOf(o)' = DoneOf(o) + 1 /\ DoneOf(o) < AskedOf(o)
      <3>1. CASE k = <<Root(o), 1>>
        <4>1. 1 <= StepCount(Root(o))
          BY <2>5, <3>1, Counted
        <4> QED
          BY <2>1, <2>4, <2>5, <2>7, <3>1, <4>1, Counted DEF DoneOf, AskedOf
      <3>2. CASE k = <<Root(o), 2>>
        <4>1. 2 <= StepCount(Root(o))
          BY <2>5, <3>2, Counted
        <4> QED
          BY <2>1, <2>4, <2>5, <2>7, <3>2, <4>1, Counted DEF DoneOf, AskedOf
      <3>3. CASE k = <<Prerequisite(o), 1>>
        BY <2>1, <2>4, <2>5, <2>7, <3>3, Counted DEF DoneOf, AskedOf
      <3> QED
        BY <2>6, <3>1, <3>2, <3>3
    <2>9. ASSUME NEW p \in Operations, p # o PROVE DoneOf(p)' = DoneOf(p)
      <3>1. <<Root(p), 1>> # k /\ <<Root(p), 2>> # k /\ <<Prerequisite(p), 1>> # k
        BY <2>2, <2>9, EntryFacts
      <3> QED
        BY <2>4, <3>1, Counted DEF DoneOf
    <2>10. PhaseOf(o) = "open"
      BY <2>1, <2>2, OpenWhileInFlight
    <2>11. UNCHANGED <<Phase, Asked>>
      BY EntryFacts, QuietFacts DEF Progressed, Phase, Asked
    <2>12. Done' = [Done EXCEPT ![o] = @ + 1]
      BY <2>8, <2>9 DEF Done
    <2>13. Contract!Do(o)
      BY <2>8, <2>10, <2>11, <2>12 DEF Contract!Do, Phase, Asked, Done
    <2> QED
      BY <2>13 DEF Contract!Next
  <1> QED
    BY <1>1, <1>2 DEF Handle

\* Reserve opens an operation: no other is, and it takes at most two steps.
LEMMA ContractByReserve ==
    ASSUME Shape, ReservationHeld, NEW e \in Executors, NEW o \in Operations, Reserve(e, o)
    PROVE  Contract!Open(o)
  <1> DEFINE entry == IF plan[o] = "cancel" \/ "customer" \in bound
                      THEN Root(o) ELSE Prerequisite(o)
  <1>1. PICK i \in {Root(o), Prerequisite(o)} : i = entry
    OBVIOUS
  <1>2. /\ status' = [status EXCEPT ![Root(o)] = "pending", ![i] = "pending"]
        /\ plan' = plan /\ effects' = effects /\ pending = Null /\ o \in current
        /\ status[Root(o)] = "absent" /\ status[Prerequisite(o)] = "absent"
    BY <1>1 DEF Reserve, VersionIsCurrent, Unreserved, Shape, PlanInv, FreshInv, provider
  <1>3. /\ i \in Entries /\ Root(o) \in Entries /\ Prerequisite(o) \in Entries
        /\ Root(o) # Prerequisite(o)
    BY EntryFacts
  <1>4. /\ \A r \in Entries \ {i, Root(o)} : status'[r] = status[r]
        /\ status'[Root(o)] = "pending" /\ status'[i] = "pending"
    BY <1>2, <1>3 DEF Shape, TypeInv, TypeOK
  <1>5. \A p \in Operations : PhaseOf(p) # "open"
    <2> SUFFICES ASSUME NEW p \in Operations PROVE PhaseOf(p) # "open"
      OBVIOUS
    <2>1. ~Unresolved(Root(p))
      BY <1>2 DEF ReservationHeld, Root, Prerequisite
    <2>2. status[Root(p)] \in {"absent", "succeeded", "failed"}
      BY <2>1, EntryFacts DEF Shape, TypeInv, TypeOK, Unresolved, OpenStatuses
    <2> QED
      BY <2>1, <2>2 DEF PhaseOf
  <1>6. ASSUME NEW p \in Operations, p # o
        PROVE  PhaseOf(p)' = PhaseOf(p) /\ AskedOf(p)' = AskedOf(p)
    <2>1. /\ Root(p) \in Entries \ {i, Root(o)}
          /\ Prerequisite(p) \in Entries \ {i, Root(o)}
      BY <1>1, <1>6, EntryFacts
    <2> QED
      BY <1>2, <1>4, <2>1, QuietFacts DEF Progressed
  <1>7. PhaseOf(o) = "none" /\ PhaseOf(o)' = "open"
    BY <1>2, <1>4 DEF PhaseOf, Unresolved, OpenStatuses
  <1>8. AskedOf(o)' \in 0..2
    <2>1. StepCount(Root(o))' = StepCount(Root(o)) /\ StepCount(Root(o)) \in 0..2
      BY <1>2, <1>3, StepsByPlan, Counted
    <2>2. CASE i = Root(o)
      <3>1. status'[Prerequisite(o)] = "absent"
        BY <1>2, <1>3, <1>4, <2>2
      <3> QED
        BY <1>4, <2>1, <3>1 DEF AskedOf
    <2>3. CASE i = Prerequisite(o)
      <3>1. "customer" \notin bound
        BY <1>1, <1>3, <2>3
      <3>2. plan[o] # "schedule_downgrade"
        BY <1>2, <3>1 DEF Shape, ShapeInv, Lonely
      <3>3. StepCount(Root(o)) \in 0..1
        BY <3>2, EntryFacts DEF StepCount, ActionOf
      <3> QED
        BY <1>4, <2>1, <2>3, <3>3 DEF AskedOf
    <2> QED
      BY <2>2, <2>3
  <1>9. Phase' = [Phase EXCEPT ![o] = "open"]
    BY <1>6, <1>7 DEF Phase
  <1>10. PICK n \in 0..2 : n = AskedOf(o)'
    BY <1>8
  <1>11. Asked' = [Asked EXCEPT ![o] = n]
    BY <1>6, <1>10 DEF Asked
  <1>12. Done' = Done
    BY <1>2 DEF Done, DoneOf
  <1> QED
    BY <1>5, <1>7, <1>9, <1>10, <1>11, <1>12 DEF Contract!Open, Phase

\* Succeed and Fail close an operation, all done or nothing done.
LEMMA ContractByClosing ==
    ASSUME Shape, ReservationHeld, NEW e \in Executors, Succeed(e) \/ Fail(e),
           JournalInv'
    PROVE  Contract!Next
  <1>1. PICK i \in Entries :
             /\ Unresolved(i) /\ Unresolved(Root(i[1]))
             /\ UNCHANGED <<plan, step, effects>>
             /\ \A r \in Entries \ {i, Root(i[1])} : status'[r] = status[r]
             /\ Succeed(e) => /\ i = Root(i[1]) /\ status'[i] = "succeeded"
                              /\ AllDone(i)
                              /\ status[Prerequisite(i[1])] \in {"absent", "succeeded"}
             /\ Fail(e) => /\ status'[i] = "failed"
                           /\ status'[Root(i[1])] = "failed"
    BY ClosingFacts DEF Shape
  <1>2. PICK o \in Operations : o = i[1]
    BY EntryFacts
  <1>3. /\ Root(o) \in Entries /\ Prerequisite(o) \in Entries
        /\ Root(o) # Prerequisite(o) /\ i \in {Root(o), Prerequisite(o)}
    BY <1>2, EntryFacts
  <1>4. PICK s \in {"succeeded", "failed"} :
          /\ status'[Root(o)] = s /\ status'[i] = s
          /\ s = "succeeded" => Succeed(e)
    BY <1>1, <1>2
  <1>5. status[i] # "absent" /\ status[Root(o)] # "absent"
    BY <1>1, <1>2 DEF Unresolved, OpenStatuses
  <1>6. PhaseOf(o) = "open" /\ PhaseOf(o)' = s
    BY <1>1, <1>2, <1>4, <1>5 DEF PhaseOf, Unresolved, OpenStatuses
  <1>7. AskedOf(o)' = AskedOf(o)
    <2>1. StepCount(Root(o))' = StepCount(Root(o))
      BY <1>1, <1>3, StepsByPlan
    <2>2. status'[Prerequisite(o)] = "absent" <=> status[Prerequisite(o)] = "absent"
      <3>1. CASE i = Prerequisite(o)
        BY <1>4, <1>5, <3>1
      <3>2. CASE i = Root(o)
        BY <1>1, <1>2, <1>3, <3>2
      <3> QED
        BY <1>3, <3>1, <3>2
    <2> QED
      BY <1>4, <1>5, <2>1, <2>2 DEF AskedOf
  <1>8. ASSUME NEW p \in Operations, p # o
        PROVE  PhaseOf(p)' = PhaseOf(p) /\ AskedOf(p)' = AskedOf(p)
    <2>1. /\ Root(p) \in Entries \ {i, Root(o)}
          /\ Prerequisite(p) \in Entries \ {i, Root(o)}
      BY <1>3, <1>8, EntryFacts
    <2> QED
      BY <1>1, <1>2, <2>1, QuietFacts DEF Progressed
  <1>9. Phase' = [Phase EXCEPT ![o] = s]
    BY <1>6, <1>8 DEF Phase
  <1>10. UNCHANGED <<Asked, Done>>
    BY <1>1, <1>7, <1>8 DEF Asked, Done, DoneOf
  <1>11. CASE s = "succeeded"
    <2>1. /\ i = Root(o) /\ AllDone(Root(o))
          /\ status[Prerequisite(o)] \in {"absent", "succeeded"}
      BY <1>1, <1>2, <1>4, <1>11
    <2>2. ASSUME NEW n \in {1, 2}, n <= StepCount(Root(o))
          PROVE  effects[<<Root(o), n>>] = 1
      <3>1. PICK k \in Keys : k = <<Root(o), n>>
        BY <1>3, KeyFacts
      <3>2. step[k] = "succeeded"
        BY <2>1, <2>2, <3>1, Counted DEF AllDone
      <3> QED
        BY <3>1, <3>2, EffectFacts DEF Shape, AnswerInv, OutcomeInv
    <2>3. status[Prerequisite(o)] = "succeeded" => effects[<<Prerequisite(o), 1>>] = 1
      <3> SUFFICES ASSUME status[Prerequisite(o)] = "succeeded"
                   PROVE  effects[<<Prerequisite(o), 1>>] = 1
        OBVIOUS
      <3>1. PICK k \in Keys : k = <<Prerequisite(o), 1>>
        BY <1>3, KeyFacts
      <3>2. step[k] = "succeeded"
        BY <3>1 DEF Shape, ShapeInv, CustomerMade
      <3> QED
        BY <3>1, <3>2, EffectFacts DEF Shape, AnswerInv, OutcomeInv
    <2>4. DoneOf(o) = AskedOf(o)
      <3>1. PICK count \in 0..2 : count = StepCount(Root(o))
        BY Counted
      <3>2. /\ effects[<<Root(o), 1>>] = IF 1 <= count THEN 1 ELSE 0
            /\ effects[<<Root(o), 2>>] = IF 2 <= count THEN 1 ELSE 0
        BY <2>2, <3>1, Counted
      <3>3. effects[<<Prerequisite(o), 1>>] =
              IF status[Prerequisite(o)] = "absent" THEN 0 ELSE 1
        BY <2>1, <2>3, Counted
      <3> QED
        BY <1>5, <3>1, <3>2, <3>3 DEF DoneOf, AskedOf
    <2>5. Contract!Close(o)
      BY <1>6, <1>9, <1>10, <1>11, <2>4 DEF Contract!Close, Phase, Asked, Done
    <2> QED
      BY <2>5 DEF Contract!Next
  <1>12. CASE s = "failed"
    <2>1. NothingSucceeded(Root(o)) /\ NothingSucceeded(Prerequisite(o))
      BY <1>1, <1>4, <1>12 DEF JournalInv, FailedClean, NothingSucceeded
    <2>2. /\ effects[<<Root(o), 1>>] = 0 /\ effects[<<Root(o), 2>>] = 0
          /\ effects[<<Prerequisite(o), 1>>] = 0
      BY <1>3, <2>1, KeyFacts, NoEffect DEF Shape
    <2>3. DoneOf(o) = 0
      BY <2>2 DEF DoneOf
    <2>4. Contract!Close(o)
      BY <1>6, <1>9, <1>10, <1>12, <2>3 DEF Contract!Close, Phase, Done
    <2> QED
      BY <2>4 DEF Contract!Next
  <1> QED
    BY <1>4, <1>11, <1>12

LEMMA ContractByExecutor ==
    ASSUME Shape, ReservationHeld, JournalInv', NEW e \in Executors, ExecutorStep(e)
    PROVE  Contract!Next \/ Quiet
  <1>1. CASE \E o \in Operations : Reserve(e, o)
    BY <1>1, ContractByReserve DEF Contract!Next
  <1>2. CASE \/ \E o \in Operations : Recover(e, o)
             \/ Claim(e) \/ Bind(e) \/ Freeze(e) \/ Lookup(e) \/ Dispatch(e)
             \/ Unknown(e) \/ Stop(e)
    BY <1>2, QuietStep
    DEF Recover, Claim, Bind, Freeze, Lookup, Dispatch, Unknown, Stop, Progressed, profile,
        journal, provider
  <1>3. CASE Answered(e)
    <2>1. PICK k \in Keys : k = KeyOf(e)
      BY <1>3, RecordFacts DEF Answered, Shape, AtWork
    <2>2. PICK a \in Answers : Handle(k, a)
      BY <1>3, <2>1 DEF Answered
    <2>3. InFlight(k) /\ UNCHANGED <<plan, status>>
      BY <1>3, <2>1 DEF Answered, InFlight, Waiting, journal
    <2> QED
      BY <2>2, <2>3, ContractByHandling
  <1>4. CASE MarkUncertain(e) \/ RecordDone(e) \/ RecordRefused(e)
    <2>1. Fenced(e, {"uncertain", "refused", "record", "verify", "reject"})
      BY <1>4 DEF MarkUncertain, RecordDone, RecordRefused, Fenced
    <2>2. PICK i \in Entries : i = executor[e].entry
      BY <2>1, FencedFacts DEF Shape
    <2>3. Unresolved(i)
      BY <2>1, <2>2, FencedFacts DEF Shape
    <2>4. /\ status' = [status EXCEPT ![i] = "reconciliation_required"]
          /\ UNCHANGED <<plan, effects>>
      BY <1>4, <2>2 DEF MarkUncertain, RecordDone, RecordRefused, RecordStep, provider
    <2>5. \A r \in Entries : Progressed(r)
      BY <2>3, <2>4 DEF Progressed, Unresolved, OpenStatuses, Shape, TypeInv, TypeOK
    <2> QED
      BY <2>4, <2>5, QuietStep
  <1>5. CASE Handoff(e)
    <2>1. PICK i \in Entries :
             /\ Unresolved(i) /\ UNCHANGED <<plan, effects>>
             /\ \A r \in Entries \ {i, Root(i[1])} : status'[r] = status[r]
             /\ i = Prerequisite(i[1]) /\ status'[i] = "succeeded"
             /\ status'[Root(i[1])] = status[Root(i[1])]
      BY <1>5, ClosingFacts DEF Shape
    <2>2. i[2] = "customer"
      BY <2>1, EntryFacts
    <2>3. \A r \in Entries : Progressed(r)
      BY <2>1, <2>2 DEF Progressed
    <2> QED
      BY <2>1, <2>3, QuietStep
  <1>6. CASE Succeed(e) \/ Fail(e)
    BY <1>6, ContractByClosing
  <1> QED
    BY <1>1, <1>2, <1>3, <1>4, <1>5, <1>6 DEF ExecutorStep

LEMMA ContractStep ==
    Shape /\ ReservationHeld /\ [Next]_vars /\ JournalInv'
        => [Contract!Next]_<<Phase, Asked, Done>>
  <1> SUFFICES ASSUME Shape, ReservationHeld, [Next]_vars, JournalInv'
               PROVE  Contract!Next \/ Quiet
    BY DEF Quiet
  <1>1. CASE UNCHANGED vars
    BY <1>1, QuietStep DEF vars, journal, provider, Progressed
  <1>2. ASSUME NEW k \in Keys, Late(k) PROVE Contract!Next \/ Quiet
    <2>1. InFlight(k) /\ UNCHANGED <<plan, status>>
      BY <1>2 DEF Late, InFlight, journal
    <2>2. CASE \E a \in Answers : Handle(k, a)
      BY <2>1, <2>2, ContractByHandling
    <2>3. CASE effects' = effects
      BY <2>1, <2>3, QuietStep DEF Progressed
    <2> QED
      BY <1>2, <2>2, <2>3 DEF Late
  <1>3. CASE Environment /\ ~\E k \in Keys : Late(k)
    <2>1. /\ UNCHANGED <<status, effects>>
          /\ \A o \in Operations : plan'[o] = plan[o] \/ status[Root(o)] = "absent"
      BY <1>3
      DEF Environment, Accept, LeaseExpires, WindowCloses, Forget, SubscriptionWebhook,
          ReleaseWebhook, OwnerReserves, OwnerReleases, Subscribe, SubscriptionEnds,
          journal, provider, Shape, TypeInv, TypeOK
    <2> QED
      BY <2>1, QuietStep DEF Progressed
  <1>4. ASSUME NEW e \in Executors, ExecutorStep(e) PROVE Contract!Next \/ Quiet
    BY <1>4, ContractByExecutor
  <1> QED
    BY <1>1, <1>2, <1>3, <1>4 DEF Next

\* The journal implements what it promises the customer: one operation at a
\* time, its steps done once and only while it is open, reported done when all
\* of them are and failed when none is (KeepsContract; the coordinator).
THEOREM JournalKeepsContract == Spec => KeepsContract
  <1>1. Init => PlanInv /\ ReservationHeld
    BY EntryFacts DEF Init, PlanInv, CurrentInv, FreshInv, PlanFitsBinding,
                      ReservationHeld, Unresolved, OpenStatuses
  <1>2. Init => ShapeInv /\ Contract!Init
    <2> SUFFICES ASSUME Init PROVE ShapeInv /\ Contract!Init
      OBVIOUS
    <2>1. /\ \A i \in Entries : status[i] = "absent"
          /\ \A k \in Keys : step[k] = "absent" /\ effects[k] = 0
          /\ current = {}
      BY DEF Init
    <2>2. ShapeInv
      BY <2>1, EntryFacts DEF ShapeInv, Begun, CustomerMade, Lonely
    <2>3. ASSUME NEW o \in Operations
          PROVE  PhaseOf(o) = "none" /\ AskedOf(o) = 0 /\ DoneOf(o) = 0
      <3>1. status[Root(o)] = "absent"
        BY <2>1, EntryFacts
      <3>2. /\ <<Root(o), 1>> \in Keys /\ <<Root(o), 2>> \in Keys
            /\ <<Prerequisite(o), 1>> \in Keys
        BY EntryFacts, KeyFacts
      <3>3. PhaseOf(o) = "none" /\ AskedOf(o) = 0
        BY <3>1 DEF PhaseOf, AskedOf
      <3>4. DoneOf(o) = 0
        BY <2>1, <3>2 DEF DoneOf
      <3> QED
        BY <3>3, <3>4
    <2> QED
      BY <2>2, <2>3 DEF Contract!Init, Phase, Asked, Done
  <1> DEFINE Inv == Shape /\ ReservationHeld
  <1>3. Init => Inv
    BY <1>1, <1>2, TypedInit, EffectInit, JournalInit, AnswerInit DEF Shape
  <1>4. Inv /\ [Next]_vars => Inv' /\ JournalInv'
    BY TypedStep, PlanStep, HeldStep, EffectStep, JournalStep, AnswerStep, ShapeStep
    DEF Shape
  <1>5. Inv /\ [Next]_vars => [Contract!Next]_<<Phase, Asked, Done>>
    BY <1>4, ContractStep
  <1>6. Init => Contract!Init
    BY <1>2
  <1> HIDE DEF Inv
  <1> QED
    BY <1>3, <1>4, <1>5, <1>6, PTL DEF Spec, KeepsContract, Contract!Spec
=============================================================================
