------------------------ MODULE WebhookLedgerProofs ------------------------
(***************************************************************************)
(* WebhookLedger for any events, handlers, subscriptions, versions and     *)
(* faults: an event is reconciled at most once, what is settled is         *)
(* reflected, projections never go back, and only what is settled is       *)
(* acknowledged.                                                           *)
(***************************************************************************)
EXTENDS WebhookLedger, TLAPS

USE WebhookAssumption

-----------------------------------------------------------------------------
(* The inductive invariant.                                                *)

\* A request carries the event it was delivered, and is where its kind goes.
Carries(h) ==
    LET r == handler[h] IN
    /\ r.pc = "idle" => r.event = Null
    /\ r.pc # "idle" =>
          /\ r.sub \in Subscriptions
          /\ provider[r.sub].version > 0
          /\ r.event = Null => r.kind = "checkout"
    /\ r.pc \in {"claim", "refused", "finish"} => r.event # Null
    /\ r.pc = "finish" => r.kind = "other"
    /\ r.pc \in {"lock", "observe", "fence", "commit"} => r.kind # "other"
    /\ r.pc = "reply" /\ r.event # Null => Settled(r.event)
    /\ r.event # Null => /\ emitted[r.event] # NotEmitted
                         /\ r.kind = emitted[r.event].kind
                         /\ r.sub = emitted[r.event].sub

HandlerInv == \A h \in Handlers : Carries(h)

\* The tenant's lock: one transaction at a time.
OneTransaction ==
    \A g, h \in Handlers : InTransaction(g) /\ InTransaction(h) => g = h

\* Nothing is known of a version the provider does not have.
VersionInv ==
    /\ profile.sub = Null => profile.version = 0
    /\ profile.sub # Null => profile.version <= provider[profile.sub].version
    /\ \A s \in Subscriptions : risk[s] <= provider[s].version
    /\ \A e \in Events : emitted[e] # NotEmitted =>
          emitted[e].version <= provider[emitted[e].sub].version

\* What a transaction observed is not older than the event that made it
\* look, nor than anything projected so far.
Fresh(h) ==
    LET r == handler[h] IN
    r.pc \in {"fence", "commit"} =>
        /\ r.sees <= provider[r.sub].version
        /\ r.sees > 0 /\ r.event # Null => r.sees >= emitted[r.event].version
        /\ r.kind = "risk" => r.sees > 0 /\ r.sees >= risk[r.sub]
        /\ r.kind # "risk" => (r.sees > 0 <=> Bound(r.sub))
        /\ profile.sub = r.sub => r.sees >= profile.version

SeesInv == \A h \in Handlers : Fresh(h)

\* An event nobody emitted has no row.
LedgerInv == \A e \in Events : emitted[e] = NotEmitted => ledger[e].status = "none"

\* Before a subscription is bound, no event about one has been settled.
UnboundInv ==
    profile.sub = Null =>
        \A e \in Events : emitted[e].kind \in {"checkout", "subscription"} => ~Settled(e)

IInv ==
    /\ TypeOK /\ HandlerInv /\ OneTransaction /\ VersionInv /\ SeesInv
    /\ LedgerInv /\ UnboundInv /\ AppliedOnce /\ SettledIsReflected /\ AckedIsSettled
-----------------------------------------------------------------------------
(* Records of handlers and rows.                                           *)

\* Goto moves one request and leaves what it carries as it is.
LEMMA GotoMoves ==
    ASSUME handler \in [Handlers -> HandlerRecord], NEW h \in Handlers,
           NEW step \in Steps, Goto(h, step)
    PROVE  /\ handler' \in [Handlers -> HandlerRecord]
           /\ handler'[h].pc = step
           /\ \A g \in Handlers :
                 /\ g # h => handler'[g] = handler[g]
                 /\ handler'[g].event = handler[g].event
                 /\ handler'[g].kind = handler[g].kind
                 /\ handler'[g].sub = handler[g].sub
                 /\ handler'[g].sees = handler[g].sees
  <1> DEFINE moved == [handler[h] EXCEPT !.pc = step]
  <1>1. handler' = [handler EXCEPT ![h] = moved]
    BY DEF Goto
  <1>2. /\ moved \in HandlerRecord
        /\ moved.pc = step
        /\ moved.event = handler[h].event
        /\ moved.kind = handler[h].kind
        /\ moved.sub = handler[h].sub
        /\ moved.sees = handler[h].sees
    BY DEF HandlerRecord
  <1> QED
    BY <1>1, <1>2, Zenon

\* A request that is answered carries nothing.
LEMMA IdleMoves ==
    ASSUME handler \in [Handlers -> HandlerRecord], NEW h \in Handlers,
           handler' = [handler EXCEPT ![h] = IdleHandler]
    PROVE  /\ handler' \in [Handlers -> HandlerRecord]
           /\ handler'[h].pc = "idle"
           /\ handler'[h].event = Null
           /\ \A g \in Handlers : g # h => handler'[g] = handler[g]
  <1>1. IdleHandler \in HandlerRecord
    BY DEF IdleHandler, HandlerRecord, Steps, Kinds, Versions
  <1> QED
    BY <1>1 DEF IdleHandler

\* Rows are rows.
LEMMA RowsAreRows ==
    /\ \A status \in {"none", "received", "failed"} \cup Terminal :
          /\ Unleased(status) \in Row
          /\ Unleased(status).status = status
    /\ \A h \in Handlers :
          [status |-> "processing", token |-> h, lease |-> "live"] \in Row
  BY DEF Unleased, Row, Terminal

-----------------------------------------------------------------------------
(* What a step may leave to the others.                                    *)

\* A step of h that projects only in its transaction, unsettles nothing and
\* enters a transaction only when there is none, keeps what the other
\* requests carry and saw.
LEMMA OthersKeep ==
    ASSUME TypeOK, HandlerInv, OneTransaction, SeesInv, NEW h \in Handlers,
           \A g \in Handlers : g # h => handler'[g] = handler[g],
           UNCHANGED <<provider, emitted>>,
           \A e \in Events : Settled(e) => Settled(e)',
           UNCHANGED <<profile, risk>> \/ InTransaction(h),
           Carries(h)', Fresh(h)',
           InTransaction(h)' => InTransaction(h) \/ LockFree
    PROVE  HandlerInv' /\ OneTransaction' /\ SeesInv'
  <1>1. HandlerInv'
    <2> SUFFICES ASSUME NEW g \in Handlers PROVE Carries(g)'
      BY DEF HandlerInv
    <2>1. CASE g # h
      <3>1. Carries(g) /\ handler'[g] = handler[g]
        BY <2>1 DEF HandlerInv
      <3>2. handler[g].event \in Events \cup {Null}
        BY DEF TypeOK, HandlerRecord
      <3> QED
        BY <3>1, <3>2 DEF Carries
    <2> QED
      BY <2>1
  <1>2. OneTransaction'
    BY DEF OneTransaction, InTransaction, LockFree
  <1>3. SeesInv'
    <2> SUFFICES ASSUME NEW g \in Handlers PROVE Fresh(g)'
      BY DEF SeesInv
    <2>1. CASE g # h /\ UNCHANGED <<profile, risk>>
      BY <2>1 DEF SeesInv, Fresh, Bound
    <2>2. CASE g # h /\ InTransaction(h)
      BY <2>2 DEF OneTransaction, InTransaction, Fresh
    <2> QED
      BY <2>1, <2>2
  <1> QED
    BY <1>1, <1>2, <1>3

\* Changing rows that are not settled, of events that were emitted, keeps the
\* data's invariants, if only an event without a reconciliation is settled.
LEMMA RowsKeep ==
    ASSUME TypeOK, VersionInv, LedgerInv, UnboundInv, AppliedOnce, SettledIsReflected,
           UNCHANGED <<provider, emitted, profile, risk, applied>>,
           \A e \in Events :
               \/ ledger'[e] = ledger[e]
               \/ /\ emitted[e] # NotEmitted
                  /\ ~Settled(e)
                  /\ Settled(e)' => emitted[e].kind = "other"
    PROVE  /\ VersionInv' /\ LedgerInv' /\ UnboundInv' /\ AppliedOnce'
           /\ SettledIsReflected'
           /\ \A e \in Events : Settled(e) => Settled(e)'
  <1>1. VersionInv' /\ LedgerInv'
    BY DEF VersionInv, LedgerInv
  <1>2. UnboundInv'
    BY DEF UnboundInv, Settled
  <1>3. AppliedOnce'
    <2> SUFFICES ASSUME NEW e \in Events
                 PROVE  /\ applied[e] <= 1
                        /\ applied[e] = 1 => ledger'[e].status = "processed"
                        /\ ledger'[e].status = "processed" /\ emitted[e].kind # "other"
                              => applied[e] = 1
      BY DEF AppliedOnce
    <2> QED
      BY DEF AppliedOnce, Settled, Terminal
  <1>4. SettledIsReflected'
    BY DEF SettledIsReflected, Settled, Reflected
  <1> QED
    BY <1>1, <1>2, <1>3, <1>4 DEF Settled

-----------------------------------------------------------------------------
(* Steps of requests that touch no data.                                   *)

\* A step that only moves h, and may acknowledge a settled event.
LEMMA MovesKeep ==
    ASSUME IInv, NEW h \in Handlers,
           handler' \in [Handlers -> HandlerRecord],
           \A g \in Handlers : g # h => handler'[g] = handler[g],
           UNCHANGED <<provider, emitted, ledger, profile, risk, applied>>,
           \A e \in acked' : e \in acked \/ (e \in Events /\ Settled(e)),
           faults' \in 0..MaxFaults,
           Carries(h)', Fresh(h)',
           InTransaction(h)' => InTransaction(h) \/ LockFree
    PROVE  IInv'
  <1>1. TypeOK'
    BY DEF IInv, TypeOK
  <1>2. HandlerInv' /\ OneTransaction' /\ SeesInv'
    BY OthersKeep DEF IInv, Settled
  <1>3. VersionInv' /\ LedgerInv' /\ UnboundInv' /\ AppliedOnce' /\ SettledIsReflected'
    BY RowsKeep DEF IInv
  <1>4. AckedIsSettled'
    BY DEF IInv, AckedIsSettled, Settled
  <1> QED
    BY <1>1, <1>2, <1>3, <1>4 DEF IInv

LEMMA RefuseKeeps ==
    ASSUME IInv, NEW h \in Handlers, Refuse(h)
    PROVE  IInv'
  <1>1. /\ handler' \in [Handlers -> HandlerRecord]
        /\ handler'[h].pc = "idle"
        /\ handler'[h].event = Null
        /\ \A g \in Handlers : g # h => handler'[g] = handler[g]
    BY IdleMoves DEF IInv, TypeOK, Refuse
  <1>2. handler[h].event \in Events
    BY DEF IInv, TypeOK, HandlerRecord, HandlerInv, Carries, Refuse
  <1>3. \A e \in acked' : e \in acked \/ (e \in Events /\ Settled(e))
    BY <1>2 DEF Refuse, Deduped, Settled
  <1>4. Carries(h)' /\ Fresh(h)' /\ ~InTransaction(h)'
    BY <1>1 DEF Carries, Fresh, InTransaction
  <1> QED
    BY <1>1, <1>3, <1>4, MovesKeep DEF Refuse, IInv, TypeOK

LEMMA ReplyKeeps ==
    ASSUME IInv, NEW h \in Handlers, Reply(h)
    PROVE  IInv'
  <1>1. /\ handler' \in [Handlers -> HandlerRecord]
        /\ handler'[h].pc = "idle"
        /\ handler'[h].event = Null
        /\ \A g \in Handlers : g # h => handler'[g] = handler[g]
    BY IdleMoves DEF IInv, TypeOK, Reply
  <1>2. \A e \in acked' : e \in acked \/ (e \in Events /\ Settled(e))
    BY DEF IInv, TypeOK, HandlerRecord, HandlerInv, Carries, Reply
  <1>3. Carries(h)' /\ Fresh(h)' /\ ~InTransaction(h)'
    BY <1>1 DEF Carries, Fresh, InTransaction
  <1> QED
    BY <1>1, <1>2, <1>3, MovesKeep DEF Reply, IInv, TypeOK

LEMMA DieKeeps ==
    ASSUME IInv, NEW h \in Handlers, Die(h)
    PROVE  IInv'
  <1>1. /\ handler' \in [Handlers -> HandlerRecord]
        /\ handler'[h].pc = "idle"
        /\ handler'[h].event = Null
        /\ \A g \in Handlers : g # h => handler'[g] = handler[g]
    BY IdleMoves DEF IInv, TypeOK, Die
  <1>2. Carries(h)' /\ Fresh(h)' /\ ~InTransaction(h)'
    BY <1>1 DEF Carries, Fresh, InTransaction
  <1>3. faults' \in 0..MaxFaults
    BY DEF Die, Fault, IInv, TypeOK
  <1> QED
    BY <1>1, <1>2, <1>3, MovesKeep DEF Die

LEMMA VisitKeeps ==
    ASSUME IInv, NEW h \in Handlers, NEW s \in Subscriptions, VisitSuccessPage(h, s)
    PROVE  IInv'
  <1> DEFINE visit == [pc |-> "lock", event |-> Null, kind |-> "checkout",
                       sub |-> s, sees |-> 0]
  <1>1. visit \in HandlerRecord
    BY DEF HandlerRecord, Steps, Kinds, Versions
  <1>2. /\ handler' \in [Handlers -> HandlerRecord]
        /\ handler'[h] = visit
        /\ \A g \in Handlers : g # h => handler'[g] = handler[g]
    BY <1>1 DEF IInv, TypeOK, VisitSuccessPage
  <1>3. Carries(h)' /\ Fresh(h)' /\ ~InTransaction(h)'
    BY <1>2 DEF Carries, Fresh, InTransaction, VisitSuccessPage
  <1> QED
    BY <1>2, <1>3, MovesKeep DEF VisitSuccessPage, IInv, TypeOK

LEMMA LockKeeps ==
    ASSUME IInv, NEW h \in Handlers, Lock(h)
    PROVE  IInv'
  <1>1. "observe" \in Steps
    BY DEF Steps
  <1>2. /\ handler' \in [Handlers -> HandlerRecord]
        /\ handler'[h].pc = "observe"
        /\ handler'[h].event = handler[h].event
        /\ handler'[h].kind = handler[h].kind
        /\ handler'[h].sub = handler[h].sub
        /\ \A g \in Handlers : g # h => handler'[g] = handler[g]
    BY <1>1, GotoMoves DEF IInv, TypeOK, Lock
  <1>3. Carries(h)' /\ Fresh(h)'
    BY <1>2 DEF IInv, HandlerInv, Carries, Fresh, Lock
  <1> QED
    BY <1>2, <1>3, MovesKeep DEF Lock, IInv, TypeOK

LEMMA FenceKeeps ==
    ASSUME IInv, NEW h \in Handlers, Fence(h)
    PROVE  IInv'
  <1>1. PICK step \in {"commit", "fail"} : Goto(h, step)
    BY DEF Fence
  <1>2. /\ handler' \in [Handlers -> HandlerRecord]
        /\ handler'[h].pc = step
        /\ handler'[h].event = handler[h].event
        /\ handler'[h].kind = handler[h].kind
        /\ handler'[h].sub = handler[h].sub
        /\ handler'[h].sees = handler[h].sees
        /\ \A g \in Handlers : g # h => handler'[g] = handler[g]
    BY <1>1, GotoMoves DEF IInv, TypeOK, Steps
  <1>3. Carries(h)'
    BY <1>2 DEF IInv, HandlerInv, Carries, Fence
  <1>4. Fresh(h)'
    BY <1>2 DEF IInv, SeesInv, Fresh, Bound, Fence
  <1>5. InTransaction(h)
    BY DEF InTransaction, Fence
  <1> QED
    BY <1>2, <1>3, <1>4, <1>5, MovesKeep DEF Fence, IInv, TypeOK

LEMMA CallFailsKeeps ==
    ASSUME IInv, NEW h \in Handlers, CallFails(h)
    PROVE  IInv'
  <1>1. "fail" \in Steps
    BY DEF Steps
  <1>2. /\ handler' \in [Handlers -> HandlerRecord]
        /\ handler'[h].pc = "fail"
        /\ handler'[h].event = handler[h].event
        /\ handler'[h].kind = handler[h].kind
        /\ handler'[h].sub = handler[h].sub
        /\ \A g \in Handlers : g # h => handler'[g] = handler[g]
    BY <1>1, GotoMoves DEF IInv, TypeOK, CallFails
  <1>3. Carries(h)' /\ Fresh(h)' /\ ~InTransaction(h)'
    BY <1>2 DEF IInv, HandlerInv, Carries, Fresh, InTransaction, CallFails
  <1>4. faults' \in 0..MaxFaults
    BY DEF CallFails, Fault, IInv, TypeOK
  <1> QED
    BY <1>2, <1>3, <1>4, MovesKeep DEF CallFails

LEMMA ObserveKeeps ==
    ASSUME IInv, NEW h \in Handlers, Observe(h)
    PROVE  IInv'
  <1> DEFINE r == handler[h]
             conflicts == r.kind = "checkout" /\ Conflict(r.sub)
             sees == IF r.kind = "risk" \/ Bound(r.sub) THEN Current(h) ELSE 0
  <1>1. /\ r \in HandlerRecord /\ r.sub \in Subscriptions
        /\ r.event \in Events \cup {Null} /\ r.pc = "observe"
        /\ Carries(h)
    BY DEF IInv, TypeOK, HandlerRecord, HandlerInv, Carries, Observe
  <1>2. InTransaction(h)
    BY <1>1 DEF InTransaction
  <1>3. CASE conflicts
    <2>1. Goto(h, "fail") /\ "fail" \in Steps
      BY <1>3 DEF Observe, Steps
    <2>2. /\ handler' \in [Handlers -> HandlerRecord]
          /\ handler'[h].pc = "fail"
          /\ handler'[h].event = r.event
          /\ handler'[h].kind = r.kind
          /\ handler'[h].sub = r.sub
          /\ \A g \in Handlers : g # h => handler'[g] = handler[g]
      BY <2>1, GotoMoves DEF IInv, TypeOK
    <2>3. Carries(h)' /\ Fresh(h)' /\ ~InTransaction(h)'
      BY <1>1, <2>2 DEF Carries, Fresh, InTransaction, Observe
    <2> QED
      BY <2>2, <2>3, MovesKeep DEF Observe, IInv, TypeOK
  <1>4. CASE ~conflicts
    <2>1. sees \in Versions /\ provider[r.sub].version \in Versions
      BY <1>1 DEF IInv, TypeOK, Current, Versions
    <2>2. handler' = [handler EXCEPT ![h].pc = "fence", ![h].sees = sees]
      BY <1>4 DEF Observe
    <2>3. /\ handler' \in [Handlers -> HandlerRecord]
          /\ handler'[h].pc = "fence"
          /\ handler'[h].event = r.event
          /\ handler'[h].kind = r.kind
          /\ handler'[h].sub = r.sub
          /\ handler'[h].sees = sees
          /\ \A g \in Handlers : g # h => handler'[g] = handler[g]
      BY <1>1, <2>1, <2>2 DEF IInv, TypeOK, HandlerRecord, Steps
    <2>4. Carries(h)'
      BY <1>1, <2>3 DEF Carries, Observe
    <2>5. Fresh(h)'
      <3>1. provider[r.sub].version > 0 /\ risk[r.sub] <= provider[r.sub].version
        BY <1>1 DEF IInv, Carries, VersionInv
      <3>2. r.event # Null => emitted[r.event].version <= provider[r.sub].version
        BY <1>1 DEF IInv, Carries, VersionInv
      <3>3. profile.sub = r.sub => Bound(r.sub) /\ profile.version <= provider[r.sub].version
        BY <1>1 DEF IInv, VersionInv, Bound
      <3>4. profile.sub = handler'[h].sub <=> profile.sub = r.sub
        BY <2>3
      <3>5. /\ provider' = provider /\ profile' = profile /\ risk' = risk
            /\ emitted' = emitted
        BY DEF Observe
      <3>6. sees = IF r.kind = "risk" \/ Bound(r.sub)
                   THEN provider[r.sub].version ELSE 0
        BY DEF Current
      <3> QED
        BY <2>1, <2>3, <3>1, <3>2, <3>3, <3>4, <3>5, <3>6 DEF Fresh, Versions, Bound
    <2> QED
      BY <1>2, <2>3, <2>4, <2>5, MovesKeep DEF Observe, IInv, TypeOK
  <1> QED
    BY <1>3, <1>4

-----------------------------------------------------------------------------
(* Steps that write a row.                                                 *)

\* A step of h that writes the row of its event, and settles it only if the
\* event needs no reconciliation.
LEMMA RowMovesKeep ==
    ASSUME IInv, NEW h \in Handlers, NEW e \in Events, NEW row \in Row,
           ledger' = [ledger EXCEPT ![e] = row],
           emitted[e] # NotEmitted, ~Settled(e),
           row.status \in Terminal => emitted[e].kind = "other",
           handler' \in [Handlers -> HandlerRecord],
           \A g \in Handlers : g # h => handler'[g] = handler[g],
           UNCHANGED <<provider, emitted, acked, profile, risk, applied>>,
           faults' \in 0..MaxFaults,
           Carries(h)', Fresh(h)', ~InTransaction(h)'
    PROVE  IInv'
  <1>1. /\ ledger' \in [Events -> Row]
        /\ ledger'[e] = row
        /\ \A d \in Events : d # e => ledger'[d] = ledger[d]
    BY DEF IInv, TypeOK
  <1>2. TypeOK'
    BY <1>1 DEF IInv, TypeOK
  <1>3. /\ VersionInv' /\ LedgerInv' /\ UnboundInv' /\ AppliedOnce'
        /\ SettledIsReflected'
        /\ \A d \in Events : Settled(d) => Settled(d)'
    BY <1>1, RowsKeep DEF IInv, Settled
  <1>4. HandlerInv' /\ OneTransaction' /\ SeesInv'
    BY <1>3, OthersKeep DEF IInv
  <1>5. AckedIsSettled'
    BY <1>3 DEF IInv, TypeOK, AckedIsSettled
  <1> QED
    BY <1>2, <1>3, <1>4, <1>5 DEF IInv

LEMMA DeliverKeeps ==
    ASSUME IInv, NEW h \in Handlers, NEW e \in Events, Deliver(h, e)
    PROVE  IInv'
  <1> DEFINE visit == [pc |-> "claim", event |-> e, kind |-> emitted[e].kind,
                       sub |-> emitted[e].sub, sees |-> 0]
  <1>1. /\ emitted[e] \in About /\ emitted[e] # NotEmitted
        /\ emitted[e].version <= provider[emitted[e].sub].version
    BY DEF Deliver, IInv, TypeOK, VersionInv
  <1>2. /\ emitted[e].kind \in Kinds /\ emitted[e].sub \in Subscriptions
        /\ emitted[e].version \in 1..MaxVersion
        /\ provider[emitted[e].sub].version \in Versions
    BY <1>1 DEF About, IInv, TypeOK
  <1>3. visit \in HandlerRecord
    BY <1>2 DEF HandlerRecord, Steps, Versions
  <1>4. /\ handler' \in [Handlers -> HandlerRecord]
        /\ handler'[h] = visit
        /\ \A g \in Handlers : g # h => handler'[g] = handler[g]
    BY <1>3 DEF IInv, TypeOK, Deliver
  <1>5. Carries(h)' /\ Fresh(h)' /\ ~InTransaction(h)'
    BY <1>1, <1>2, <1>4 DEF Carries, Fresh, InTransaction, Deliver, Versions
  <1>6. faults' \in 0..MaxFaults
    BY DEF Deliver, Fault, IInv, TypeOK
  <1>7. CASE ledger[e].status = "none"
    <2>1. ledger' = [ledger EXCEPT ![e] = Unleased("received")]
      BY <1>7 DEF Deliver
    <2>2. /\ Unleased("received") \in Row
          /\ Unleased("received").status \notin Terminal
      BY RowsAreRows DEF Terminal
    <2>3. ~Settled(e)
      BY <1>7 DEF Settled, Terminal
    <2> QED
      BY <1>1, <1>4, <1>5, <1>6, <2>1, <2>2, <2>3, RowMovesKeep DEF Deliver
  <1>8. CASE ledger[e].status # "none"
    BY <1>4, <1>5, <1>6, <1>8, MovesKeep DEF Deliver
  <1> QED
    BY <1>7, <1>8

LEMMA ClaimKeeps ==
    ASSUME IInv, NEW h \in Handlers, Claim(h)
    PROVE  IInv'
  <1> DEFINE r == handler[h]
             row == [status |-> "processing", token |-> h, lease |-> "live"]
  <1>1. /\ r.event \in Events /\ emitted[r.event] # NotEmitted /\ Carries(h)
        /\ r.kind = emitted[r.event].kind
    BY DEF IInv, TypeOK, HandlerRecord, HandlerInv, Carries, Claim
  <1>2. PICK step \in {"finish", "lock", "refused"} :
           /\ Goto(h, step)
           /\ step = "finish" => r.kind = "other"
           /\ step = "lock" => r.kind # "other"
    BY DEF Claim
  <1>3. /\ handler' \in [Handlers -> HandlerRecord]
        /\ handler'[h].pc = step
        /\ handler'[h].event = r.event
        /\ handler'[h].kind = r.kind
        /\ handler'[h].sub = r.sub
        /\ \A g \in Handlers : g # h => handler'[g] = handler[g]
    BY <1>2, GotoMoves DEF IInv, TypeOK, Steps
  <1>4. Carries(h)' /\ Fresh(h)' /\ ~InTransaction(h)'
    BY <1>1, <1>2, <1>3 DEF Carries, Fresh, InTransaction, Claim
  <1>5. CASE Claimable(ledger[r.event])
    <2>1. ledger' = [ledger EXCEPT ![r.event] = row]
      BY <1>5 DEF Claim
    <2>2. row \in Row /\ row.status \notin Terminal
      BY RowsAreRows DEF Terminal
    <2>3. ~Settled(r.event)
      BY <1>5 DEF Claimable, Settled, Terminal
    <2> QED
      BY <1>1, <1>3, <1>4, <2>1, <2>2, <2>3, RowMovesKeep DEF Claim, IInv, TypeOK
  <1>6. CASE ~Claimable(ledger[r.event])
    BY <1>3, <1>4, <1>6, MovesKeep DEF Claim, IInv, TypeOK
  <1> QED
    BY <1>5, <1>6

LEMMA FinishKeeps ==
    ASSUME IInv, NEW h \in Handlers, Finish(h)
    PROVE  IInv'
  <1> DEFINE r == handler[h]
  <1>1. /\ r.event \in Events /\ emitted[r.event] # NotEmitted /\ Carries(h)
        /\ emitted[r.event].kind = "other" /\ r.event # Null
    BY DEF IInv, TypeOK, HandlerRecord, HandlerInv, Carries, Finish
  <1>2. PICK step \in {"reply", "fail"} :
           /\ Goto(h, step)
           /\ step = "reply" <=> Owned(h)
    BY DEF Finish
  <1>3. /\ handler' \in [Handlers -> HandlerRecord]
        /\ handler'[h].pc = step
        /\ handler'[h].event = r.event
        /\ handler'[h].kind = r.kind
        /\ handler'[h].sub = r.sub
        /\ \A g \in Handlers : g # h => handler'[g] = handler[g]
    BY <1>2, GotoMoves DEF IInv, TypeOK, Steps
  <1>4. Fresh(h)' /\ ~InTransaction(h)'
    BY <1>3 DEF Fresh, InTransaction
  <1>5. CASE Owned(h)
    <2>1. PICK status \in Terminal : ledger' = [ledger EXCEPT ![r.event] = Unleased(status)]
      BY <1>5 DEF Finish
    <2>2. Unleased(status) \in Row
      BY RowsAreRows
    <2>3. ~Settled(r.event)
      BY <1>5 DEF Owned, Settled, Terminal
    <2>4. Settled(r.event)'
      BY <1>1, <1>3, <2>1, RowsAreRows DEF Settled, IInv, TypeOK
    <2>5. Carries(h)'
      BY <1>1, <1>2, <1>3, <1>5, <2>4 DEF Carries, Finish, Settled
    <2> QED
      BY <1>1, <1>3, <1>4, <2>1, <2>2, <2>3, <2>5, RowMovesKeep DEF Finish, IInv, TypeOK
  <1>6. CASE ~Owned(h)
    <2>1. Carries(h)'
      BY <1>1, <1>2, <1>3, <1>6 DEF Carries, Finish
    <2> QED
      BY <1>3, <1>4, <1>6, <2>1, MovesKeep DEF Finish, IInv, TypeOK
  <1> QED
    BY <1>5, <1>6

LEMMA FailKeeps ==
    ASSUME IInv, NEW h \in Handlers, Fail(h)
    PROVE  IInv'
  <1>1. /\ handler' \in [Handlers -> HandlerRecord]
        /\ handler'[h].pc = "idle"
        /\ handler'[h].event = Null
        /\ \A g \in Handlers : g # h => handler'[g] = handler[g]
    BY IdleMoves DEF IInv, TypeOK, Fail
  <1>2. Carries(h)' /\ Fresh(h)' /\ ~InTransaction(h)'
    BY <1>1 DEF Carries, Fresh, InTransaction
  <1>3. CASE handler[h].event # Null /\ Owned(h)
    <2>1. handler[h].event \in Events /\ emitted[handler[h].event] # NotEmitted
      BY <1>3 DEF IInv, TypeOK, HandlerRecord, HandlerInv, Carries
    <2>2. ledger' = [ledger EXCEPT ![handler[h].event] = Unleased("failed")]
      BY <1>3 DEF Fail
    <2>3. Unleased("failed") \in Row /\ Unleased("failed").status \notin Terminal
      BY RowsAreRows DEF Terminal
    <2>4. ~Settled(handler[h].event)
      BY <1>3 DEF Owned, Settled, Terminal
    <2> QED
      BY <1>1, <1>2, <2>1, <2>2, <2>3, <2>4, RowMovesKeep DEF Fail, IInv, TypeOK
  <1>4. CASE ~(handler[h].event # Null /\ Owned(h))
    BY <1>1, <1>2, <1>4, MovesKeep DEF Fail, IInv, TypeOK
  <1> QED
    BY <1>3, <1>4

LEMMA LeaseRunsOutKeeps ==
    ASSUME IInv, NEW e \in Events, LeaseRunsOut(e)
    PROVE  IInv'
  <1> DEFINE row == [ledger[e] EXCEPT !.lease = "lapsed"]
  <1>1. /\ ledger[e] \in [status : {"processing"}, token : Handlers,
                           lease : {"live", "lapsed"}]
        /\ ledger' = [ledger EXCEPT ![e] = row]
    BY DEF LeaseRunsOut, IInv, TypeOK, Row
  <1>2. row \in Row /\ row.status = "processing" /\ ledger[e].status = "processing"
    BY <1>1 DEF Row
  <1>3. /\ ledger' \in [Events -> Row]
        /\ \A d \in Events : ledger'[d].status = ledger[d].status
    BY <1>1, <1>2 DEF IInv, TypeOK
  <1>4. TypeOK'
    BY <1>3 DEF LeaseRunsOut, Fault, IInv, TypeOK
  <1>5. \A d \in Events : Settled(d)' <=> Settled(d)
    BY <1>3 DEF Settled
  <1>6. HandlerInv' /\ OneTransaction' /\ SeesInv'
    <2>1. OneTransaction' /\ SeesInv'
      BY DEF LeaseRunsOut, IInv, OneTransaction, InTransaction, SeesInv, Fresh, Bound
    <2>2. \A h \in Handlers : handler[h].event \in Events \cup {Null}
      BY DEF IInv, TypeOK, HandlerRecord
    <2>3. HandlerInv'
      BY <1>5, <2>2 DEF LeaseRunsOut, IInv, HandlerInv, Carries
    <2> QED
      BY <2>1, <2>3
  <1>7. VersionInv' /\ LedgerInv' /\ UnboundInv' /\ AppliedOnce'
    BY <1>3, <1>5 DEF LeaseRunsOut, IInv, VersionInv, LedgerInv, UnboundInv, AppliedOnce
  <1>8. SettledIsReflected' /\ AckedIsSettled'
    BY <1>3, <1>5 DEF LeaseRunsOut, IInv, TypeOK, SettledIsReflected, Reflected, AckedIsSettled
  <1> QED
    BY <1>4, <1>6, <1>7, <1>8 DEF IInv

-----------------------------------------------------------------------------
(* The commit, and the provider.                                           *)

\* What is reflected stays so while projections move forward.
LEMMA StillReflected ==
    ASSUME TypeOK, UnboundInv, Forward, NEW e \in Events,
           emitted'[e] = emitted[e], ledger'[e].status = ledger[e].status,
           emitted[e] # NotEmitted, Settled(e), Reflected(e), TypeOK'
    PROVE  Reflected(e)'
  <1>1. /\ emitted[e].kind \in Kinds /\ emitted[e].sub \in Subscriptions
        /\ emitted[e].version \in Int
        /\ profile.version \in Int /\ profile'.version \in Int
        /\ risk[emitted[e].sub] \in Int /\ risk'[emitted[e].sub] \in Int
    BY DEF TypeOK, About, Versions
  <1>2. CASE emitted[e].kind = "risk"
    BY <1>1, <1>2 DEF Reflected, Forward
  <1>3. CASE emitted[e].kind \in {"checkout", "subscription"}
    <2>1. profile.sub # Null /\ profile'.sub = profile.sub
      BY <1>3 DEF UnboundInv, Forward
    <2> QED
      BY <1>1, <1>3, <2>1 DEF Reflected, Forward
  <1>4. CASE emitted[e].kind = "other"
    BY <1>4 DEF Reflected
  <1> QED
    BY <1>1, <1>2, <1>3, <1>4 DEF Kinds

LEMMA CommitKeeps ==
    ASSUME IInv, NEW h \in Handlers, Commit(h)
    PROVE  IInv' /\ Forward
  <1> DEFINE r == handler[h]
             s == r.sub
             v == r.sees
             done == IF v = 0 THEN "skipped" ELSE "processed"
  <1>1. /\ r \in HandlerRecord /\ r.pc = "commit"
        /\ s \in Subscriptions /\ v \in Versions
        /\ r.event \in Events \cup {Null} /\ r.kind # "other"
        /\ Carries(h) /\ Fresh(h)
    BY DEF IInv, TypeOK, HandlerRecord, HandlerInv, Carries, SeesInv, Commit
  <1>2. PICK step \in {"reply", "fail"} :
           /\ Goto(h, step)
           /\ step = "fail" <=> r.event # Null /\ ~Owned(h)
    BY DEF Commit
  <1>3. /\ handler' \in [Handlers -> HandlerRecord]
        /\ handler'[h].pc = step
        /\ handler'[h].event = r.event
        /\ handler'[h].kind = r.kind
        /\ handler'[h].sub = r.sub
        /\ \A g \in Handlers : g # h => handler'[g] = handler[g]
    BY <1>2, GotoMoves DEF IInv, TypeOK, Steps
  <1>4. Fresh(h)' /\ ~InTransaction(h)' /\ InTransaction(h)
    BY <1>1, <1>3 DEF Fresh, InTransaction
  <1>5. CASE step = "fail"
    <2>1. Carries(h)'
      BY <1>1, <1>3, <1>5 DEF Carries, Commit
    <2>2. UNCHANGED <<ledger, profile, risk, applied>>
      BY <1>2, <1>5 DEF Commit
    <2>3. IInv'
      BY <1>3, <1>4, <2>1, <2>2, MovesKeep DEF Commit, IInv, TypeOK
    <2> QED
      BY <2>2, <2>3 DEF Forward, IInv, TypeOK, Versions
  <1>6. CASE step = "reply"
    <2>1. /\ profile' = IF Projects(h) THEN [sub |-> s, version |-> v] ELSE profile
          /\ risk' = IF r.kind = "risk" THEN [risk EXCEPT ![s] = v] ELSE risk
          /\ r.event = Null => UNCHANGED <<ledger, applied>>
          /\ r.event # Null =>
                /\ Owned(h)
                /\ ledger' = [ledger EXCEPT ![r.event] = Unleased(done)]
                /\ applied' = IF v = 0 THEN applied
                               ELSE [applied EXCEPT ![r.event] = @ + 1]
      BY <1>2, <1>6 DEF Commit
    <2>2. UNCHANGED <<provider, emitted, acked, faults>>
      BY DEF Commit
    <2>3. /\ Unleased(done) \in Row
          /\ Unleased(done).status = done
          /\ done \in Terminal
      BY RowsAreRows DEF Terminal
    <2>4. TypeOK'
      BY <1>1, <1>3, <2>1, <2>2, <2>3 DEF IInv, TypeOK
    \* The projection moves forward, to what was observed.
    <2>5. Projects(h) => /\ profile' = [sub |-> s, version |-> v]
                         /\ Bound(s)
                         /\ v > 0 /\ v <= provider[s].version
                         /\ profile.sub = s => v >= profile.version
      BY <1>1, <2>1 DEF Projects, Fresh, Bound, Versions
    <2>6. r.kind = "risk" => /\ risk' = [risk EXCEPT ![s] = v]
                             /\ v > 0 /\ v <= provider[s].version /\ v >= risk[s]
      BY <1>1, <2>1 DEF Fresh
    <2>7. ~Projects(h) => profile' = profile
      BY <2>1
    <2>8. r.kind # "risk" => risk' = risk
      BY <2>1
    <2>9. Forward
      <3>1. /\ profile.sub # Null => profile'.sub = profile.sub
            /\ profile'.version >= profile.version
        BY <1>1, <2>5, <2>7 DEF Bound, IInv, TypeOK, VersionInv, Versions
      <3>2. \A t \in Subscriptions : risk'[t] >= risk[t]
        BY <1>1, <2>6, <2>8 DEF IInv, TypeOK, Versions
      <3> QED
        BY <3>1, <3>2 DEF Forward
    <2>10. VersionInv'
      BY <1>1, <2>2, <2>5, <2>6, <2>7, <2>8 DEF VersionInv, IInv, TypeOK
    <2>11. CASE r.event = Null
      <3>1. UNCHANGED <<ledger, applied>> /\ r.kind = "checkout"
        BY <1>1, <2>1, <2>11 DEF Carries
      <3>2. Carries(h)'
        BY <1>1, <1>3, <1>6, <2>2, <2>11 DEF Carries
      <3>3. \A e \in Events : Settled(e) => Settled(e)'
        BY <3>1 DEF Settled
      <3>4. HandlerInv' /\ OneTransaction' /\ SeesInv'
        BY <1>3, <1>4, <2>2, <3>2, <3>3, OthersKeep DEF IInv
      <3>5. LedgerInv' /\ AppliedOnce' /\ AckedIsSettled'
        BY <2>2, <3>1 DEF IInv, LedgerInv, AppliedOnce, AckedIsSettled, Settled
      <3>6. UnboundInv'
        BY <1>1, <2>2, <2>5, <2>7, <3>1 DEF IInv, UnboundInv, Settled
      <3>7. SettledIsReflected'
        <4> SUFFICES ASSUME NEW e \in Events, Settled(e)', emitted[e] # NotEmitted
                     PROVE  Reflected(e)'
          BY <2>2 DEF SettledIsReflected
        <4>1. Settled(e) /\ ledger'[e] = ledger[e]
          BY <3>1 DEF Settled
        <4>2. Reflected(e)
          BY <4>1 DEF IInv, SettledIsReflected
        <4> QED
          BY <2>2, <2>4, <2>9, <4>1, <4>2, StillReflected DEF IInv
      <3> QED
        BY <2>4, <2>9, <2>10, <3>4, <3>5, <3>6, <3>7 DEF IInv
    <2>12. CASE r.event # Null
      <3>1. /\ r.event \in Events /\ emitted[r.event] # NotEmitted
            /\ r.kind = emitted[r.event].kind /\ s = emitted[r.event].sub
            /\ emitted[r.event].version \in Int
            /\ v > 0 => v >= emitted[r.event].version
            /\ r.kind = "risk" => v > 0
            /\ r.kind # "risk" => (v > 0 <=> Bound(s))
        BY <1>1, <2>12 DEF Carries, Fresh, IInv, TypeOK, About
      <3>2. /\ ~Settled(r.event) /\ applied[r.event] = 0
            /\ ledger' = [ledger EXCEPT ![r.event] = Unleased(done)]
            /\ applied' = IF v = 0 THEN applied ELSE [applied EXCEPT ![r.event] = @ + 1]
        <4>1. ledger[r.event].status = "processing"
          BY <2>1, <2>12 DEF Owned
        <4>2. applied[r.event] \in Nat /\ applied[r.event] <= 1 /\ applied[r.event] # 1
          BY <3>1, <4>1 DEF IInv, AppliedOnce, TypeOK
        <4> QED
          BY <2>1, <2>12, <4>1, <4>2 DEF Settled, Terminal
      <3>3. /\ ledger'[r.event].status = done
            /\ \A e \in Events : e # r.event => ledger'[e] = ledger[e] /\ applied'[e] = applied[e]
            /\ applied'[r.event] = IF v = 0 THEN 0 ELSE 1
        BY <2>3, <3>1, <3>2 DEF IInv, TypeOK
      <3>4. \A e \in Events : Settled(e) => Settled(e)'
        BY <2>3, <3>2, <3>3 DEF Settled
      <3>5. Carries(h)'
        BY <1>1, <1>3, <1>6, <2>2, <2>3, <3>1, <3>3 DEF Carries, Settled
      <3>6. HandlerInv' /\ OneTransaction' /\ SeesInv'
        BY <1>3, <1>4, <2>2, <3>4, <3>5, OthersKeep DEF IInv
      <3>7. LedgerInv'
        BY <2>2, <3>1, <3>3 DEF IInv, LedgerInv
      <3>8. AppliedOnce'
        <4> SUFFICES ASSUME NEW e \in Events
                     PROVE  /\ applied'[e] <= 1
                            /\ applied'[e] = 1 => ledger'[e].status = "processed"
                            /\ ledger'[e].status = "processed" /\ emitted[e].kind # "other"
                                  => applied'[e] = 1
          BY <2>2 DEF AppliedOnce
        <4>1. CASE e = r.event
          BY <3>3, <4>1
        <4>2. CASE e # r.event
          BY <3>3, <4>2 DEF IInv, AppliedOnce
        <4> QED
          BY <4>1, <4>2
      <3>9. UnboundInv'
        <4> SUFFICES ASSUME profile'.sub = Null, NEW e \in Events,
                            emitted[e].kind \in {"checkout", "subscription"}
                     PROVE  ~Settled(e)'
          BY <2>2 DEF UnboundInv
        <4>1. ~Projects(h) /\ profile.sub = Null
          BY <1>1, <2>5, <2>7
        <4>2. r.kind = "risk"
          BY <1>1, <3>1, <4>1 DEF Projects, Bound
        <4>3. e # r.event /\ ~Settled(e)
          BY <3>1, <4>1, <4>2 DEF IInv, UnboundInv
        <4> QED
          BY <3>3, <4>3 DEF Settled
      <3>10. SettledIsReflected'
        <4> SUFFICES ASSUME NEW e \in Events, Settled(e)', emitted[e] # NotEmitted
                     PROVE  Reflected(e)'
          BY <2>2 DEF SettledIsReflected
        <4>1. CASE e = r.event
          <5>1. CASE r.kind = "risk"
            BY <1>1, <2>2, <2>6, <3>1, <3>3, <4>1, <5>1 DEF Reflected, IInv, TypeOK
          <5>2. CASE r.kind # "risk" /\ v > 0
            BY <1>1, <2>2, <2>5, <3>1, <4>1, <5>2 DEF Reflected, Projects
          <5>3. CASE r.kind # "risk" /\ ~(v > 0)
            <6>1. profile' = profile /\ profile.sub # s
              BY <2>7, <3>1, <5>3 DEF Projects, Bound
            <6> QED
              BY <2>2, <3>1, <4>1, <5>3, <6>1 DEF Reflected
          <5> QED
            BY <5>1, <5>2, <5>3
        <4>2. CASE e # r.event
          <5>1. Settled(e) /\ ledger'[e] = ledger[e]
            BY <3>3, <4>2 DEF Settled
          <5>2. Reflected(e)
            BY <5>1 DEF IInv, SettledIsReflected
          <5> QED
            BY <2>2, <2>4, <2>9, <5>1, <5>2, StillReflected DEF IInv
        <4> QED
          BY <4>1, <4>2
      <3>11. AckedIsSettled'
        BY <2>2, <3>4 DEF IInv, TypeOK, AckedIsSettled
      <3> QED
        BY <2>4, <2>9, <2>10, <3>6, <3>7, <3>8, <3>9, <3>10, <3>11 DEF IInv
    <2> QED
      BY <2>11, <2>12
  <1> QED
    BY <1>2, <1>5, <1>6

LEMMA ProviderKeeps ==
    ASSUME IInv, NEW s \in Subscriptions, NEW e \in Events, ProviderChanges(s, e)
    PROVE  IInv'
  <1> DEFINE new == provider[s].version + 1
  <1>1. PICK ended \in BOOLEAN, kind \in Kinds :
           /\ provider' = [provider EXCEPT ![s] = [version |-> new, ended |-> ended]]
           /\ emitted' = [emitted EXCEPT ![e] = [kind |-> kind, sub |-> s, version |-> new]]
    BY DEF ProviderChanges
  <1>2. /\ emitted[e] = NotEmitted /\ ledger[e].status = "none"
        /\ new \in 1..MaxVersion
        /\ \A t \in Subscriptions : provider[t].version \in Nat
        /\ UNCHANGED <<ledger, acked, handler, profile, risk, applied, faults>>
    BY DEF ProviderChanges, IInv, TypeOK, LedgerInv, Versions
  <1>3. /\ \A t \in Subscriptions : provider'[t].version >= provider[t].version
        /\ provider'[s].version = new
        /\ \A d \in Events : d # e => emitted'[d] = emitted[d]
        /\ emitted'[e] = [kind |-> kind, sub |-> s, version |-> new]
        /\ emitted'[e] # NotEmitted
    BY <1>1, <1>2 DEF IInv, TypeOK, NotEmitted
  <1>4. TypeOK'
    <2>1. [version |-> new, ended |-> ended] \in [version : Versions, ended : BOOLEAN]
      BY <1>2 DEF Versions
    <2>2. [kind |-> kind, sub |-> s, version |-> new] \in About
      BY <1>2 DEF About
    <2> QED
      BY <1>1, <1>2, <2>1, <2>2 DEF IInv, TypeOK
  <1>5. HandlerInv' /\ SeesInv' /\ OneTransaction'
    <2>1. \A h \in Handlers : handler[h] \in HandlerRecord /\ Carries(h) /\ Fresh(h)
      BY DEF IInv, TypeOK, HandlerInv, SeesInv
    <2>2. ASSUME NEW h \in Handlers PROVE Carries(h)' /\ Fresh(h)'
      <3>1. handler[h].event # e
        BY <1>2, <2>1 DEF Carries, WebhookAssumption
      <3>2. handler[h].event \in Events \cup {Null}
        BY <2>1 DEF HandlerRecord
      <3>3. handler[h].pc # "idle" =>
               /\ handler[h].sub \in Subscriptions
               /\ provider'[handler[h].sub].version >= provider[handler[h].sub].version
               /\ provider[handler[h].sub].version \in Nat
               /\ provider'[handler[h].sub].version \in Nat
        BY <1>2, <1>3, <1>4, <2>1 DEF Carries, TypeOK, Versions
      <3>4. Carries(h)'
        BY <1>2, <1>3, <2>1, <3>1, <3>2, <3>3 DEF Carries, Settled
      <3>5. Fresh(h)'
        BY <1>2, <1>3, <2>1, <3>1, <3>2, <3>3 DEF Fresh, Bound, HandlerRecord, Versions
      <3> QED
        BY <3>4, <3>5
    <2> QED
      BY <1>2, <2>2 DEF IInv, HandlerInv, SeesInv, OneTransaction, InTransaction
  <1>6. VersionInv'
    <2>1. /\ profile.sub # Null => /\ profile.sub \in Subscriptions
                                   /\ profile.version <= provider'[profile.sub].version
          /\ profile.sub = Null => profile.version = 0
      BY <1>2, <1>3, <1>4 DEF IInv, TypeOK, VersionInv, Versions
    <2>2. \A t \in Subscriptions : risk[t] <= provider'[t].version
      BY <1>2, <1>3, <1>4 DEF IInv, TypeOK, VersionInv, Versions
    <2>3. ASSUME NEW d \in Events, emitted'[d] # NotEmitted
          PROVE  emitted'[d].version <= provider'[emitted'[d].sub].version
      <3>1. CASE d = e
        BY <1>2, <1>3, <3>1
      <3>2. CASE d # e
        <4>1. emitted[d] \in About /\ emitted[d].version <= provider[emitted[d].sub].version
          BY <1>3, <2>3, <3>2 DEF IInv, TypeOK, VersionInv
        <4>2. emitted[d].sub \in Subscriptions /\ emitted[d].version \in Int
          BY <4>1 DEF About
        <4> QED
          BY <1>2, <1>3, <1>4, <3>2, <4>1, <4>2 DEF TypeOK, Versions
      <3> QED
        BY <3>1, <3>2
    <2> QED
      BY <1>2, <2>1, <2>2, <2>3 DEF VersionInv
  <1>7. ~Settled(e)
    BY <1>2 DEF Settled, Terminal
  <1>8. LedgerInv' /\ UnboundInv'
    BY <1>2, <1>3, <1>7 DEF IInv, LedgerInv, UnboundInv, Settled
  <1>9. AppliedOnce' /\ AckedIsSettled'
    <2> SUFFICES ASSUME NEW d \in Events, ledger[d].status = "processed"
                 PROVE  d # e
      BY <1>2, <1>3 DEF IInv, AppliedOnce, AckedIsSettled, Settled
    <2> QED
      BY <1>2
  <1>10. SettledIsReflected'
    <2> SUFFICES ASSUME NEW d \in Events, Settled(d), emitted'[d] # NotEmitted
                 PROVE  Reflected(d)'
      BY <1>2 DEF SettledIsReflected, Settled
    <2>1. d # e /\ emitted'[d] = emitted[d]
      BY <1>3, <1>7
    <2> QED
      BY <1>2, <2>1 DEF IInv, SettledIsReflected, Reflected
  <1> QED
    BY <1>4, <1>5, <1>6, <1>8, <1>9, <1>10 DEF IInv

-----------------------------------------------------------------------------
(* The theorems.                                                           *)

LEMMA InitEstablishes == Init => IInv
  <1> SUFFICES ASSUME Init PROVE IInv
    OBVIOUS
  <1>1. IdleHandler \in HandlerRecord
    BY DEF IdleHandler, HandlerRecord, Steps, Kinds, Versions
  <1>2. Unleased("none") \in Row /\ Unleased("none").status = "none"
    BY RowsAreRows
  <1>3. TypeOK
    BY <1>1, <1>2 DEF Init, TypeOK, Versions
  <1>4. HandlerInv /\ OneTransaction /\ SeesInv
    BY DEF Init, IdleHandler, HandlerInv, Carries, OneTransaction, InTransaction,
           SeesInv, Fresh
  <1>5. VersionInv /\ LedgerInv
    BY <1>2 DEF Init, VersionInv, LedgerInv
  <1>6. UnboundInv /\ AppliedOnce /\ SettledIsReflected /\ AckedIsSettled
    BY <1>2 DEF Init, UnboundInv, AppliedOnce, SettledIsReflected, AckedIsSettled,
                Settled, Terminal
  <1> QED
    BY <1>3, <1>4, <1>5, <1>6 DEF IInv

LEMMA NextKeeps == IInv /\ [Next]_vars => IInv' /\ Forward
  <1> SUFFICES ASSUME IInv, [Next]_vars PROVE IInv' /\ Forward
    OBVIOUS
  <1>1. UNCHANGED <<profile, risk>> => Forward
    BY DEF IInv, TypeOK, Forward, Versions
  <1>2. ASSUME NEW s \in Subscriptions, NEW e \in Events, ProviderChanges(s, e)
        PROVE  IInv' /\ Forward
    BY <1>1, <1>2, ProviderKeeps DEF ProviderChanges
  <1>3. ASSUME NEW e \in Events, LeaseRunsOut(e) PROVE IInv' /\ Forward
    BY <1>1, <1>3, LeaseRunsOutKeeps DEF LeaseRunsOut
  <1>4. ASSUME NEW h \in Handlers,
               \/ HandlerStep(h) \/ Lock(h) \/ CallFails(h) \/ Die(h)
               \/ \E e \in Events : Deliver(h, e)
               \/ \E s \in Subscriptions : VisitSuccessPage(h, s)
        PROVE  IInv' /\ Forward
    <2>1. CASE Claim(h)
      BY <1>1, <2>1, ClaimKeeps DEF Claim
    <2>2. CASE Refuse(h)
      BY <1>1, <2>2, RefuseKeeps DEF Refuse
    <2>3. CASE Observe(h)
      BY <1>1, <2>3, ObserveKeeps DEF Observe
    <2>4. CASE Fence(h)
      BY <1>1, <2>4, FenceKeeps DEF Fence
    <2>5. CASE Commit(h)
      BY <2>5, CommitKeeps
    <2>6. CASE Finish(h)
      BY <1>1, <2>6, FinishKeeps DEF Finish
    <2>7. CASE Fail(h)
      BY <1>1, <2>7, FailKeeps DEF Fail
    <2>8. CASE Reply(h)
      BY <1>1, <2>8, ReplyKeeps DEF Reply
    <2>9. CASE Lock(h)
      BY <1>1, <2>9, LockKeeps DEF Lock
    <2>10. CASE CallFails(h)
      BY <1>1, <2>10, CallFailsKeeps DEF CallFails
    <2>11. CASE Die(h)
      BY <1>1, <2>11, DieKeeps DEF Die
    <2>12. CASE \E e \in Events : Deliver(h, e)
      BY <1>1, <2>12, DeliverKeeps DEF Deliver
    <2>13. CASE \E s \in Subscriptions : VisitSuccessPage(h, s)
      BY <1>1, <2>13, VisitKeeps DEF VisitSuccessPage
    <2> QED
      BY <1>4, <2>1, <2>2, <2>3, <2>4, <2>5, <2>6, <2>7, <2>8, <2>9, <2>10, <2>11,
         <2>12, <2>13 DEF HandlerStep
  <1>5. CASE UNCHANGED vars
    <2>1. IInv'
      BY <1>5 DEF vars, IInv, TypeOK, HandlerInv, Carries, OneTransaction, InTransaction,
                  VersionInv, SeesInv, Fresh, Bound, LedgerInv, UnboundInv, AppliedOnce,
                  SettledIsReflected, Reflected, AckedIsSettled, Settled
    <2> QED
      BY <1>1, <1>5, <2>1 DEF vars
  <1> QED
    BY <1>2, <1>3, <1>4, <1>5 DEF Next

LEMMA InvariantHolds == Spec => []IInv
  BY InitEstablishes, NextKeeps, PTL DEF Spec

\* The types: a row has a token and a lease exactly while it is processing.
THEOREM LedgerIsTyped == Spec => []TypeOK
  <1>1. IInv => TypeOK
    BY DEF IInv
  <1> QED
    BY <1>1, InvariantHolds, PTL

\* One reconciliation per event, recorded in its row, whatever overlaps.
THEOREM EventsApplyOnce == Spec => []AppliedOnce
  <1>1. IInv => AppliedOnce
    BY DEF IInv
  <1> QED
    BY <1>1, InvariantHolds, PTL

\* The projection is never behind an event that was settled.
THEOREM SettledEventsAreReflected == Spec => []SettledIsReflected
  <1>1. IInv => SettledIsReflected
    BY DEF IInv
  <1> QED
    BY <1>1, InvariantHolds, PTL

\* Stripe's deliveries stop only for events that are settled.
THEOREM AckedEventsAreSettled == Spec => []AckedIsSettled
  <1>1. IInv => AckedIsSettled
    BY DEF IInv
  <1> QED
    BY <1>1, InvariantHolds, PTL

\* Projections and risk facts never go back, and a binding stays.
THEOREM ProjectionsMoveForward == Spec => NeverGoesBack
  <1>1. IInv /\ [Next]_vars => [Forward]_vars
    BY NextKeeps
  <1> QED
    BY <1>1, InvariantHolds, PTL DEF Spec, NeverGoesBack
-----------------------------------------------------------------------------
(* The contract with the tenant.                                           *)

\* A step that settles nothing and shows nothing is none of the contract's.
LEMMA SilentStep ==
    ASSUME UNCHANGED <<provider, emitted, profile, risk, acked>>,
           \A e \in Events : Settled(e)' <=> Settled(e)
    PROVE  UNCHANGED Contract!vars
  BY DEF Contract!vars

\* Writing a row that is not settled, and not settling it, shows nothing.
LEMMA RowsAreSilent ==
    ASSUME TypeOK, NEW e \in Events, NEW row,
           ledger' = [ledger EXCEPT ![e] = row],
           row.status \notin Terminal, ~Settled(e),
           UNCHANGED <<provider, emitted, profile, risk, acked>>
    PROVE  UNCHANGED Contract!vars
  <1>1. \A d \in Events : Settled(d)' <=> Settled(d)
    BY DEF Settled, TypeOK
  <1> QED
    BY <1>1, SilentStep

\* Telling Stripe that a settled event is settled.
LEMMA AcknowledgeStep ==
    ASSUME NEW e \in Events, Settled(e), acked' = acked \cup {e},
           UNCHANGED <<provider, emitted, ledger, profile, risk>>
    PROVE  Contract!Next
  <1>1. UNCHANGED {d \in Events : Settled(d)}
    BY DEF Settled
  <1>2. Contract!Acknowledge(e)
    BY <1>1 DEF Contract!Acknowledge
  <1> QED
    BY <1>2 DEF Contract!Next

\* Settling one event, with what the contract demands of it.
LEMMA SettleStep ==
    ASSUME TypeOK, NEW e \in Events, NEW status \in Terminal,
           ~Settled(e), ledger' = [ledger EXCEPT ![e] = Unleased(status)]
    PROVE  {d \in Events : Settled(d)}' = {d \in Events : Settled(d)} \cup {e}
  <1>1. ledger'[e].status = status /\ \A d \in Events : d # e => ledger'[d] = ledger[d]
    BY RowsAreRows DEF TypeOK
  <1> QED
    BY <1>1 DEF Settled

LEMMA ChangeIsAnnounced ==
    ASSUME IInv, NEW s \in Subscriptions, NEW e \in Events, ProviderChanges(s, e)
    PROVE  Contract!Next
  <1> DEFINE versions == [t \in Subscriptions |-> provider[t].version]
  <1>1. PICK ended \in BOOLEAN, kind \in Kinds :
           /\ provider' = [provider EXCEPT ![s] =
                            [version |-> @.version + 1, ended |-> ended]]
           /\ emitted' = [emitted EXCEPT ![e] =
                  [kind |-> kind, sub |-> s, version |-> provider[s].version + 1]]
    BY DEF ProviderChanges
  <1>2. versions' = [versions EXCEPT ![s] = @ + 1]
    BY <1>1 DEF IInv, TypeOK
  <1>3. /\ versions[s] = provider[s].version
        /\ emitted[e] = Contract!NotEmitted
        /\ UNCHANGED <<profile, risk, {d \in Events : Settled(d)}, acked>>
    BY DEF ProviderChanges, NotEmitted, Contract!NotEmitted, Settled
  <1>4. kind \in {"checkout", "subscription", "risk", "other"}
    BY DEF Kinds
  <1>5. Contract!Announce(e)
    BY <1>1, <1>2, <1>3, <1>4 DEF Contract!Announce
  <1> QED
    BY <1>5 DEF Contract!Next

LEMMA FinishSettles ==
    ASSUME IInv, NEW h \in Handlers, Finish(h)
    PROVE  [Contract!Next]_Contract!vars
  <1> DEFINE e == handler[h].event
  <1>1. /\ e \in Events /\ emitted[e] # Contract!NotEmitted
        /\ emitted[e].kind = "other"
    BY DEF IInv, TypeOK, HandlerRecord, HandlerInv, Carries, Finish, NotEmitted,
           Contract!NotEmitted
  <1>2. CASE Owned(h)
    <2>1. ~Settled(e)
      BY <1>2 DEF Owned, Settled, Terminal
    <2>2. PICK status \in Terminal : ledger' = [ledger EXCEPT ![e] = Unleased(status)]
      BY <1>2 DEF Finish
    <2>3. {d \in Events : Settled(d)}' = {d \in Events : Settled(d)} \cup {e}
      BY <1>1, <2>1, <2>2, SettleStep DEF IInv
    <2>4. Contract!Settle(e)
      BY <1>1, <2>1, <2>3 DEF Contract!Settle, Finish
    <2> QED
      BY <1>1, <2>4 DEF Contract!Next
  <1>3. CASE ~Owned(h)
    BY <1>3, SilentStep DEF Finish, Settled
  <1> QED
    BY <1>2, <1>3

\* A commit settles its event and shows what it saw, refreshes what the
\* customer comes back to, or does nothing.
LEMMA CommitSettles ==
    ASSUME IInv, NEW h \in Handlers, Commit(h)
    PROVE  [Contract!Next]_Contract!vars
  <1> DEFINE e == handler[h].event
             s == handler[h].sub
             v == handler[h].sees
             kind == handler[h].kind
             versions == [t \in Subscriptions |-> provider[t].version]
  <1>1. /\ handler[h].pc = "commit" /\ s \in Subscriptions /\ v \in Nat
        /\ e \in Events \cup {Null} /\ kind \in Kinds \ {"other"}
        /\ versions[s] = provider[s].version /\ versions[s] \in Nat
        /\ Carries(h) /\ Fresh(h)
    BY DEF IInv, TypeOK, HandlerRecord, HandlerInv, Carries, SeesInv, Commit, Versions
  <1>2. v <= versions[s] /\ (profile.sub = s => v >= profile.version)
    BY <1>1 DEF Fresh
  <1>3. UNCHANGED <<versions, emitted, acked>>
    BY DEF Commit
  <1>4. CASE e # Null /\ ~Owned(h)
    BY <1>4, SilentStep DEF Commit, Settled
  <1>5. CASE e = Null
    <2>1. UNCHANGED <<ledger, risk>> /\ kind = "checkout"
      BY <1>1, <1>5 DEF Commit, Carries
    <2>2. UNCHANGED {d \in Events : Settled(d)}
      BY <2>1 DEF Settled
    <2>3. CASE v = 0
      <3>1. UNCHANGED profile
        BY <1>5, <2>3 DEF Commit, Projects
      <3> QED
        BY <1>3, <2>1, <2>2, <3>1 DEF Contract!vars
    <2>4. CASE v # 0
      <3>1. profile' = [sub |-> s, version |-> v]
        BY <1>1, <1>5, <2>1, <2>4 DEF Commit, Projects
      <3>2. v \in 1..versions[s] /\ profile.sub \in {Null, s}
        BY <1>1, <1>2, <2>1, <2>4 DEF Fresh, Bound
      <3>3. Contract!Shows(s, v)
        BY <1>2, <3>1 DEF Contract!Shows
      <3>4. Contract!Refresh(s)
        BY <1>3, <2>1, <2>2, <3>2, <3>3 DEF Contract!Refresh
      <3> QED
        BY <1>1, <3>4 DEF Contract!Next
    <2> QED
      BY <2>3, <2>4
  <1>6. CASE e # Null /\ Owned(h)
    <2>1. /\ e \in Events /\ emitted[e] # Contract!NotEmitted
          /\ kind = emitted[e].kind /\ s = emitted[e].sub
          /\ v > 0 => v >= emitted[e].version
      BY <1>1, <1>6 DEF Carries, Fresh, NotEmitted, Contract!NotEmitted
    <2>2. ~Settled(e)
      BY <1>6 DEF Owned, Settled, Terminal
    <2>3. PICK status \in Terminal : ledger' = [ledger EXCEPT ![e] = Unleased(status)]
      BY <1>6 DEF Commit, Terminal
    <2>4. {d \in Events : Settled(d)}' = {d \in Events : Settled(d)} \cup {e}
      BY <2>1, <2>2, <2>3, SettleStep DEF IInv
    <2>5. v > 0 => v \in Contract!Since(e)
      BY <1>1, <1>2, <2>1 DEF Contract!Since
    <2>6. /\ profile' = IF Projects(h) THEN [sub |-> s, version |-> v] ELSE profile
          /\ risk' = IF kind = "risk" THEN [risk EXCEPT ![s] = v] ELSE risk
      BY <1>6 DEF Commit
    <2>7. CASE kind = "risk"
      <3>1. v > 0 /\ v >= risk[s] /\ risk' = [risk EXCEPT ![s] = v]
        BY <1>1, <2>6, <2>7 DEF Fresh
      <3>2. IF profile.sub = s THEN Contract!Shows(s, v) ELSE UNCHANGED profile
        BY <1>2, <2>6, <2>7, <3>1 DEF Projects, Contract!Shows
      <3> QED
        BY <1>3, <2>1, <2>2, <2>4, <2>5, <2>7, <3>1, <3>2
        DEF Contract!Settle, Contract!Next
    <2>8. CASE kind # "risk"
      <3>1. UNCHANGED risk /\ kind \in {"checkout", "subscription"}
        BY <1>1, <2>6, <2>8 DEF Kinds
      <3>2. v > 0 <=> profile.sub \in {Null, s}
        BY <1>1, <2>8 DEF Fresh, Bound
      <3>3. IF profile.sub \in {Null, s} THEN v > 0 /\ Contract!Shows(s, v)
                                         ELSE UNCHANGED profile
        BY <1>2, <2>6, <2>8, <3>2 DEF Projects, Contract!Shows
      <3> QED
        BY <1>3, <2>1, <2>2, <2>4, <2>5, <3>1, <3>3 DEF Contract!Settle, Contract!Next
    <2> QED
      BY <2>7, <2>8
  <1> QED
    BY <1>4, <1>5, <1>6

\* Each step is one of the contract's or none.
LEMMA ContractStep == IInv /\ [Next]_vars => [Contract!Next]_Contract!vars
  <1> SUFFICES ASSUME IInv, [Next]_vars PROVE [Contract!Next]_Contract!vars
    OBVIOUS
  <1>0. TypeOK
    BY DEF IInv
  <1>1. ASSUME NEW s \in Subscriptions, NEW e \in Events, ProviderChanges(s, e)
        PROVE  [Contract!Next]_Contract!vars
    BY <1>1, ChangeIsAnnounced
  <1>2. ASSUME NEW e \in Events, LeaseRunsOut(e) PROVE UNCHANGED Contract!vars
    <2>1. \A d \in Events : ledger'[d].status = ledger[d].status
      BY <1>0, <1>2 DEF LeaseRunsOut, TypeOK, Row
    <2> QED
      BY <1>2, <2>1, SilentStep DEF LeaseRunsOut, Settled
  <1>3. ASSUME NEW h \in Handlers, NEW e \in Events, Deliver(h, e)
        PROVE  UNCHANGED Contract!vars
    <2>1. CASE ledger[e].status = "none"
      <3>1. /\ ledger' = [ledger EXCEPT ![e] = Unleased("received")]
            /\ Unleased("received").status \notin Terminal /\ ~Settled(e)
        BY <1>3, <2>1, RowsAreRows DEF Deliver, Terminal, Settled
      <3> QED
        BY <1>0, <1>3, <3>1, RowsAreSilent DEF Deliver
    <2>2. CASE ledger[e].status # "none"
      BY <1>3, <2>2, SilentStep DEF Deliver, Settled
    <2> QED
      BY <2>1, <2>2
  <1>4. ASSUME NEW h \in Handlers, Claim(h) \/ Fail(h) PROVE UNCHANGED Contract!vars
    <2> DEFINE e == handler[h].event
    <2>1. CASE UNCHANGED ledger
      BY <1>4, <2>1, SilentStep DEF Claim, Fail, Settled
    <2>2. CASE ~UNCHANGED ledger
      <3>1. e \in Events /\ ~Settled(e)
        BY <1>0, <1>4, <2>2
        DEF Claim, Claimable, Fail, Owned, Settled, Terminal, TypeOK, HandlerRecord,
            IInv, HandlerInv, Carries
      <3>2. PICK row : ledger' = [ledger EXCEPT ![e] = row] /\ row.status \notin Terminal
        BY <1>4, <2>2, RowsAreRows DEF Claim, Fail, Terminal
      <3> QED
        BY <1>0, <1>4, <3>1, <3>2, RowsAreSilent DEF Claim, Fail
    <2> QED
      BY <2>1, <2>2
  <1>5. ASSUME NEW h \in Handlers, Refuse(h) \/ Reply(h)
        PROVE  [Contract!Next]_Contract!vars
    <2>1. CASE UNCHANGED acked
      BY <1>5, <2>1, SilentStep DEF Refuse, Reply, Settled
    <2>2. CASE ~UNCHANGED acked
      <3>1. /\ handler[h].event \in Events /\ Settled(handler[h].event)
            /\ acked' = acked \cup {handler[h].event}
        BY <1>0, <1>5, <2>2
        DEF Refuse, Reply, Deduped, Settled, TypeOK, HandlerRecord, IInv, HandlerInv, Carries
      <3> QED
        BY <1>5, <3>1, AcknowledgeStep DEF Refuse, Reply
    <2> QED
      BY <2>1, <2>2
  <1>6. ASSUME NEW h \in Handlers, Finish(h) PROVE [Contract!Next]_Contract!vars
    BY <1>6, FinishSettles
  <1>7. ASSUME NEW h \in Handlers, Commit(h) PROVE [Contract!Next]_Contract!vars
    BY <1>7, CommitSettles
  <1>8. ASSUME NEW h \in Handlers,
               \/ Observe(h) \/ Fence(h) \/ Lock(h) \/ CallFails(h) \/ Die(h)
               \/ \E s \in Subscriptions : VisitSuccessPage(h, s)
        PROVE  UNCHANGED Contract!vars
    BY <1>8, SilentStep
    DEF Observe, Fence, Lock, CallFails, Die, VisitSuccessPage, Settled
  <1>9. CASE UNCHANGED vars
    BY <1>9, SilentStep DEF vars, Settled
  <1> QED
    BY <1>1, <1>2, <1>3, <1>4, <1>5, <1>6, <1>7, <1>8, <1>9 DEF Next, HandlerStep

\* The handlers keep the tenant's contract: an event takes effect in the step
\* that settles it, whatever overlaps, fails, lapses or comes twice.
THEOREM WebhooksKeepContract == Spec => KeepsContract
  <1>1. Init => Contract!Init
    <2> SUFFICES ASSUME Init PROVE Contract!Init
      OBVIOUS
    <2>1. \A e \in Events : ~Settled(e)
      BY DEF Init, Settled, Terminal, Unleased
    <2>2. [s \in Subscriptions |-> provider[s].version]
             = [s \in Subscriptions |-> IF s \in Older THEN 1 ELSE 0]
      BY DEF Init
    <2>3. {e \in Events : Settled(e)} = {}
      BY <2>1
    <2>4. emitted = [e \in Events |-> Contract!NotEmitted]
      BY DEF Init, NotEmitted, Contract!NotEmitted
    <2> QED
      BY <2>2, <2>3, <2>4 DEF Init, Contract!Init
  <1> QED
    BY <1>1, ContractStep, InvariantHolds, PTL DEF Spec, KeepsContract, Contract!Spec
=============================================================================
