------------------------ MODULE AccountingSyncProofs ------------------------
(***************************************************************************)
(* AccountingSync for any invoices, overlapping syncs, changes and faults: *)
(* nothing is lost but what is named in `lost' or what no sync asks for,   *)
(* and a connection that looks active has been synced.                     *)
(***************************************************************************)
EXTENDS AccountingSync, TLAPS

USE SyncAssumption

-----------------------------------------------------------------------------
(* The inductive invariant.                                                *)

Clock ==
    /\ now >= 1
    /\ connection.since <= now
    /\ \A i \in Invoices : 1 <= provider[i].modified /\ provider[i].modified <= now

\* What a sync read and stamped is not of the future.
OfThePast(s) ==
    LET r == sync[s] IN
    /\ r.since <= now /\ r.fetched <= now /\ r.stamp <= now
    /\ r.pc \in {"upsert", "track"} => r.stamp >= 1
    /\ r.pc = "track" => r.current \in r.batch
    /\ \A i \in Invoices : r.seen[i].modified <= provider[i].modified

\* Before the fetch: what the sync will not fetch is reflected, or a draft.
BeforeFetch(s, i) ==
    sync[s].pc \in {"create", "fetch"} /\ provider[i].status \in Listed =>
        provider[i].modified > sync[s].since \/ Reflected(i)

\* After it: what it does not bring has changed since, was skipped, is
\* reflected, or a draft.
AfterFetch(s, i) ==
    LET r == sync[s] IN
    r.pc \in {"stamp", "upsert", "track"} /\ provider[i].status \in Listed =>
        \/ provider[i].modified > r.fetched
        \/ Reflected(i)
        \/ i \in r.skipped
        \/ i \in r.batch /\ r.seen[i].modified = provider[i].modified

\* Between its two writes, the first is as it left it.
HalfWritten(s, i) ==
    LET r == sync[s] IN
    r.pc = "track" /\ r.current = i /\ r.seen[i].modified = provider[i].modified
        => facts[i] = provider[i].modified

SyncInv(s) ==
    /\ OfThePast(s)
    /\ \A i \in Invoices \ lost :
          BeforeFetch(s, i) /\ AfterFetch(s, i) /\ HalfWritten(s, i)

FactsInv == \A i \in Invoices : facts[i] <= provider[i].modified

IInv ==
    /\ TypeOK /\ Clock /\ FactsInv
    /\ \A s \in Syncs : SyncInv(s)
    /\ NothingElseIsLost /\ ActiveIsSynced

\* What a step may do to invoice i, as syncs that take no part in it see it.
Kept(i) ==
    \/ Reflected(i)'
    \/ /\ i \notin lost
       /\ Reflected(i) => Reflected(i)'
       /\ facts[i] = provider[i].modified => facts'[i] = provider[i].modified

OnlyMoves(s) ==
    /\ sync' \in [Syncs -> SyncRecord]
    /\ \A o \in Syncs : o # s => sync'[o] = sync[o]

-----------------------------------------------------------------------------
LEMMA IdleIsSync ==
    IdleSync \in SyncRecord
BY DEF IdleSync, SyncRecord, Steps, ConnectionStatuses, Times, ProviderInvoice,
       ProviderStatuses, NotSeen, Failures

LEMMA InitEstablishes == Init => IInv
<1> SUFFICES ASSUME Init PROVE IInv
  OBVIOUS
<1>1. TypeOK
  <2>1. 1 \in Times /\ 0 \in Times
    BY DEF Times
  <2>2. [status : {"open"} \cup Changes, modified : {1}] \subseteq ProviderInvoice
    BY <2>1 DEF ProviderInvoice, ProviderStatuses
  <2>3. provider \in [Invoices -> ProviderInvoice]
    BY <2>2 DEF Init
  <2> QED
    BY <2>1, <2>3, IdleIsSync DEF Init, TypeOK, ConnectionStatuses, TrackedInvoice
<1>2. Clock /\ FactsInv
  BY DEF Init, Clock, FactsInv
<1>3. ASSUME NEW s \in Syncs PROVE SyncInv(s)
  BY DEF Init, SyncInv, OfThePast, BeforeFetch, AfterFetch, HalfWritten, IdleSync, NotSeen
<1>4. NothingElseIsLost /\ ActiveIsSynced
  BY DEF Init, NothingElseIsLost, ActiveIsSynced
<1> QED BY <1>1, <1>2, <1>3, <1>4 DEF IInv

\* The syncs that take no part in a step keep their part of the invariant.
LEMMA OthersAreSafe ==
    ASSUME IInv, NEW s \in Syncs, OnlyMoves(s), provider' = provider, now' = now,
           \A i \in Invoices \ lost' : Kept(i), SyncInv(s)'
    PROVE  \A o \in Syncs : SyncInv(o)'
<1> SUFFICES ASSUME NEW o \in Syncs, o # s PROVE SyncInv(o)'
  OBVIOUS
<1>1. sync'[o] = sync[o] /\ SyncInv(o)
  BY DEF OnlyMoves, IInv
<1>2. OfThePast(o)'
  BY <1>1 DEF SyncInv, OfThePast
<1>3. ASSUME NEW i \in Invoices \ lost'
      PROVE  (BeforeFetch(o, i) /\ AfterFetch(o, i) /\ HalfWritten(o, i))'
  <2>1. CASE Reflected(i)'
    BY <2>1 DEF BeforeFetch, AfterFetch, HalfWritten, Reflected
  <2>2. CASE ~Reflected(i)'
    <3>1. /\ i \notin lost
          /\ Reflected(i) => Reflected(i)'
          /\ facts[i] = provider[i].modified => facts'[i] = provider[i].modified
      BY <2>2 DEF Kept
    <3>2. BeforeFetch(o, i) /\ AfterFetch(o, i) /\ HalfWritten(o, i)
      BY <1>1, <3>1 DEF SyncInv
    <3>3. BeforeFetch(o, i)'
      BY <1>1, <3>1, <3>2 DEF BeforeFetch
    <3>4. AfterFetch(o, i)'
      BY <1>1, <3>1, <3>2 DEF AfterFetch
    <3>5. HalfWritten(o, i)'
      BY <1>1, <3>1, <3>2 DEF HalfWritten
    <3> QED BY <3>3, <3>4, <3>5
  <2> QED BY <2>1, <2>2
<1> QED BY <1>2, <1>3 DEF SyncInv

\* A step that leaves the invoices and the connection alone is safe if the
\* sync that takes it is.
LEMMA MovingIsSafe ==
    ASSUME IInv, NEW s \in Syncs, OnlyMoves(s), SyncInv(s)',
           running' \in SUBSET Syncs, old' \in SUBSET Syncs, faults' \in 0..MaxFaults,
           UNCHANGED <<now, provider, connection, facts, tracked, lost>>
    PROVE  IInv'
<1>1. TypeOK'
  BY DEF IInv, TypeOK, OnlyMoves
<1>2. Clock' /\ FactsInv' /\ NothingElseIsLost' /\ ActiveIsSynced'
  BY DEF IInv, Clock, FactsInv, NothingElseIsLost, ActiveIsSynced, Reflected
<1>3. \A i \in Invoices \ lost' : Kept(i)
  BY DEF Kept, Reflected
<1>4. \A o \in Syncs : SyncInv(o)'
  BY <1>3, OthersAreSafe
<1> QED BY <1>1, <1>2, <1>4 DEF IInv

\* A request that has nothing of the invoices in hand owes nothing.
LEMMA FreeIsSafe ==
    ASSUME Clock', NEW s \in Syncs,
           now' \in Times, provider' \in [Invoices -> ProviderInvoice],
           sync'[s].pc \in {"idle", "catch", "close"},
           sync'[s].since = 0, sync'[s].fetched = 0, sync'[s].stamp = 0,
           sync'[s].seen = [i \in Invoices |-> NotSeen]
    PROVE  SyncInv(s)'
BY DEF Clock, SyncInv, OfThePast, BeforeFetch, AfterFetch, HalfWritten, Times,
       ProviderInvoice, NotSeen

-----------------------------------------------------------------------------
(* The requests' own records.                                              *)

\* Replacing one request's record with another.
LEMMA ReplacingMoves ==
    ASSUME TypeOK, NEW s \in Syncs, NEW STATE next, next \in SyncRecord,
           sync' = [sync EXCEPT ![s] = next]
    PROVE  OnlyMoves(s) /\ sync'[s] = next
BY DEF TypeOK, OnlyMoves

\* A request that leaves, or has nothing more to say, is safe.
LEMMA LeavingIsSafe ==
    ASSUME TypeOK, Clock', NEW s \in Syncs, Leave(s),
           now' \in Times, provider' \in [Invoices -> ProviderInvoice]
    PROVE  OnlyMoves(s) /\ SyncInv(s)'
<1>1. OnlyMoves(s) /\ sync'[s] = IdleSync
  BY IdleIsSync, ReplacingMoves DEF Leave
<1>2. SyncInv(s)'
  BY <1>1, FreeIsSafe DEF IdleSync
<1> QED BY <1>1, <1>2

\* What a step that leaves the provider alone leaves true.
LEMMA UnmovedWorld ==
    ASSUME IInv, UNCHANGED <<now, provider, connection>>
    PROVE  /\ TypeOK /\ Clock'
           /\ now' \in Times /\ provider' \in [Invoices -> ProviderInvoice]
BY DEF IInv, TypeOK, Clock

\* Steps on the way to the fetch that read nothing of the invoices.
LEMMA GoingIsSafe ==
    ASSUME IInv, NEW s \in Syncs, NEW step \in {"guard", "read", "fetch"}, Goto(s, step),
           step = "fetch" => sync[s].pc = "create",
           UNCHANGED <<now, provider, facts, tracked, lost>>
    PROVE  OnlyMoves(s) /\ SyncInv(s)'
<1> DEFINE next == [sync[s] EXCEPT !.pc = step]
<1>1. next \in SyncRecord
  BY DEF IInv, TypeOK, SyncRecord, Steps
<1>2. sync' = [sync EXCEPT ![s] = next]
  BY DEF Goto
<1>3. OnlyMoves(s) /\ sync'[s] = next
  <2> HIDE DEF next
  <2> QED BY <1>1, <1>2, ReplacingMoves DEF IInv
<1>4. sync[s] \in SyncRecord /\ SyncInv(s)
  BY DEF IInv, TypeOK
<1>5. /\ sync'[s].pc = step
      /\ sync'[s].since = sync[s].since /\ sync'[s].fetched = sync[s].fetched
      /\ sync'[s].stamp = sync[s].stamp /\ sync'[s].seen = sync[s].seen
  BY <1>3, <1>4 DEF SyncRecord
<1>6. OfThePast(s)'
  BY <1>4, <1>5 DEF SyncInv, OfThePast
<1>7. ASSUME NEW i \in Invoices \ lost
      PROVE  (BeforeFetch(s, i) /\ AfterFetch(s, i) /\ HalfWritten(s, i))'
  BY <1>4, <1>5 DEF SyncInv, BeforeFetch, AfterFetch, HalfWritten, Reflected
<1> QED BY <1>3, <1>6, <1>7 DEF SyncInv

-----------------------------------------------------------------------------
(* The steps.                                                              *)

LEMMA ProviderChangesKeeps ==
    ASSUME IInv, NEW i \in Invoices, NEW status \in Changes, ProviderChanges(i, status)
    PROVE  IInv'
<1> USE DEF ProviderChanges
<1>1. now \in Nat /\ now + 1 \in Times
  BY DEF IInv, TypeOK, Times
<1>2. /\ provider' \in [Invoices -> ProviderInvoice]
      /\ provider'[i].modified = now + 1
      /\ \A j \in Invoices : j # i => provider'[j] = provider[j]
  BY <1>1 DEF IInv, TypeOK, ProviderInvoice
<1>3. TypeOK'
  BY <1>1, <1>2 DEF IInv, TypeOK
<1>4. \A j \in Invoices : provider[j].modified <= provider'[j].modified
  BY <1>1, <1>2 DEF IInv, TypeOK, Clock, Times, ProviderInvoice
<1>5. Clock' /\ FactsInv'
  BY <1>1, <1>2, <1>4 DEF IInv, TypeOK, Clock, FactsInv, Times, ProviderInvoice
<1>6. ASSUME NEW s \in Syncs PROVE SyncInv(s)'
  <2>1. SyncInv(s) /\ sync[s] \in SyncRecord /\ sync' = sync
    BY DEF IInv, TypeOK
  <2>2. OfThePast(s)'
    BY <1>1, <1>2, <1>4, <2>1 DEF IInv, TypeOK, SyncInv, OfThePast, Times, ProviderInvoice, SyncRecord
  <2>3. ASSUME NEW j \in Invoices \ lost'
        PROVE  (BeforeFetch(s, j) /\ AfterFetch(s, j) /\ HalfWritten(s, j))'
    <3>1. CASE j = i
      <4>1. now + 1 > sync[s].since /\ now + 1 > sync[s].fetched
            /\ sync[s].seen[i].modified # now + 1
        BY <1>1, <2>1 DEF SyncInv, OfThePast, IInv, TypeOK, Clock, Times, SyncRecord, ProviderInvoice
      <4> QED BY <1>2, <2>1, <3>1, <4>1 DEF BeforeFetch, AfterFetch, HalfWritten
    <3>2. CASE j # i
      <4>1. j \notin lost /\ provider'[j] = provider[j] /\ facts' = facts /\ tracked' = tracked
        BY <1>2, <3>2
      <4>2. BeforeFetch(s, j) /\ AfterFetch(s, j) /\ HalfWritten(s, j)
        BY <2>1, <4>1 DEF SyncInv
      <4> QED BY <2>1, <4>1, <4>2 DEF BeforeFetch, AfterFetch, HalfWritten, Reflected
    <3> QED BY <3>1, <3>2
  <2> QED BY <2>2, <2>3 DEF SyncInv
<1>7. NothingElseIsLost'
  <2> SUFFICES ASSUME NEW j \in Invoices \ lost', provider'[j].status \in Listed
               PROVE  (provider[j].modified > connection.since \/ Reflected(j))'
    BY DEF NothingElseIsLost
  <2>1. CASE j = i
    BY <1>1, <1>2, <2>1 DEF IInv, TypeOK, Clock, Times
  <2>2. CASE j # i
    BY <1>2, <2>2 DEF IInv, NothingElseIsLost, Reflected
  <2> QED BY <2>1, <2>2
<1>8. ActiveIsSynced'
  BY DEF IInv, ActiveIsSynced
<1> QED BY <1>3, <1>5, <1>6, <1>7, <1>8 DEF IInv

\* The connection has no part in the syncs' own invariant, and the next email
\* of an invoice none in what is reflected.
LEMMA ConnectionKeeps ==
    ASSUME IInv,
           connection' \in [status : ConnectionStatuses, since : Times],
           connection'.since <= connection.since,
           connection'.status = "active" => connection' = connection,
           tracked' \in [Invoices -> TrackedInvoice],
           \A i \in Invoices : tracked'[i].asOf = tracked[i].asOf,
           UNCHANGED <<now, provider, running, old, facts, sync, lost, faults>>
    PROVE  IInv'
<1>1. TypeOK'
  BY DEF IInv, TypeOK
<1>2. connection.since \in Times /\ now \in Times /\ connection'.since \in Times
  BY <1>1 DEF IInv, TypeOK
<1>3. Clock' /\ FactsInv' /\ ActiveIsSynced'
  BY <1>2 DEF IInv, Clock, FactsInv, ActiveIsSynced, Times
<1>4. NothingElseIsLost'
  BY <1>1, <1>2 DEF IInv, TypeOK, NothingElseIsLost, Reflected, Times, ProviderInvoice
<1>5. \A s \in Syncs : SyncInv(s)'
  BY DEF IInv, SyncInv, OfThePast, BeforeFetch, AfterFetch, HalfWritten, Reflected
<1> QED BY <1>1, <1>3, <1>4, <1>5 DEF IInv

LEMMA DisconnectKeeps == ASSUME IInv, Disconnect PROVE IInv'
<1>1. /\ connection' \in [status : ConnectionStatuses, since : Times]
      /\ connection'.since = connection.since /\ connection'.status = "disconnected"
      /\ connection.since \in Int
  BY DEF IInv, TypeOK, Disconnect, ConnectionStatuses, Times
<1>2. /\ tracked' \in [Invoices -> TrackedInvoice]
      /\ \A i \in Invoices : tracked'[i].asOf = tracked[i].asOf
  <2>1. ASSUME NEW i \in Invoices
        PROVE  /\ [tracked[i] EXCEPT !.due = FALSE] \in TrackedInvoice
               /\ [tracked[i] EXCEPT !.due = FALSE].asOf = tracked[i].asOf
    BY DEF IInv, TypeOK, TrackedInvoice
  <2> QED BY <2>1 DEF Disconnect
<1> QED
  BY <1>1, <1>2, ConnectionKeeps DEF Disconnect

LEMMA ReconnectKeeps == ASSUME IInv, Reconnect PROVE IInv'
<1>1. /\ connection' \in [status : ConnectionStatuses, since : Times]
      /\ connection'.since <= connection.since /\ connection'.status = "pending_first_sync"
  BY DEF IInv, TypeOK, Reconnect, ConnectionStatuses, Times
<1> QED
  BY <1>1, ConnectionKeeps DEF Reconnect, IInv, TypeOK

LEMMA DispatchFailsKeeps == ASSUME IInv, DispatchFails PROVE IInv'
<1>1. /\ connection' \in [status : ConnectionStatuses, since : Times]
      /\ connection'.since <= connection.since /\ connection'.status = "error"
  BY DEF IInv, TypeOK, DispatchFails, ConnectionStatuses, Times
<1> QED
  BY <1>1, ConnectionKeeps DEF DispatchFails, IInv, TypeOK

LEMMA BeginKeeps == ASSUME IInv, NEW s \in Syncs, Begin(s) PROVE IInv'
<1>1. Goto(s, "guard") /\ UNCHANGED <<now, provider, facts, tracked, lost>>
  BY DEF Begin
<1>2. OnlyMoves(s) /\ SyncInv(s)'
  BY <1>1, GoingIsSafe
<1> QED
  BY <1>2, MovingIsSafe DEF Begin, Recovered, IInv, TypeOK

LEMMA GuardKeeps == ASSUME IInv, NEW s \in Syncs, Guard(s) PROVE IInv'
<1>1. OnlyMoves(s) /\ SyncInv(s)'
  <2>1. CASE Leave(s)
    BY <2>1, UnmovedWorld, LeavingIsSafe DEF Guard
  <2>2. CASE Goto(s, "read")
    BY <2>2, GoingIsSafe DEF Guard
  <2> QED BY <2>1, <2>2 DEF Guard
<1> QED
  BY <1>1, MovingIsSafe DEF Guard, IInv, TypeOK

LEMMA CreateRunKeeps == ASSUME IInv, NEW s \in Syncs, CreateRun(s) PROVE IInv'
<1>1. OnlyMoves(s) /\ SyncInv(s)'
  BY GoingIsSafe DEF CreateRun
<1> QED
  BY <1>1, MovingIsSafe DEF CreateRun, IInv, TypeOK

LEMMA ReadConnectionKeeps == ASSUME IInv, NEW s \in Syncs, ReadConnection(s) PROVE IInv'
<1> USE DEF ReadConnection
<1>1. OnlyMoves(s) /\ SyncInv(s)'
  <2>1. CASE Leave(s)
    BY <2>1, UnmovedWorld, LeavingIsSafe
  <2>2. CASE connection.status \in Syncable
    <3> DEFINE next == [sync[s] EXCEPT !.pc = "create", !.status = connection.status,
                                       !.since = connection.since]
    <3>1. sync[s] \in SyncRecord /\ SyncInv(s)
      BY DEF IInv, TypeOK
    <3>2. /\ next \in SyncRecord
          /\ next.pc = "create" /\ next.since = connection.since
          /\ next.fetched = sync[s].fetched /\ next.stamp = sync[s].stamp
          /\ next.seen = sync[s].seen
      BY <3>1 DEF IInv, TypeOK, SyncRecord, Steps
    <3>3. sync' = [sync EXCEPT ![s] = next]
      BY <2>2
    <3> HIDE DEF next
    <3>4. OnlyMoves(s) /\ sync'[s] = next
      BY <3>2, <3>3, ReplacingMoves DEF IInv
    <3>5. OfThePast(s)'
      BY <3>1, <3>2, <3>4 DEF SyncInv, OfThePast, IInv, Clock
    <3>6. ASSUME NEW i \in Invoices \ lost
          PROVE  (BeforeFetch(s, i) /\ AfterFetch(s, i) /\ HalfWritten(s, i))'
      BY <3>2, <3>4 DEF IInv, NothingElseIsLost, BeforeFetch, AfterFetch, HalfWritten, Reflected
    <3> QED BY <3>4, <3>5, <3>6 DEF SyncInv
  <2> QED BY <2>1, <2>2
<1> QED
  BY <1>1, MovingIsSafe DEF IInv, TypeOK

LEMMA FetchKeeps == ASSUME IInv, NEW s \in Syncs, Fetch(s) PROVE IInv'
<1> DEFINE fetches(i) == i \in Asked(s)
           seen == [i \in Invoices |-> IF fetches(i) THEN provider[i] ELSE NotSeen]
           next == [sync[s] EXCEPT !.pc = "stamp", !.fetched = now,
                       !.batch = Asked(s), !.seen = seen]
<1>1. sync[s] \in SyncRecord /\ SyncInv(s)
  BY DEF IInv, TypeOK
<1>2. seen \in [Invoices -> ProviderInvoice]
  <2>1. NotSeen \in ProviderInvoice
    BY DEF NotSeen, ProviderInvoice, ProviderStatuses, Times
  <2>2. \A i \in Invoices : provider[i] \in ProviderInvoice
    BY DEF IInv, TypeOK
  <2> HIDE DEF fetches
  <2> QED BY <2>1, <2>2
<1>3. ASSUME NEW i \in Invoices
      PROVE  /\ seen[i].modified <= provider[i].modified
             /\ fetches(i) => seen[i] = provider[i]
  <2>1. provider[i].modified \in Int /\ provider[i].modified >= 1
    BY DEF IInv, TypeOK, Clock, Times, ProviderInvoice
  <2>2. seen[i] = IF fetches(i) THEN provider[i] ELSE NotSeen
    OBVIOUS
  <2>3. NotSeen.modified = 0
    BY DEF NotSeen
  <2> HIDE DEF fetches, seen
  <2> QED BY <2>1, <2>2, <2>3
<1>4. /\ next \in SyncRecord
      /\ next.pc = "stamp" /\ next.since = sync[s].since /\ next.fetched = now
      /\ next.stamp = sync[s].stamp /\ next.seen = seen
      /\ \A i \in Invoices : fetches(i) => i \in next.batch
  <2>1. Asked(s) \in SUBSET Invoices
    BY DEF Asked
  <2> HIDE DEF seen
  <2> QED BY <1>1, <1>2, <2>1 DEF IInv, TypeOK, SyncRecord, Steps
<1>5. sync' = [sync EXCEPT ![s] = next]
  BY DEF Fetch
<1> HIDE DEF next, seen
<1>6. OnlyMoves(s) /\ sync'[s] = next
  BY <1>4, <1>5, ReplacingMoves DEF IInv
<1>7. OfThePast(s)'
  <2>1. sync[s].since <= now /\ sync[s].stamp <= now /\ now <= now
    BY <1>1 DEF SyncInv, OfThePast, IInv, TypeOK, Times
  <2> QED BY <1>3, <1>4, <1>6, <2>1 DEF OfThePast, Fetch
<1>8. ASSUME NEW i \in Invoices \ lost
      PROVE  (BeforeFetch(s, i) /\ AfterFetch(s, i) /\ HalfWritten(s, i))'
  <2>1. provider[i].status \in Listed => fetches(i) \/ Reflected(i)
    BY <1>1 DEF SyncInv, BeforeFetch, Fetch, Asked
  <2> QED
    BY <1>3, <1>4, <1>6, <2>1 DEF BeforeFetch, AfterFetch, HalfWritten, Reflected, Fetch
<1>9. SyncInv(s)'
  BY <1>7, <1>8 DEF SyncInv, Fetch
<1> QED
  BY <1>6, <1>9, MovingIsSafe DEF IInv, TypeOK, Fetch

LEMMA StampKeeps == ASSUME IInv, NEW s \in Syncs, Stamp(s) PROVE IInv'
<1> USE DEF Stamp
<1> DEFINE next == [sync[s] EXCEPT !.pc = "upsert", !.stamp = now]
<1>1. sync[s] \in SyncRecord /\ SyncInv(s)
  BY DEF IInv, TypeOK
<1>2. /\ next \in SyncRecord
      /\ next.pc = "upsert" /\ next.stamp = now /\ next.since = sync[s].since
      /\ next.fetched = sync[s].fetched /\ next.seen = sync[s].seen
      /\ next.batch = sync[s].batch /\ next.skipped = sync[s].skipped
  BY <1>1 DEF IInv, TypeOK, SyncRecord, Steps
<1>3. sync' = [sync EXCEPT ![s] = next]
  OBVIOUS
<1> HIDE DEF next
<1>4. OnlyMoves(s) /\ sync'[s] = next
  BY <1>2, <1>3, ReplacingMoves DEF IInv
<1>5. OfThePast(s)'
  BY <1>1, <1>2, <1>4 DEF SyncInv, OfThePast, IInv, TypeOK, Clock, Times
<1>6. ASSUME NEW i \in Invoices \ lost
      PROVE  (BeforeFetch(s, i) /\ AfterFetch(s, i) /\ HalfWritten(s, i))'
  BY <1>1, <1>2, <1>4 DEF SyncInv, BeforeFetch, AfterFetch, HalfWritten, Reflected
<1>7. SyncInv(s)'
  BY <1>5, <1>6 DEF SyncInv
<1> QED
  BY <1>4, <1>7, MovingIsSafe DEF IInv, TypeOK

\* The first write of an upsert.
LEMMA UpsertFactsKeeps ==
    ASSUME IInv, NEW s \in Syncs, NEW i \in Invoices, UpsertFacts(s, i)
    PROVE  IInv'
<1> USE DEF UpsertFacts
<1> DEFINE version == sync[s].seen[i].modified
           next == [sync[s] EXCEPT !.pc = "track", !.current = i,
                       !.creates = facts[i] = 0 \/ tracked[i].status = "none",
                       !.wasOpen = tracked[i].status = "pending"]
<1>1. sync[s] \in SyncRecord /\ SyncInv(s)
  BY DEF IInv, TypeOK
<1>2. /\ next \in SyncRecord
      /\ next.pc = "track" /\ next.current = i /\ next.since = sync[s].since
      /\ next.fetched = sync[s].fetched /\ next.stamp = sync[s].stamp
      /\ next.seen = sync[s].seen
      /\ next.batch = sync[s].batch /\ next.skipped = sync[s].skipped
  BY <1>1 DEF SyncRecord, Steps
<1>3. sync' = [sync EXCEPT ![s] = next]
  OBVIOUS
<1>4. /\ version \in Times /\ version <= provider[i].modified
      /\ facts' = [facts EXCEPT ![i] = version]
      /\ lost' = IF version < facts[i] THEN lost \cup {i} ELSE lost
  BY <1>1 DEF SyncRecord, ProviderInvoice, SyncInv, OfThePast, Overtaken
<1>5. facts \in [Invoices -> Times] /\ provider \in [Invoices -> ProviderInvoice]
  BY DEF IInv, TypeOK
<1> HIDE DEF next, version
<1>6. OnlyMoves(s) /\ sync'[s] = next
  BY <1>2, <1>3, ReplacingMoves DEF IInv
<1>7. OfThePast(s)'
  BY <1>1, <1>2, <1>6 DEF SyncInv, OfThePast
<1>8. /\ facts' \in [Invoices -> Times] /\ facts'[i] = version
      /\ \A j \in Invoices : j # i => facts'[j] = facts[j]
  BY <1>4, <1>5
<1>9. ASSUME NEW j \in Invoices \ lost'
      PROVE  /\ j \notin lost
             /\ facts[j] = provider[j].modified => facts'[j] = provider[j].modified
  <2>1. CASE j = i
    <3>1. version >= facts[i] /\ j \notin lost
      BY <1>4, <1>5, <2>1 DEF Times
    <3>2. provider[i].modified \in Int /\ facts[i] \in Int /\ version \in Int
      BY <1>4, <1>5 DEF Times, ProviderInvoice
    <3> QED BY <1>4, <1>8, <2>1, <3>1, <3>2
  <2>2. CASE j # i
    BY <1>4, <1>8, <2>2
  <2> QED BY <2>1, <2>2
<1>10. \A j \in Invoices \ lost' : Kept(j) /\ (Reflected(j) => Reflected(j)')
  BY <1>9 DEF Kept, Reflected
<1>11. ASSUME NEW j \in Invoices \ lost'
       PROVE  (BeforeFetch(s, j) /\ AfterFetch(s, j) /\ HalfWritten(s, j))'
  <2>1. j \notin lost /\ (Reflected(j) => Reflected(j)')
    BY <1>9, <1>10
  <2>2. AfterFetch(s, j)
    BY <1>1, <2>1 DEF SyncInv
  <2>3. AfterFetch(s, j)'
    BY <1>2, <1>6, <2>1, <2>2 DEF AfterFetch
  <2>4. HalfWritten(s, j)'
    BY <1>2, <1>6, <1>8 DEF HalfWritten, version
  <2> QED BY <1>2, <1>6, <2>3, <2>4 DEF BeforeFetch
<1>12. \A o \in Syncs : SyncInv(o)'
  BY <1>6, <1>7, <1>10, <1>11, OthersAreSafe DEF SyncInv
<1>13. TypeOK'
  BY <1>6, <1>8, <1>4 DEF IInv, TypeOK, OnlyMoves
<1>14. Clock' /\ FactsInv' /\ ActiveIsSynced'
  BY <1>4, <1>8 DEF IInv, Clock, FactsInv, ActiveIsSynced
<1>15. NothingElseIsLost'
  BY <1>9, <1>10 DEF IInv, NothingElseIsLost
<1> QED BY <1>12, <1>13, <1>14, <1>15 DEF IInv

\* An invoice is done with: reflected, changed again, or skipped.
LEMMA NextInvoiceIsSafe ==
    ASSUME IInv, NEW s \in Syncs, NEW i \in Invoices, NEW skipped \in SUBSET Invoices,
           NextInvoice(s, i, skipped), sync[s].pc \in {"upsert", "track"},
           now' = now, provider' = provider,
           \A j \in Invoices \ lost' : j # i => j \notin lost /\ (Reflected(j) => Reflected(j)'),
           i \notin lost' => \/ i \in skipped \/ i \in sync[s].skipped
                             \/ Reflected(i)'
                             \/ provider[i].modified > sync[s].fetched
                             \/ provider[i].status \notin Listed
    PROVE  OnlyMoves(s) /\ SyncInv(s)'
<1> DEFINE next == [sync[s] EXCEPT !.pc = "upsert", !.batch = @ \ {i},
                       !.seen[i] = NotSeen, !.skipped = @ \cup skipped,
                       !.current = Null, !.creates = FALSE, !.wasOpen = FALSE]
<1>1. sync[s] \in SyncRecord /\ SyncInv(s)
  BY DEF IInv, TypeOK
<1>2. NotSeen \in ProviderInvoice /\ NotSeen.modified = 0
  BY DEF NotSeen, ProviderInvoice, ProviderStatuses, Times
<1>3. /\ next \in SyncRecord
      /\ next.pc = "upsert" /\ next.since = sync[s].since
      /\ next.fetched = sync[s].fetched /\ next.stamp = sync[s].stamp
      /\ next.batch = sync[s].batch \ {i} /\ next.skipped = sync[s].skipped \cup skipped
      /\ next.seen = [sync[s].seen EXCEPT ![i] = NotSeen]
  BY <1>1, <1>2 DEF SyncRecord, Steps
<1>4. sync' = [sync EXCEPT ![s] = next]
  BY DEF NextInvoice
<1> HIDE DEF next
<1>5. OnlyMoves(s) /\ sync'[s] = next
  BY <1>3, <1>4, ReplacingMoves DEF IInv
<1>6. sync[s].seen \in [Invoices -> ProviderInvoice]
  BY <1>1 DEF SyncRecord
<1>7. ASSUME NEW j \in Invoices
      PROVE  /\ next.seen[j].modified <= provider[j].modified
             /\ j # i => next.seen[j] = sync[s].seen[j]
  <2>1. provider[j].modified \in Int /\ provider[j].modified >= 1
    BY DEF IInv, TypeOK, Clock, Times, ProviderInvoice
  <2>2. CASE j = i
    BY <1>2, <1>3, <1>6, <2>1, <2>2
  <2>3. CASE j # i
    BY <1>1, <1>3, <1>6, <2>3 DEF SyncInv, OfThePast
  <2> QED BY <2>2, <2>3
<1>8. OfThePast(s)'
  BY <1>1, <1>3, <1>5, <1>7 DEF SyncInv, OfThePast
<1>9. ASSUME NEW j \in Invoices \ lost'
      PROVE  (BeforeFetch(s, j) /\ AfterFetch(s, j) /\ HalfWritten(s, j))'
  <2>1. CASE j = i
    BY <1>3, <1>5, <2>1 DEF BeforeFetch, AfterFetch, HalfWritten
  <2>2. CASE j # i
    <3>1. AfterFetch(s, j) /\ (Reflected(j) => Reflected(j)')
      BY <1>1, <2>2 DEF SyncInv
    <3>2. AfterFetch(s, j)'
      BY <1>3, <1>5, <1>7, <2>2, <3>1 DEF AfterFetch
    <3> QED BY <1>3, <1>5, <3>2 DEF BeforeFetch, HalfWritten
  <2> QED BY <2>1, <2>2
<1> QED BY <1>5, <1>8, <1>9 DEF SyncInv

\* A skipped invoice.
LEMMA SkipKeeps ==
    ASSUME IInv, NEW s \in Syncs, NEW i \in Invoices, Skip(s, i)
    PROVE  IInv'
<1>1. /\ sync[s].pc \in {"upsert", "track"} /\ NextInvoice(s, i, {i})
      /\ UNCHANGED <<now, provider, connection, running, old, facts, tracked, lost>>
  BY DEF Skip
<1>2. \A j \in Invoices \ lost' : j \notin lost /\ (Reflected(j) => Reflected(j)')
  BY <1>1 DEF Reflected
<1>3. i \in {i} /\ {i} \in SUBSET Invoices
  OBVIOUS
<1>4. OnlyMoves(s) /\ SyncInv(s)'
  BY <1>1, <1>2, <1>3, NextInvoiceIsSafe
<1>5. faults' \in 0..MaxFaults
  BY DEF Skip, Fault, IInv, TypeOK
<1> QED
  BY <1>1, <1>4, <1>5, MovingIsSafe DEF IInv, TypeOK

\* The second write of an upsert.  If it leaves the invoice out of `lost', it
\* either was reflected and still is, or is now, or has changed since.
LEMMA TrackKeeps == ASSUME IInv, NEW s \in Syncs, Track(s) PROVE IInv'
<1>0. PICK i \in Invoices : i = sync[s].current
  BY DEF IInv, TypeOK, SyncRecord, SyncInv, OfThePast, Track
<1> DEFINE version == sync[s].seen[i].modified
           status == MapProviderStatus[sync[s].seen[i].status]
           written == [status |-> status, due |-> DueAfter(s, i, status), asOf |-> version]
<1>1. /\ sync[s] \in SyncRecord /\ SyncInv(s) /\ sync[s].pc = "track"
      /\ UNCHANGED <<now, provider, connection, running, old, facts, faults>>
  BY DEF IInv, TypeOK, Track
<1>3. /\ sync[s].seen[i] \in ProviderInvoice
      /\ version <= provider[i].modified
  BY <1>0, <1>1 DEF SyncRecord, SyncInv, OfThePast
<1>4. /\ version \in Int /\ provider[i].modified \in Int
      /\ facts[i] \in Int /\ tracked[i].asOf \in Int /\ tracked[i] \in TrackedInvoice
  BY <1>3 DEF IInv, TypeOK, ProviderInvoice, TrackedInvoice, Times
<1>5. written \in TrackedInvoice
  <2>1. status \in {"pending", "paid", "manually_resolved", "paused"}
    BY <1>3 DEF ProviderInvoice, ProviderStatuses, MapProviderStatus
  <2>2. DueAfter(s, i, status) \in BOOLEAN
    BY <1>4 DEF DueAfter, TrackedInvoice
  <2>3. version \in Times
    BY <1>3 DEF ProviderInvoice
  <2> HIDE DEF status, version
  <2> QED BY <2>1, <2>2, <2>3 DEF TrackedInvoice
<1>6. CASE sync[s].creates /\ tracked[i].status # "none"
  <2>1. NextInvoice(s, i, {i}) /\ UNCHANGED <<tracked, lost>>
    BY <1>0, <1>6 DEF Track
  <2>2. \A j \in Invoices \ lost' : j \notin lost /\ (Reflected(j) => Reflected(j)')
    BY <1>1, <2>1 DEF Reflected
  <2>3. i \in {i} /\ {i} \in SUBSET Invoices
    OBVIOUS
  <2>4. OnlyMoves(s) /\ SyncInv(s)'
    BY <1>1, <2>1, <2>2, <2>3, NextInvoiceIsSafe
  <2> QED
    BY <1>1, <2>1, <2>4, MovingIsSafe DEF IInv, TypeOK
<1>7. CASE ~(sync[s].creates /\ tracked[i].status # "none")
  <2>1. /\ tracked' = [tracked EXCEPT ![i] = written]
        /\ lost' = IF version < tracked[i].asOf THEN lost \cup {i}
                   ELSE IF UpToDate(i, version) THEN lost \ {i} ELSE lost
        /\ NextInvoice(s, i, {})
    BY <1>0, <1>7 DEF Track
  <2>2. /\ tracked' \in [Invoices -> TrackedInvoice]
        /\ tracked'[i].asOf = version
        /\ \A j \in Invoices : j # i => tracked'[j] = tracked[j]
    <3>1. written.asOf = version
      OBVIOUS
    <3> HIDE DEF written, version
    <3> QED BY <1>5, <2>1, <3>1 DEF IInv, TypeOK
  <2>3. lost' \in SUBSET Invoices /\ \A j \in Invoices : j # i => (j \in lost' <=> j \in lost)
    <3> HIDE DEF version
    <3> QED BY <2>1 DEF IInv, TypeOK
  <2>4. \A j \in Invoices : j # i => (Reflected(j) => Reflected(j)')
    BY <1>1, <2>2 DEF Reflected
  <2>5. UpToDate(i, version) => Reflected(i)'
    BY <1>1, <2>2 DEF UpToDate, Reflected
  <2>6. ASSUME i \notin lost', ~UpToDate(i, version)
        PROVE  i \notin lost /\ ~Reflected(i)
    <3>1. i \notin lost /\ version >= tracked[i].asOf
      BY <1>4, <2>1, <2>6
    <3>2. ~Reflected(i)
      BY <1>3, <1>4, <2>6, <3>1 DEF UpToDate, Reflected
    <3> QED BY <3>1, <3>2
  <2>7. ASSUME i \notin lost'
        PROVE  \/ Reflected(i)' \/ i \in sync[s].skipped
               \/ provider[i].modified > sync[s].fetched
               \/ provider[i].status \notin Listed
    <3>1. CASE UpToDate(i, version)
      BY <2>5, <3>1
    <3>2. CASE ~UpToDate(i, version)
      <4>1. i \notin lost /\ ~Reflected(i)
        BY <2>6, <2>7, <3>2
      <4>2. AfterFetch(s, i) /\ HalfWritten(s, i)
        BY <1>1, <4>1 DEF SyncInv
      <4>3. version # provider[i].modified
        BY <1>0, <1>1, <3>2, <4>2 DEF HalfWritten, UpToDate
      <4> QED BY <1>1, <4>1, <4>2, <4>3 DEF AfterFetch
    <3> QED BY <3>1, <3>2
  <2>8. \A j \in Invoices \ lost' : Kept(j)
    <3> SUFFICES ASSUME NEW j \in Invoices \ lost' PROVE Kept(j)
      OBVIOUS
    <3>1. CASE j # i
      BY <1>1, <2>3, <2>4, <3>1 DEF Kept
    <3>2. CASE j = i
      <4> QED BY <1>1, <2>5, <2>6, <3>2 DEF Kept
    <3> QED BY <3>1, <3>2
  <2>9. OnlyMoves(s) /\ SyncInv(s)'
    <3>1. {} \in SUBSET Invoices /\ now' = now /\ provider' = provider
          /\ sync[s].pc \in {"upsert", "track"}
      BY <1>1
    <3> HIDE DEF version
    <3> QED BY <2>1, <2>3, <2>4, <2>7, <3>1, NextInvoiceIsSafe
  <2>10. \A o \in Syncs : SyncInv(o)'
    BY <1>1, <2>8, <2>9, OthersAreSafe
  <2>11. TypeOK' /\ Clock' /\ FactsInv' /\ ActiveIsSynced'
    BY <1>1, <2>2, <2>3, <2>9 DEF IInv, TypeOK, OnlyMoves, Clock, FactsInv, ActiveIsSynced
  <2>12. NothingElseIsLost'
    <3> SUFFICES ASSUME NEW j \in Invoices \ lost', provider'[j].status \in Listed
                 PROVE  (provider[j].modified > connection.since \/ Reflected(j))'
      BY DEF NothingElseIsLost
    <3>1. CASE j # i
      BY <1>1, <2>3, <2>4, <3>1 DEF IInv, NothingElseIsLost
    <3>2. CASE j = i
      <4> QED BY <1>1, <2>5, <2>6, <3>2 DEF IInv, NothingElseIsLost
    <3> QED BY <3>1, <3>2
  <2> QED BY <2>10, <2>11, <2>12 DEF IInv
<1> QED BY <1>6, <1>7

\* A request about to close its run has nothing of the invoices in hand.
LEMMA ClosingIsSafe ==
    ASSUME TypeOK, Clock', NEW s \in Syncs,
           sync' = [sync EXCEPT ![s] = [IdleSync EXCEPT !.pc = "close"]],
           now' \in Times, provider' \in [Invoices -> ProviderInvoice]
    PROVE  OnlyMoves(s) /\ SyncInv(s)'
<1> DEFINE next == [IdleSync EXCEPT !.pc = "close"]
<1>1. next \in SyncRecord
  BY IdleIsSync DEF SyncRecord, Steps
<1>2. /\ next.pc = "close" /\ next.since = 0 /\ next.fetched = 0 /\ next.stamp = 0
      /\ next.seen = [i \in Invoices |-> NotSeen]
  BY DEF IdleSync
<1> HIDE DEF next
<1>3. OnlyMoves(s) /\ sync'[s] = next
  BY <1>1, ReplacingMoves DEF next
<1> QED BY <1>2, <1>3, FreeIsSafe

\* lastSyncedAt moves to the stamp: what the sync did not bring and the next
\* one will not fetch joins `lost'.
LEMMA UpdateConnectionKeeps == ASSUME IInv, NEW s \in Syncs, UpdateConnection(s) PROVE IInv'
<1>1. /\ sync[s] \in SyncRecord /\ SyncInv(s) /\ connection \in [status : ConnectionStatuses, since : Times]
      /\ sync[s].pc = "upsert" /\ sync[s].batch = {}
      /\ lost' = lost \cup PassedOver(s)
      /\ sync' = [sync EXCEPT ![s] = [IdleSync EXCEPT !.pc = "close"]]
      /\ UNCHANGED <<now, provider, running, old, facts, tracked, faults>>
  BY DEF IInv, TypeOK, UpdateConnection
<1>2. PICK outcome \in {"success", "partial"} :
          connection' = [status |-> Resolve(sync[s].status, outcome), since |-> Moved(s, outcome)]
  BY DEF UpdateConnection
<1>3. Resolve(sync[s].status, outcome) \in ConnectionStatuses
  BY <1>1 DEF Resolve, ConnectionStatuses
<1>4. /\ connection' \in [status : ConnectionStatuses, since : Times]
      /\ connection'.since = sync[s].stamp /\ sync[s].stamp \in Times
      /\ sync[s].stamp >= 1 /\ sync[s].stamp <= now
  BY <1>1, <1>2, <1>3 DEF Moved, SyncRecord, SyncInv, OfThePast
<1>5. Clock' /\ FactsInv' /\ ActiveIsSynced'
  BY <1>1, <1>4 DEF IInv, Clock, FactsInv, ActiveIsSynced, Times
<1>6. now \in Times /\ provider \in [Invoices -> ProviderInvoice]
  BY DEF IInv, TypeOK
<1>7. OnlyMoves(s) /\ SyncInv(s)'
  BY <1>1, <1>5, <1>6, ClosingIsSafe DEF IInv
<1>8. \A o \in Syncs : SyncInv(o)'
  <2>1. \A i \in Invoices \ lost' : Kept(i)
    BY <1>1 DEF Kept, Reflected
  <2> QED BY <1>1, <1>7, <2>1, OthersAreSafe
<1>9. TypeOK'
  BY <1>1, <1>4, <1>7 DEF IInv, TypeOK, OnlyMoves, PassedOver, SyncRecord
<1>10. NothingElseIsLost'
  <2> SUFFICES ASSUME NEW i \in Invoices \ lost', provider'[i].status \in Listed
               PROVE  (provider[i].modified > connection.since \/ Reflected(i))'
    BY DEF NothingElseIsLost
  <2>1. i \notin lost /\ i \notin PassedOver(s)
    BY <1>1
  <2>2. provider[i].modified > sync[s].fetched \/ Reflected(i)
    BY <1>1, <2>1 DEF SyncInv, AfterFetch, PassedOver
  <2>3. CASE provider[i].modified > sync[s].fetched
    <3>1. ~(provider[i].modified <= sync[s].stamp)
      BY <2>1, <2>3 DEF PassedOver
    <3>2. provider[i].modified \in Int /\ sync[s].stamp \in Int
      BY <1>4, <1>6 DEF Times, ProviderInvoice
    <3> QED BY <1>1, <1>4, <3>1, <3>2
  <2>4. CASE Reflected(i)
    BY <1>1, <2>4 DEF Reflected
  <2> QED BY <2>2, <2>3, <2>4
<1> QED BY <1>5, <1>8, <1>9, <1>10 DEF IInv

LEMMA CallFailsKeeps == ASSUME IInv, NEW s \in Syncs, CallFails(s) PROVE IInv'
<1>1. PICK outcome \in {"failed", "unauthorized"} :
          sync' = [sync EXCEPT ![s] =
                     [IdleSync EXCEPT !.pc = "catch", !.status = sync[s].status,
                                      !.failure = outcome]]
  BY DEF CallFails
<1> DEFINE next == [IdleSync EXCEPT !.pc = "catch", !.status = sync[s].status,
                                    !.failure = outcome]
<1>2. next \in SyncRecord
  BY IdleIsSync DEF SyncRecord, Steps, Failures, IInv, TypeOK
<1>3. /\ next.pc = "catch" /\ next.since = 0 /\ next.fetched = 0 /\ next.stamp = 0
      /\ next.seen = [i \in Invoices |-> NotSeen]
  BY DEF IdleSync
<1> HIDE DEF next
<1>4. OnlyMoves(s) /\ sync'[s] = next
  BY <1>1, <1>2, ReplacingMoves DEF next, IInv
<1>5. SyncInv(s)'
  BY <1>3, <1>4, UnmovedWorld, FreeIsSafe DEF CallFails
<1> QED
  BY <1>4, <1>5, MovingIsSafe DEF CallFails, Fault, IInv, TypeOK

\* A failure leaves lastSyncedAt, and makes nothing active.
LEMMA CatchKeeps == ASSUME IInv, NEW s \in Syncs, Catch(s) PROVE IInv'
<1>1. /\ sync[s] \in SyncRecord /\ connection \in [status : ConnectionStatuses, since : Times]
      /\ sync' = [sync EXCEPT ![s] = [IdleSync EXCEPT !.pc = "close"]]
      /\ connection' = [status |-> Resolve(sync[s].status, sync[s].failure),
                        since |-> connection.since]
      /\ UNCHANGED <<now, provider, running, old, facts, tracked, lost, faults>>
  BY DEF IInv, TypeOK, Catch, SinceAfterFailure
<1>2. Resolve(sync[s].status, sync[s].failure) \in {connection.status, "revoked", "error"}
  BY <1>1 DEF Resolve, SyncRecord, Failures
<1>3. /\ connection' \in [status : ConnectionStatuses, since : Times]
      /\ connection'.since = connection.since
      /\ connection'.status = "active" => connection.status = "active"
  BY <1>1, <1>2 DEF ConnectionStatuses
<1>4. Clock' /\ FactsInv' /\ ActiveIsSynced' /\ NothingElseIsLost'
  BY <1>1, <1>3 DEF IInv, Clock, FactsInv, ActiveIsSynced, NothingElseIsLost, Reflected
<1>5. OnlyMoves(s) /\ SyncInv(s)'
  BY <1>1, <1>4, ClosingIsSafe DEF IInv, TypeOK
<1>6. \A o \in Syncs : SyncInv(o)'
  <2>1. \A i \in Invoices \ lost' : Kept(i)
    BY <1>1 DEF Kept, Reflected
  <2> QED BY <1>1, <1>5, <2>1, OthersAreSafe
<1>7. TypeOK'
  BY <1>1, <1>3, <1>5 DEF IInv, TypeOK, OnlyMoves
<1> QED BY <1>4, <1>6, <1>7 DEF IInv

LEMMA CloseRunKeeps == ASSUME IInv, NEW s \in Syncs, CloseRun(s) PROVE IInv'
<1>1. OnlyMoves(s) /\ SyncInv(s)'
  BY UnmovedWorld, LeavingIsSafe DEF CloseRun
<1> QED
  BY <1>1, MovingIsSafe DEF CloseRun, IInv, TypeOK

LEMMA DieKeeps == ASSUME IInv, NEW s \in Syncs, Die(s) PROVE IInv'
<1>1. OnlyMoves(s) /\ SyncInv(s)'
  BY UnmovedWorld, LeavingIsSafe DEF Die
<1> QED
  BY <1>1, MovingIsSafe DEF Die, Fault, IInv, TypeOK

LEMMA GetsOldKeeps == ASSUME IInv, NEW s \in Syncs, GetsOld(s) PROVE IInv'
BY DEF GetsOld, IInv, TypeOK, Clock, FactsInv, NothingElseIsLost, ActiveIsSynced, SyncInv,
       OfThePast, BeforeFetch, AfterFetch, HalfWritten, Reflected

LEMMA NextKeeps == ASSUME IInv, [Next]_vars PROVE IInv'
<1>1. CASE \E i \in Invoices, status \in Changes : ProviderChanges(i, status)
  BY <1>1, ProviderChangesKeeps
<1>2. CASE Disconnect \/ Reconnect \/ DispatchFails
  BY <1>2, DisconnectKeeps, ReconnectKeeps, DispatchFailsKeeps
<1>3. CASE \E s \in Syncs : SyncStep(s)
  BY <1>3, GuardKeeps, ReadConnectionKeeps, CreateRunKeeps, FetchKeeps, StampKeeps,
     UpsertFactsKeeps, TrackKeeps, UpdateConnectionKeeps, CatchKeeps, CloseRunKeeps
     DEF SyncStep
<1>4. CASE \E s \in Syncs : Begin(s) \/ CallFails(s) \/ Die(s) \/ GetsOld(s)
                            \/ \E i \in Invoices : Skip(s, i)
  BY <1>4, BeginKeeps, CallFailsKeeps, DieKeeps, GetsOldKeeps, SkipKeeps
<1>5. CASE UNCHANGED vars
  BY <1>5 DEF vars, IInv, TypeOK, Clock, FactsInv, NothingElseIsLost, ActiveIsSynced, SyncInv,
     OfThePast, BeforeFetch, AfterFetch, HalfWritten, Reflected
<1> QED BY <1>1, <1>2, <1>3, <1>4, <1>5 DEF Next

-----------------------------------------------------------------------------
(* The theorems.                                                           *)

\* The invariant holds of every reachable state.
THEOREM Invariance == Spec => []IInv
BY InitEstablishes, NextKeeps, PTL DEF Spec

\* Every variable of a sync, of the connection and of the invoices has its
\* type, for any number of syncs, invoices, changes and faults (sync.ts).
THEOREM TypeCorrect == Spec => []TypeOK
<1>1. IInv => TypeOK
  BY DEF IInv
<1> QED BY <1>1, Invariance, PTL

\* Whatever overlaps, fails, dies or is reconnected, a change of an invoice is
\* reflected or will be fetched, unless the invoice is now a draft, which no sync
\* asks for, or a sync passed the change over (sync.ts, syncConnection; xero.ts,
\* getInvoices).
THEOREM NothingElseIsLostHolds == Spec => []NothingElseIsLost
<1>1. IInv => NothingElseIsLost
  BY DEF IInv
<1> QED BY <1>1, Invariance, PTL

\* A connection that looks active has been synced since it was connected
\* (resolveConnectionStatusAfterSync).
THEOREM ActiveIsSyncedHolds == Spec => []ActiveIsSynced
<1>1. IInv => ActiveIsSynced
  BY DEF IInv
<1> QED BY <1>1, Invariance, PTL

-----------------------------------------------------------------------------
(* What bars a sync, and what a sync does to a connection it read earlier. *)

\* A sync at work has its run on record, no run grows old while its sync lives,
\* and a sync read the connection in a status it syncs.
HeldInv ==
    /\ \A s \in Syncs : AtWork(s) => s \in running
    /\ \A s \in old : sync[s].pc = "idle"
    /\ \A s \in Syncs : sync[s].status \in Syncable

\* The record a step leaves to its sync.
LEMMA StepOfSync ==
    ASSUME TypeOK, NEW s \in Syncs, sync[s].status \in Syncable,
           \/ Begin(s) \/ SyncStep(s) \/ CallFails(s) \/ Die(s)
           \/ \E i \in Invoices : Skip(s, i)
    PROVE  /\ \A o \in Syncs : o # s => sync'[o] = sync[o]
           /\ sync'[s].status \in Syncable
           /\ AtWork(s)' => AtWork(s) \/ s \in running'
<1>0. /\ sync[s] \in SyncRecord /\ sync \in [Syncs -> SyncRecord]
      /\ "active" \in Syncable
      /\ IdleSync.pc = "idle" /\ IdleSync.status = "active"
  BY DEF TypeOK, Syncable, IdleSync
<1>1. CASE Begin(s) \/ Guard(s) \/ CloseRun(s) \/ Die(s)
  <2>1. CASE Leave(s)
    <3> HIDE DEF IdleSync
    <3> QED BY <1>0, <2>1 DEF Leave, AtWork
  <2>2. CASE ~Leave(s)
    <3>1. \E step \in {"guard", "read"} : Goto(s, step)
      BY <1>1, <2>2 DEF Begin, Guard, CloseRun, Die
    <3> QED BY <1>0, <3>1 DEF Goto, AtWork, SyncRecord
  <2> QED BY <2>1, <2>2
<1>2. CASE ReadConnection(s) \/ CreateRun(s)
  <2>1. CASE Leave(s)
    <3> HIDE DEF IdleSync
    <3> QED BY <1>0, <2>1 DEF Leave, AtWork
  <2>2. CASE ReadConnection(s) /\ ~Leave(s)
    BY <1>0, <2>2 DEF ReadConnection, AtWork, SyncRecord
  <2>3. CASE CreateRun(s)
    BY <1>0, <2>3 DEF CreateRun, Goto, AtWork, SyncRecord
  <2> QED BY <1>2, <2>1, <2>2, <2>3
<1>3. CASE Fetch(s) \/ Stamp(s) \/ \E i \in Invoices : UpsertFacts(s, i)
  <2>1. AtWork(s)
    BY <1>3 DEF Fetch, Stamp, UpsertFacts, AtWork
  <2>2. CASE Fetch(s)
    BY <1>0, <2>1, <2>2 DEF Fetch, SyncRecord
  <2>3. CASE Stamp(s)
    BY <1>0, <2>1, <2>3 DEF Stamp, SyncRecord
  <2>4. ASSUME NEW i \in Invoices, UpsertFacts(s, i)
        PROVE  /\ sync'[s].status = sync[s].status
               /\ \A o \in Syncs : o # s => sync'[o] = sync[o]
    BY <1>0, <2>4 DEF UpsertFacts, SyncRecord
  <2> QED BY <1>0, <1>3, <2>1, <2>2, <2>3, <2>4
<1>4. CASE Track(s) \/ \E i \in Invoices : Skip(s, i)
  <2>1. /\ sync[s].pc \in {"upsert", "track"}
        /\ \E i \in Invoices \cup {Null}, skipped \in SUBSET (Invoices \cup {Null}) :
              NextInvoice(s, i, skipped)
    BY <1>0, <1>4 DEF Track, Skip, SyncRecord
  <2> QED BY <1>0, <2>1 DEF NextInvoice, AtWork, SyncRecord
<1>5. CASE UpdateConnection(s) \/ Catch(s) \/ CallFails(s)
  <2>1. AtWork(s)
    BY <1>5 DEF UpdateConnection, Catch, CallFails, AtWork
  <2>2. CASE UpdateConnection(s) \/ Catch(s)
    <3> DEFINE next == [IdleSync EXCEPT !.pc = "close"]
    <3>1. next.status = "active"
      BY DEF IdleSync
    <3>2. sync' = [sync EXCEPT ![s] = next]
      BY <2>2 DEF UpdateConnection, Catch
    <3> HIDE DEF next
    <3> QED BY <1>0, <2>1, <3>1, <3>2
  <2>3. CASE CallFails(s)
    <3>1. PICK outcome \in {"failed", "unauthorized"} :
              sync' = [sync EXCEPT ![s] =
                         [IdleSync EXCEPT !.pc = "catch", !.status = sync[s].status,
                                          !.failure = outcome]]
      BY <2>3 DEF CallFails
    <3> DEFINE next == [IdleSync EXCEPT !.pc = "catch", !.status = sync[s].status,
                                        !.failure = outcome]
    <3>2. next.status = sync[s].status
      BY DEF IdleSync
    <3> HIDE DEF next
    <3>3. sync' = [sync EXCEPT ![s] = next]
      BY <3>1 DEF next
    <3> QED BY <1>0, <2>1, <3>2, <3>3
  <2> QED BY <1>5, <2>2, <2>3
<1> QED BY <1>1, <1>2, <1>3, <1>4, <1>5 DEF SyncStep

\* The runs on record after it: only a new sync recovers those of others, and
\* those are old.
LEMMA StepOfRuns ==
    ASSUME TypeOK, NEW s \in Syncs,
           \/ Begin(s) \/ SyncStep(s) \/ CallFails(s) \/ Die(s)
           \/ \E i \in Invoices : Skip(s, i)
    PROVE  /\ \A o \in running : o \in running' \/ o \in old \/ (o = s /\ ~AtWork(s)')
           /\ old' = {} \/ (old' = old /\ sync[s].pc # "idle")
<1>1. CASE Begin(s)
  BY <1>1 DEF Begin, Recovered
<1>2. CASE CloseRun(s)
  <2>1. IdleSync.pc = "idle"
    BY DEF IdleSync
  <2> HIDE DEF IdleSync
  <2>2. ~AtWork(s)'
    BY <1>2, <2>1 DEF CloseRun, Leave, AtWork, TypeOK
  <2> QED BY <1>2, <2>2 DEF CloseRun
<1>3. CASE ~Begin(s) /\ ~CloseRun(s)
  <2>1. running \subseteq running' /\ old' = old /\ sync[s].pc # "idle"
    BY <1>3 DEF SyncStep, Guard, ReadConnection, CreateRun, Fetch, Stamp, UpsertFacts,
       Track, UpdateConnection, Catch, CallFails, Die, Skip
  <2> QED BY <2>1
<1> QED BY <1>1, <1>2, <1>3

LEMMA HeldStep == TypeOK /\ HeldInv /\ [Next]_vars => HeldInv'
<1> SUFFICES ASSUME TypeOK, HeldInv, [Next]_vars PROVE HeldInv'
  OBVIOUS
<1>1. ASSUME NEW s \in Syncs,
             \/ Begin(s) \/ SyncStep(s) \/ CallFails(s) \/ Die(s)
             \/ \E i \in Invoices : Skip(s, i)
      PROVE  HeldInv'
  <2>1. /\ \A o \in Syncs : o # s => sync'[o] = sync[o]
        /\ sync'[s].status \in Syncable
        /\ AtWork(s)' => AtWork(s) \/ s \in running'
    BY <1>1, StepOfSync DEF HeldInv
  <2>2. /\ \A o \in running : o \in running' \/ o \in old \/ (o = s /\ ~AtWork(s)')
        /\ old' = {} \/ (old' = old /\ sync[s].pc # "idle")
    BY <1>1, StepOfRuns
  <2>3. ASSUME NEW o \in Syncs, AtWork(o)' PROVE o \in running'
    <3>1. o \in running' \/ AtWork(o)
      BY <2>1, <2>3 DEF AtWork
    <3>2. AtWork(o) => o \in running /\ o \notin old
      BY DEF HeldInv, AtWork
    <3> QED BY <2>2, <2>3, <3>1, <3>2
  <2>4. \A o \in old' : sync'[o].pc = "idle"
    BY <2>1, <2>2 DEF HeldInv, TypeOK
  <2>5. \A o \in Syncs : sync'[o].status \in Syncable
    BY <2>1 DEF HeldInv
  <2> QED BY <2>3, <2>4, <2>5 DEF HeldInv, Syncable
<1>2. ASSUME NEW s \in Syncs, GetsOld(s) PROVE HeldInv'
  BY <1>2 DEF GetsOld, HeldInv, AtWork
<1>3. CASE \/ \E i \in Invoices, status \in Changes : ProviderChanges(i, status)
           \/ Disconnect \/ Reconnect \/ DispatchFails \/ UNCHANGED vars
  <2>1. UNCHANGED <<running, old, sync>>
    BY <1>3 DEF ProviderChanges, Disconnect, Reconnect, DispatchFails, vars
  <2> QED BY <2>1 DEF HeldInv, AtWork
<1> QED BY <1>1, <1>2, <1>3 DEF Next

LEMMA HeldHolds == Spec => []HeldInv
<1>1. Init => HeldInv
  BY DEF Init, HeldInv, AtWork, IdleSync, Syncable
<1> QED BY <1>1, HeldStep, TypeCorrect, PTL DEF Spec

\* A sync that passes the guard finds no other at work, for any number of syncs,
\* deaths and recovered runs (syncConnection, recoverStaleRunningSyncRuns).
THEOREM GuardExcludesHolds == Spec => GuardExcludes
<1>1. ASSUME TypeOK, HeldInv, [Next]_vars,
             NEW s \in Syncs, sync[s].pc = "guard", sync'[s].pc = "read"
      PROVE  \A o \in Syncs : ~AtWork(o)
  <2>1. PICK t \in Syncs : \/ Begin(t) \/ SyncStep(t) \/ CallFails(t) \/ Die(t)
                           \/ \E i \in Invoices : Skip(t, i)
    <3>1. sync' # sync
      BY <1>1
    <3>2. /\ \A i \in Invoices, status \in Changes : ~ProviderChanges(i, status)
          /\ ~Disconnect /\ ~Reconnect /\ ~DispatchFails /\ ~UNCHANGED vars
          /\ \A t \in Syncs : ~GetsOld(t)
      BY <3>1 DEF vars, ProviderChanges, Disconnect, Reconnect, DispatchFails, GetsOld
    <3> QED BY <1>1, <3>2 DEF Next
  <2>2. \A o \in Syncs : o # t => sync'[o] = sync[o]
    BY <1>1, <2>1, StepOfSync DEF HeldInv
  <2>3. t = s
    BY <1>1, <2>2
  <2>i. IdleSync.pc = "idle"
    BY DEF IdleSync
  <2> HIDE DEF IdleSync
  <2>n. ~Leave(s)
    BY <1>1, <2>i DEF Leave, TypeOK
  <2>4. Guard(s)
    <3>1. ~Begin(s) /\ ~CallFails(s) /\ ~Die(s) /\ \A i \in Invoices : ~Skip(s, i)
      BY <1>1, <2>n DEF Begin, CallFails, Die, Skip
    <3>2. /\ ~ReadConnection(s) /\ ~CreateRun(s) /\ ~Fetch(s) /\ ~Stamp(s)
          /\ \A i \in Invoices : ~UpsertFacts(s, i)
          /\ ~Track(s) /\ ~UpdateConnection(s) /\ ~Catch(s) /\ ~CloseRun(s)
      BY <1>1 DEF ReadConnection, CreateRun, Fetch, Stamp, UpsertFacts, Track,
         UpdateConnection, Catch, CloseRun
    <3> QED BY <2>1, <2>3, <3>1, <3>2 DEF SyncStep
  <2>5. running = {}
    BY <2>4, <2>n DEF Guard
  <2> QED BY <1>1, <2>5 DEF HeldInv
<1>2. TypeOK /\ HeldInv /\ [Next]_vars =>
        [\A s \in Syncs : sync[s].pc = "guard" /\ sync'[s].pc = "read"
            => \A o \in Syncs : ~AtWork(o)]_vars
  BY <1>1
<1> QED BY <1>2, HeldHolds, TypeCorrect, PTL DEF Spec, GuardExcludes

\* Of the syncs that a disconnect overtakes, only those that read the connection
\* as never synced or failing, or whose token is refused, end the disconnection
\* (resolveConnectionStatusAfterSync).
THEOREM OnlyOlderSyncsReconnectHolds == Spec => OnlyOlderSyncsReconnect
<1>1. ASSUME TypeOK, HeldInv, [Next]_vars, connection.status = "disconnected",
             connection'.status \notin {"disconnected", "pending_first_sync"}
      PROVE  \E s \in Syncs :
                /\ sync[s].pc \in {"upsert", "catch"} /\ sync'[s].pc = "close"
                /\ sync[s].status \in Syncable
                /\ sync[s].status = "active" => sync[s].failure = "unauthorized"
  <2>1. PICK s \in Syncs : UpdateConnection(s) \/ Catch(s)
    <3>1. connection'.status # connection.status
      BY <1>1
    <3>2. /\ \A i \in Invoices, status \in Changes : ~ProviderChanges(i, status)
          /\ ~UNCHANGED vars
          /\ \A s \in Syncs : /\ ~Begin(s) /\ ~CallFails(s) /\ ~Die(s) /\ ~GetsOld(s)
                              /\ \A i \in Invoices : ~Skip(s, i)
      BY <3>1 DEF ProviderChanges, vars, Begin, CallFails, Die, GetsOld, Skip
    <3>3. ~Disconnect /\ ~Reconnect /\ ~DispatchFails
      <4>1. ~DispatchFails
        BY <1>1 DEF DispatchFails
      <4>2. ~Disconnect /\ ~Reconnect
        BY <1>1 DEF Disconnect, Reconnect, TypeOK
      <4> QED BY <4>1, <4>2
    <3>4. \A s \in Syncs :
             /\ ~Guard(s) /\ ~ReadConnection(s) /\ ~CreateRun(s) /\ ~Fetch(s) /\ ~Stamp(s)
             /\ \A i \in Invoices : ~UpsertFacts(s, i)
             /\ ~Track(s) /\ ~CloseRun(s)
      BY <3>1 DEF Guard, ReadConnection, CreateRun, Fetch, Stamp, UpsertFacts, Track, CloseRun
    <3> QED BY <1>1, <3>2, <3>3, <3>4, Zenon DEF Next, SyncStep
  <2>2. /\ sync[s].pc \in {"upsert", "catch"}
        /\ sync[s].status \in Syncable /\ sync[s].failure \in Failures
    BY <1>1, <2>1 DEF UpdateConnection, Catch, HeldInv, TypeOK, SyncRecord
  <2>3. sync'[s].pc = "close"
    <3> DEFINE next == [IdleSync EXCEPT !.pc = "close"]
    <3>1. next.pc = "close"
      BY DEF IdleSync
    <3>2. sync' = [sync EXCEPT ![s] = next]
      BY <2>1 DEF UpdateConnection, Catch
    <3> HIDE DEF next
    <3> QED BY <1>1, <3>1, <3>2 DEF TypeOK
  <2>4. ASSUME sync[s].status = "active" PROVE sync[s].failure = "unauthorized"
    <3>1. CASE UpdateConnection(s)
      BY <1>1, <2>4, <3>1 DEF UpdateConnection, Resolve
    <3>2. CASE Catch(s)
      BY <1>1, <2>2, <2>4, <3>2 DEF Catch, Resolve, Failures
    <3> QED BY <2>1, <3>1, <3>2
  <2> QED BY <2>2, <2>3, <2>4
<1>2. TypeOK /\ HeldInv /\ [Next]_vars =>
        [connection.status = "disconnected"
            /\ connection'.status \notin {"disconnected", "pending_first_sync"}
         => \E s \in Syncs :
               /\ sync[s].pc \in {"upsert", "catch"} /\ sync'[s].pc = "close"
               /\ sync[s].status \in Syncable
               /\ sync[s].status = "active" => sync[s].failure = "unauthorized"]_vars
  BY <1>1
<1> QED BY <1>2, HeldHolds, TypeCorrect, PTL DEF Spec, OnlyOlderSyncsReconnect
=============================================================================
