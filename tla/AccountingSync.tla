--------------------------- MODULE AccountingSync ---------------------------
(***************************************************************************)
(* Syncs of one Xero or MYOB connection (lib/providers/accounting/sync.ts):*)
(* each asks the provider for the invoices modified since the last sync,   *)
(* upserts them one by one and moves lastSyncedAt.  The worker, the routes *)
(* and the user start syncs; they overlap, fail and die, while invoices    *)
(* change at the provider and the user disconnects and connects again.     *)
(* The pages of one fetch are one reading of the provider.                 *)
(*                                                                         *)
(* Time is the number of changes so far at the provider: two instants with *)
(* no change between them are the same to a sync.                          *)
(***************************************************************************)
EXTENDS Integers

CONSTANTS
    Invoices,   \* invoices of the organisation
    Syncs,      \* requests that can run at the same time
    Changes,    \* statuses an invoice can change to at the provider
    MaxTime,    \* bound: changes at the provider
    MaxFaults,  \* bound: failed calls, failed upserts and killed requests
    Null        \* no invoice

VARIABLES
    now,         \* changes so far at the provider
    provider,    \* provider[i]: an invoice there and when it was modified
    connection,  \* its status and lastSyncedAt
    running,     \* syncs whose last AccountingSyncRun has status "running"
    old,         \* those whose run started two hours ago
    facts,       \* facts[i]: version the FinancialInvoice was written from
    tracked,     \* tracked[i]: the TrackedInvoice and the version it is from
    sync,        \* sync[s]: where a request is
    lost,        \* invoices whose last change a sync has passed over (history)
    faults       \* faults so far

vars == <<now, provider, connection, running, old, facts, tracked, sync, lost, faults>>

Times == 0..MaxTime  \* 0: never; the first instant is 1
ProviderStatuses == {"open", "paid", "voided", "draft"}  \* unknown is open

\* What the clients ask for: XeroProvider.getInvoices names the statuses, all
\* but draft; MYOB's names none, and its invoices have no drafts.
Listed == {"open", "paid", "voided"}

ASSUME SyncAssumption ==
    /\ MaxTime \in Nat \ {0} /\ MaxFaults \in Nat
    /\ Changes \subseteq ProviderStatuses
    /\ Null \notin Invoices

ProviderInvoice == [status : ProviderStatuses, modified : Times]
NotSeen == [status |-> "open", modified |-> 0]
Failures == {"none", "failed", "unauthorized"}
ConnectionStatuses == {"pending_first_sync", "active", "error", "revoked", "disconnected"}
Syncable == {"active", "pending_first_sync", "error"}
TrackedInvoice ==
    [status : {"none", "pending", "paid", "manually_resolved", "paused"},
     due : BOOLEAN, asOf : Times]  \* due: nextEmailAt is set

Steps == {"idle", "guard", "read", "create", "fetch", "stamp", "upsert",
          "track", "catch", "close"}

\* status, since: the connection as it was read.  fetched: the time of the
\* fetch.  stamp: syncStartedAt.  batch: fetched invoices still to upsert.
SyncRecord ==
    [pc : Steps, status : ConnectionStatuses, since : Times, fetched : Times,
     stamp : Times, batch : SUBSET Invoices, seen : [Invoices -> ProviderInvoice],
     skipped : SUBSET Invoices, current : Invoices \cup {Null},
     creates : BOOLEAN, wasOpen : BOOLEAN, failure : Failures]
IdleSync ==
    [pc |-> "idle", status |-> "active", since |-> 0, fetched |-> 0, stamp |-> 0,
     batch |-> {}, seen |-> [i \in Invoices |-> NotSeen], skipped |-> {},
     current |-> Null, creates |-> FALSE, wasOpen |-> FALSE, failure |-> "none"]

Goto(s, step) == sync' = [sync EXCEPT ![s].pc = step]
Leave(s) == sync' = [sync EXCEPT ![s] = IdleSync]
Fault == faults < MaxFaults /\ faults' = faults + 1

\* Wrong on purpose (mutant of MapProviderStatus): voided stays as it is.
MapVoidedAsItIs ==
    [open |-> "pending", paid |-> "paid", voided |-> "voided", draft |-> "paused"]

\* mapProviderStatusToTracked
MapProviderStatus ==
    [open |-> "pending", paid |-> "paid", voided |-> "manually_resolved", draft |-> "paused"]

\* resolveConnectionStatusAfterSync, of the status the sync began with; what
\* it leaves alone is the status there is now.
Resolve(before, outcome) ==
    IF before = "disconnected" THEN connection.status
    ELSE IF outcome \in {"success", "partial"}
         THEN IF before = "active" THEN connection.status ELSE "active"
    ELSE IF outcome = "unauthorized" THEN "revoked"
    ELSE IF before = "pending_first_sync" THEN "error"
    ELSE connection.status

-----------------------------------------------------------------------------
(* The provider and the user.                                              *)

ProviderChanges(i, status) ==
    /\ now < MaxTime
    /\ now' = now + 1
    /\ provider' = [provider EXCEPT ![i] = [status |-> status, modified |-> now + 1]]
    /\ lost' = lost \ {i}
    /\ UNCHANGED <<connection, running, old, facts, tracked, sync, faults>>

\* The disconnect route also takes the invoices' next email away.
Disconnect ==
    /\ connection' = [connection EXCEPT !.status = "disconnected"]
    /\ tracked' = [i \in Invoices |-> [tracked[i] EXCEPT !.due = FALSE]]
    /\ UNCHANGED <<now, provider, running, old, facts, sync, lost, faults>>

\* The OAuth callback, which then starts a sync.
Reconnect ==
    /\ connection' = [status |-> "pending_first_sync", since |-> 0]
    /\ UNCHANGED <<now, provider, running, old, facts, tracked, sync, lost, faults>>

\* triggerSyncNow: the worker did not acknowledge the first sync.
DispatchFails ==
    /\ connection = [status |-> "pending_first_sync", since |-> 0]
    /\ connection' = [connection EXCEPT !.status = "error"]
    /\ UNCHANGED <<now, provider, running, old, facts, tracked, sync, lost, faults>>

-----------------------------------------------------------------------------
(* syncConnection                                                          *)

\* Wrong on purpose (mutant of Recovered): stale runs are left running.
RecoveredNever == running

Recovered == running \ old

\* recoverStaleRunningSyncRuns
Begin(s) ==
    /\ sync[s].pc = "idle"
    /\ s \in running => s \in old
    /\ running' = Recovered
    /\ old' = {}
    /\ Goto(s, "guard")
    /\ UNCHANGED <<now, provider, connection, facts, tracked, lost, faults>>

\* Skip if another sync is running: a read, and the row is created later.
Guard(s) ==
    /\ sync[s].pc = "guard"
    /\ IF running # {} THEN Leave(s) ELSE Goto(s, "read")
    /\ UNCHANGED <<now, provider, connection, running, old, facts, tracked, lost, faults>>

ReadConnection(s) ==
    /\ sync[s].pc = "read"
    /\ IF connection.status \in Syncable
       THEN sync' = [sync EXCEPT ![s].pc = "create", ![s].status = connection.status,
                                 ![s].since = connection.since]
       ELSE Leave(s)
    /\ UNCHANGED <<now, provider, connection, running, old, facts, tracked, lost, faults>>

CreateRun(s) ==
    /\ sync[s].pc = "create"
    /\ running' = running \cup {s}
    /\ Goto(s, "fetch")
    /\ UNCHANGED <<now, provider, connection, old, facts, tracked, lost, faults>>

\* modifiedAfter: everything the client lists, or what was modified since the
\* last sync.
Asked(s) ==
    {i \in Invoices : provider[i].status \in Listed /\ provider[i].modified > sync[s].since}

Fetch(s) ==
    /\ sync[s].pc = "fetch"
    /\ sync' = [sync EXCEPT ![s].pc = "stamp", ![s].fetched = now, ![s].batch = Asked(s),
          ![s].seen = [i \in Invoices |-> IF i \in Asked(s) THEN provider[i] ELSE NotSeen]]
    /\ UNCHANGED <<now, provider, connection, running, old, facts, tracked, lost, faults>>

\* syncStartedAt is taken here, after the invoices and contacts were fetched.
Stamp(s) ==
    /\ sync[s].pc = "stamp"
    /\ sync' = [sync EXCEPT ![s].pc = "upsert", ![s].stamp = now]
    /\ UNCHANGED <<now, provider, connection, running, old, facts, tracked, lost, faults>>

\* The version replaces a newer one, that of a sync that overlaps.
Overtaken(i, version) == IF version < facts[i] THEN lost \cup {i} ELSE lost

\* upsertInvoice, first the canonical invoice, and whether its chasing record
\* is to be created or, if it is there, was open.
UpsertFacts(s, i) ==
    LET version == sync[s].seen[i].modified IN
    /\ sync[s].pc = "upsert"
    /\ i \in sync[s].batch
    /\ facts' = [facts EXCEPT ![i] = version]
    /\ lost' = Overtaken(i, version)
    /\ sync' = [sync EXCEPT ![s].pc = "track", ![s].current = i,
          ![s].creates = facts[i] = 0 \/ tracked[i].status = "none",
          ![s].wasOpen = tracked[i].status = "pending"]
    /\ UNCHANGED <<now, provider, connection, running, old, tracked, faults>>

\* The next email is only cleared when an open invoice closes, never set again.
DueAfter(s, i, status) ==
    IF sync[s].creates THEN status = "pending"
    ELSE tracked[i].due /\ ~(sync[s].wasOpen /\ status \in {"paid", "manually_resolved"})

\* Invoice i is done, or skipped.
NextInvoice(s, i, skipped) ==
    sync' = [sync EXCEPT ![s] =
        [sync[s] EXCEPT !.pc = "upsert", !.batch = @ \ {i}, !.seen[i] = NotSeen,
                        !.skipped = @ \cup skipped, !.current = Null,
                        !.creates = FALSE, !.wasOpen = FALSE]]

UpToDate(i, version) == version = facts[i] /\ version = provider[i].modified

\* Then the chasing record, whatever its status was.  Two syncs that create
\* it: the second fails on the unique key and skips the invoice.
Track(s) ==
    LET i == sync[s].current
        status == MapProviderStatus[sync[s].seen[i].status]
        version == sync[s].seen[i].modified
    IN
    /\ sync[s].pc = "track"
    /\ IF sync[s].creates /\ tracked[i].status # "none"
       THEN NextInvoice(s, i, {i}) /\ UNCHANGED <<tracked, lost>>
       ELSE /\ tracked' = [tracked EXCEPT ![i] =
                  [status |-> status, due |-> DueAfter(s, i, status), asOf |-> version]]
            /\ lost' = IF version < tracked[i].asOf THEN lost \cup {i}
                       ELSE IF UpToDate(i, version) THEN lost \ {i} ELSE lost
            /\ NextInvoice(s, i, {})
    /\ UNCHANGED <<now, provider, connection, running, old, facts, faults>>

\* An upsert fails, before or after the canonical invoice was written: it is
\* counted as skipped and the sync goes on.
Skip(s, i) ==
    /\ \/ sync[s].pc = "upsert" /\ i \in sync[s].batch
       \/ sync[s].pc = "track" /\ i = sync[s].current
    /\ Fault
    /\ NextInvoice(s, i, {i})
    /\ UNCHANGED <<now, provider, connection, running, old, facts, tracked, lost>>

\* Wrong on purpose (mutant of Moved): only a full success moves lastSyncedAt.
MovedByFullSuccess(s, outcome) ==
    IF outcome = "success" THEN sync[s].stamp ELSE connection.since

\* lastSyncedAt after a sync, partial or not.
Moved(s, outcome) == sync[s].stamp

\* What the next sync will not fetch and this one did not bring.
PassedOver(s) ==
    sync[s].skipped \cup
        {i \in Invoices : provider[i].modified > sync[s].fetched
                          /\ provider[i].modified <= sync[s].stamp}

\* All invoices are done and the spend side is synced, in part or in full.
UpdateConnection(s) ==
    /\ sync[s].pc = "upsert"
    /\ sync[s].batch = {}
    /\ \E outcome \in {"success", "partial"} :
          /\ outcome = "success" => sync[s].skipped = {}
          /\ connection' = [status |-> Resolve(sync[s].status, outcome),
                            since |-> Moved(s, outcome)]
    /\ sync' = [sync EXCEPT ![s] = [IdleSync EXCEPT !.pc = "close"]]
    /\ lost' = lost \cup PassedOver(s)
    /\ UNCHANGED <<now, provider, running, old, facts, tracked, faults>>

\* A call of the provider or the database outside the upserts fails.
CallFails(s) ==
    /\ \/ sync[s].pc \in {"fetch", "stamp"}
       \/ sync[s].pc = "upsert" /\ sync[s].batch = {}
    /\ Fault
    /\ \E outcome \in {"failed", "unauthorized"} :
          /\ outcome = "unauthorized" => sync[s].pc # "upsert"
          /\ sync' = [sync EXCEPT ![s] =
                [IdleSync EXCEPT !.pc = "catch", !.status = sync[s].status,
                                 !.failure = outcome]]
    /\ UNCHANGED <<now, provider, connection, running, old, facts, tracked, lost>>

\* Wrong on purpose (mutant of SinceAfterFailure): a failure moves it too.
SinceMoves == now

SinceAfterFailure == connection.since

Catch(s) ==
    /\ sync[s].pc = "catch"
    /\ connection' = [status |-> Resolve(sync[s].status, sync[s].failure),
                      since |-> SinceAfterFailure]
    /\ sync' = [sync EXCEPT ![s] = [IdleSync EXCEPT !.pc = "close"]]
    /\ UNCHANGED <<now, provider, running, old, facts, tracked, lost, faults>>

CloseRun(s) ==
    /\ sync[s].pc = "close"
    /\ running' = running \ {s}
    /\ Leave(s)
    /\ UNCHANGED <<now, provider, connection, old, facts, tracked, lost, faults>>

\* The request is killed, or its last transaction fails: its run is left.
Die(s) ==
    /\ sync[s].pc # "idle"
    /\ Fault
    /\ Leave(s)
    /\ UNCHANGED <<now, provider, connection, running, old, facts, tracked, lost>>

\* Two hours pass.  No request lives that long.
GetsOld(s) ==
    /\ sync[s].pc = "idle"
    /\ s \in running
    /\ old' = old \cup {s}
    /\ UNCHANGED <<now, provider, connection, running, facts, tracked, sync, lost, faults>>

-----------------------------------------------------------------------------
Init ==
    /\ now = 1
    /\ provider \in [Invoices -> [status : {"open"} \cup Changes, modified : {1}]]
    /\ connection = [status |-> "pending_first_sync", since |-> 0]
    /\ running = {}
    /\ old = {}
    /\ facts = [i \in Invoices |-> 0]
    /\ tracked = [i \in Invoices |-> [status |-> "none", due |-> FALSE, asOf |-> 0]]
    /\ sync = [s \in Syncs |-> IdleSync]
    /\ lost = {}
    /\ faults = 0

SyncStep(s) ==
    \/ Guard(s) \/ ReadConnection(s) \/ CreateRun(s) \/ Fetch(s) \/ Stamp(s)
    \/ \E i \in Invoices : UpsertFacts(s, i)
    \/ Track(s) \/ UpdateConnection(s) \/ Catch(s) \/ CloseRun(s)

Next ==
    \/ \E i \in Invoices, status \in Changes : ProviderChanges(i, status)
    \/ Disconnect \/ Reconnect \/ DispatchFails
    \/ \E s \in Syncs :
          \/ Begin(s) \/ SyncStep(s) \/ CallFails(s) \/ Die(s) \/ GetsOld(s)
          \/ \E i \in Invoices : Skip(s, i)

Spec == Init /\ [][Next]_vars

\* claim_due_accounting_connections: the worker's daily sync, of an active
\* connection only.
ScheduledSync == connection.status = "active" /\ \E s \in Syncs : Begin(s)

\* Requests take their steps, time passes, and the worker syncs what is active.
\* Nobody else need ever begin a sync.
Fairness ==
    /\ \A s \in Syncs : WF_vars(SyncStep(s)) /\ WF_vars(GetsOld(s))
    /\ WF_vars(ScheduledSync)

FairSpec == Spec /\ Fairness

-----------------------------------------------------------------------------
(* Properties.                                                             *)

TypeOK ==
    /\ now \in Times
    /\ provider \in [Invoices -> ProviderInvoice]
    /\ connection \in [status : ConnectionStatuses, since : Times]
    /\ running \in SUBSET Syncs
    /\ old \in SUBSET Syncs
    /\ facts \in [Invoices -> Times]
    /\ tracked \in [Invoices -> TrackedInvoice]
    /\ sync \in [Syncs -> SyncRecord]
    /\ lost \in SUBSET Invoices
    /\ faults \in 0..MaxFaults

Reflected(i) ==
    facts[i] = provider[i].modified /\ tracked[i].asOf = provider[i].modified

\* Whatever overlaps, fails, dies or is reconnected, the last change of an
\* invoice is reflected or will be fetched by the next sync, but in four ways.
\* A sync passed it over: it failed to upsert it, the change happened between
\* the fetch and syncStartedAt, or an overlapping sync wrote what it had read
\* before.  Or the invoice is as no sync asks for it, a draft; when it leaves
\* that status, the change is one of the others (sync.ts, syncConnection;
\* xero.ts, getInvoices).
NothingElseIsLost ==
    \A i \in Invoices \ lost :
        provider[i].status \in Listed
            => provider[i].modified > connection.since \/ Reflected(i)

\* A connection is only "active" if a sync has succeeded since it was last
\* connected, at least in part; syncs of the connection as it was before, and
\* their failures, never make it look active with nothing synced
\* (resolveConnectionStatusAfterSync).
ActiveIsSynced == connection.status = "active" => connection.since > 0

\* What the header of sync.ts says (lines 37-38): "disconnected" is terminal
\* and never overwritten by a sync outcome; only a new connect ends it.
DisconnectIsTerminal ==
    [][connection.status = "disconnected"
          => connection'.status \in {"disconnected", "pending_first_sync"}]_vars

\* The boundary of that: a sync overwrites "disconnected" only if it read the
\* connection before it was disconnected, and then as never synced or failing,
\* or if the provider refuses its token.  A sync that read "active" does not.
OnlyOlderSyncsReconnect ==
    [][connection.status = "disconnected"
          /\ connection'.status \notin {"disconnected", "pending_first_sync"}
       => \E s \in Syncs :
             /\ sync[s].pc \in {"upsert", "catch"} /\ sync'[s].pc = "close"
             /\ sync[s].status \in Syncable
             /\ sync[s].status = "active" => sync[s].failure = "unauthorized"]_vars

\* The run of s is on record and not closed.
AtWork(s) == sync[s].pc \in {"fetch", "stamp", "upsert", "track", "catch", "close"}

\* Syncs overlap only when both looked for a running one before either wrote its
\* row: whoever passes the guard finds no sync at work, for no run is recovered
\* while its sync lives.
GuardExcludes ==
    [][\A s \in Syncs : sync[s].pc = "guard" /\ sync'[s].pc = "read"
          => \A o \in Syncs : ~AtWork(o)]_vars

\* No run stays "running" for ever, and bars every later sync, while the
\* connection is active, whoever died: the worker's next sync recovers it
\* (recoverStaleRunningSyncRuns).  The run of a first sync that was killed may
\* stay, as nothing syncs a connection that has not become active by itself.
RunsEnd ==
    \A s \in Syncs : []<>~(s \in running /\ connection.status = "active")
=============================================================================
