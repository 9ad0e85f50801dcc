-------------------------- MODULE TaskClaimsProofs --------------------------
(***************************************************************************)
(* TaskClaims for any claims, dispatchers, workers, retries and faults:    *)
(* types, statuses that are true, the retry budget, work that is not lost  *)
(* and one delivery per claim while nothing has failed.                    *)
(***************************************************************************)
EXTENDS TaskClaims, TLAPS

USE ClaimsAssumption DEF Retries

\* A worker at a delivery holds a claim; one that is idle holds none.
WorkerInv == \A w \in Workers : worker[w].pc = "idle" <=> worker[w].claim = Null

-----------------------------------------------------------------------------
(* Records of workers.                                                     *)

\* Setting the step of a worker record changes nothing else.
LEMMA StepOfRecord ==
    ASSUME NEW r \in WorkerRecord, NEW s \in Steps
    PROVE  /\ [r EXCEPT !.pc = s] \in WorkerRecord
           /\ [r EXCEPT !.pc = s].pc = s
           /\ [r EXCEPT !.pc = s].claim = r.claim
           /\ [r EXCEPT !.pc = s].retries = r.retries
           /\ [r EXCEPT !.pc = s].held = r.held
  BY DEF WorkerRecord

\* So does forgetting that Redis knows the delivery.
LEMMA LostRecord ==
    ASSUME NEW r \in WorkerRecord
    PROVE  /\ [r EXCEPT !.held = FALSE] \in WorkerRecord
           /\ [r EXCEPT !.held = FALSE].pc = r.pc
           /\ [r EXCEPT !.held = FALSE].claim = r.claim
           /\ [r EXCEPT !.held = FALSE].retries = r.retries
  BY DEF WorkerRecord

\* Goto moves one worker and leaves its delivery as it is.
LEMMA GotoMoves ==
    ASSUME worker \in [Workers -> WorkerRecord], NEW w \in Workers,
           NEW s \in Steps, Goto(w, s)
    PROVE  /\ worker' \in [Workers -> WorkerRecord]
           /\ worker'[w].pc = s
           /\ \A v \in Workers :
                 /\ v # w => worker'[v] = worker[v]
                 /\ worker'[v].claim = worker[v].claim
                 /\ worker'[v].retries = worker[v].retries
                 /\ worker'[v].held = worker[v].held
  <1> DEFINE moved == [worker[w] EXCEPT !.pc = s]
  <1>1. worker' = [worker EXCEPT ![w] = moved]
    BY DEF Goto
  <1>2. /\ moved \in WorkerRecord
        /\ moved.pc = s
        /\ moved.claim = worker[w].claim
        /\ moved.retries = worker[w].retries
        /\ moved.held = worker[w].held
    BY StepOfRecord
  <1> QED
    BY <1>1, <1>2, Zenon

\* Acknowledge empties one worker.
LEMMA AcknowledgeMoves ==
    ASSUME worker \in [Workers -> WorkerRecord], NEW w \in Workers, Acknowledge(w)
    PROVE  /\ worker' \in [Workers -> WorkerRecord]
           /\ worker'[w] = IdleWorker
           /\ worker'[w].pc = "idle"
           /\ worker'[w].claim = Null
           /\ \A v \in Workers : v # w => worker'[v] = worker[v]
  <1>1. IdleWorker \in WorkerRecord
    BY DEF IdleWorker, WorkerRecord, Steps
  <1>2. IdleWorker.pc = "idle" /\ IdleWorker.claim = Null
    BY DEF IdleWorker
  <1> QED
    BY <1>1, <1>2, Zenon DEF Acknowledge

-----------------------------------------------------------------------------
(* What the building blocks of the actions do.                             *)

\* A worker that is not idle has a claim and a retry number.
LEMMA AtWork ==
    ASSUME TypeOK, WorkerInv, NEW w \in Workers, worker[w].pc # "idle"
    PROVE  worker[w].claim \in Claims /\ worker[w].retries \in Retries
  BY DEF TypeOK, WorkerInv, WorkerRecord

\* A status update changes one claim and takes it off the stale ones.
LEMMA UpdateMoves ==
    ASSUME TypeOK, NEW c \in Claims, NEW s \in Statuses, UpdateStatus(c, s)
    PROVE  /\ claim' \in [Claims -> Statuses]
           /\ claim'[c] = s
           /\ \A x \in Claims : x # c => claim'[x] = claim[x]
           /\ stale' \in SUBSET Claims
           /\ \A x \in stale' : claim'[x] \in {"started", "processing"}
           /\ stale' \subseteq stale
  BY DEF TypeOK, UpdateStatus

\* Publish adds one delivery.
LEMMA PublishMoves ==
    ASSUME TypeOK, NEW c \in Claims, NEW r \in Retries, Publish(c, r)
    PROVE  /\ queue' \in [Claims -> [Retries -> Nat]]
           /\ queue'[c][r] = queue[c][r] + 1
           /\ \A x \in Claims, q \in Retries :
                 x # c \/ q # r => queue'[x][q] = queue[x][q]
  BY DEF TypeOK, Publish

\* A successor publishes within the retries.
LEMMA NextRetry ==
    ASSUME NEW r \in Retries, RetriesLeft(r)
    PROVE  r + 1 \in Retries
  BY DEF RetriesLeft

-----------------------------------------------------------------------------
(* Types.                                                                  *)

LEMMA TypeInit == Init => TypeOK /\ WorkerInv
  <1> SUFFICES ASSUME Init PROVE TypeOK /\ WorkerInv
    OBVIOUS
  <1>1. IdleWorker \in WorkerRecord
    BY DEF IdleWorker, WorkerRecord, Steps
  <1>2. IdleWorker.pc = "idle" /\ IdleWorker.claim = Null
    BY DEF IdleWorker
  <1>3. worker = [w \in Workers |-> IdleWorker]
    BY DEF Init
  <1>4. worker \in [Workers -> WorkerRecord]
    BY <1>1, <1>3, Zenon
  <1>5. WorkerInv
    BY <1>2, <1>3, Zenon DEF WorkerInv
  <1> QED
    BY <1>4, <1>5 DEF Init, TypeOK, Statuses

\* Moving a busy worker to another busy step keeps WorkerInv.
LEMMA GotoKeeps ==
    ASSUME TypeOK, WorkerInv, NEW w \in Workers, NEW s \in Steps,
           worker[w].pc # "idle", s # "idle", Goto(w, s)
    PROVE  WorkerInv'
  <1>1. /\ worker'[w].pc = s
        /\ \A v \in Workers :
              /\ v # w => worker'[v] = worker[v]
              /\ worker'[v].claim = worker[v].claim
    BY GotoMoves DEF TypeOK
  <1> QED
    BY <1>1, Zenon DEF WorkerInv

LEMMA AcknowledgeKeeps ==
    ASSUME TypeOK, WorkerInv, NEW w \in Workers, Acknowledge(w)
    PROVE  WorkerInv'
  <1>1. /\ worker'[w].pc = "idle"
        /\ worker'[w].claim = Null
        /\ \A v \in Workers : v # w => worker'[v] = worker[v]
    BY AcknowledgeMoves, Zenon DEF TypeOK
  <1> QED
    BY <1>1, Zenon DEF WorkerInv

\* One step of a worker at its delivery.
LEMMA TypeWorkerStep ==
    ASSUME TypeOK, WorkerInv, NEW w \in Workers, WorkerStep(w)
    PROVE  TypeOK' /\ WorkerInv'
  <1> DEFINE c == worker[w].claim
             r == worker[w].retries
  <1>0. worker \in [Workers -> WorkerRecord]
    BY DEF TypeOK
  <1>s. {"idle", "start", "process", "call", "succeed", "raise", "retry", "fail"}
        = Steps
    BY DEF Steps
  <1>t. {"started", "processing", "sent", "retrying", "failed"} \subseteq Statuses
    BY DEF Statuses
  <1>1. ASSUME NEW step \in {"start", "process"},
               NEW status \in {"started", "processing"},
               NEW next \in {"process", "call"},
               MarkRunning(w, step, status, next)
        PROVE  TypeOK' /\ WorkerInv'
    <2>1. worker[w].pc # "idle"
      BY <1>1 DEF MarkRunning
    <2>2. c \in Claims
      BY <2>1, AtWork
    <2>3. CASE UpdateStatus(c, status) /\ Goto(w, next) /\ UNCHANGED faults
      <3>1. WorkerInv'
        BY <2>1, <2>3, <1>s, GotoKeeps
      <3>2. worker' \in [Workers -> WorkerRecord]
        BY <2>3, <1>0, <1>s, GotoMoves
      <3>3. /\ claim' \in [Claims -> Statuses]
            /\ stale' \in SUBSET Claims
            /\ \A x \in stale' : claim'[x] \in {"started", "processing"}
        BY <2>2, <2>3, <1>t, UpdateMoves
      <3> QED
        BY <1>1, <2>3, <3>1, <3>2, <3>3 DEF TypeOK, MarkRunning
    <2>4. CASE /\ faults' = faults + 1
               /\ Goto(w, "raise")
               /\ UNCHANGED <<claim, stale>>
      <3>1. WorkerInv'
        BY <2>1, <2>4, <1>s, GotoKeeps
      <3>2. worker' \in [Workers -> WorkerRecord]
        BY <2>4, <1>0, <1>s, GotoMoves
      <3> QED
        BY <1>1, <2>4, <3>1, <3>2 DEF TypeOK, MarkRunning
    <2> QED
      BY <1>1, <2>3, <2>4 DEF MarkRunning
  <1>2. CASE CallJob(w)
    <2>1. worker[w].pc # "idle"
      BY <1>2 DEF CallJob
    <2>2. PICK next \in Steps : next # "idle" /\ Goto(w, next)
      BY <1>2, <1>s DEF CallJob, AfterFailure
    <2>3. WorkerInv' /\ worker' \in [Workers -> WorkerRecord]
      BY <2>1, <2>2, <1>0, GotoKeeps, GotoMoves
    <2>4. fate' \in [Claims -> SUBSET {"done", "exhausted"}]
      <3>1. \/ fate' = fate
            \/ fate' = [fate EXCEPT ![c] = @ \cup {"done"}]
        BY <1>2 DEF CallJob
      <3>2. fate \in [Claims -> SUBSET {"done", "exhausted"}]
        BY DEF TypeOK
      <3> QED
        BY <3>1, <3>2
    <2> QED
      BY <1>2, <2>3, <2>4 DEF TypeOK, CallJob
  <1>3. CASE Raise(w)
    <2>1. worker[w].pc # "idle"
      BY <1>3 DEF Raise
    <2>2. c \in Claims /\ r \in Retries
      BY <2>1, AtWork
    <2>3. PICK next \in Steps : next # "idle" /\ Goto(w, next)
      BY <1>3, <1>s DEF Raise
    <2>4. WorkerInv' /\ worker' \in [Workers -> WorkerRecord]
      BY <2>1, <2>3, <1>0, GotoKeeps, GotoMoves
    <2>5. queue' \in [Claims -> [Retries -> Nat]]
      <3>1. CASE RetriesLeft(r) /\ Publish(c, r + 1)
        BY <2>2, <3>1, NextRetry, PublishMoves
      <3>2. CASE UNCHANGED queue
        BY <3>2 DEF TypeOK
      <3> QED
        BY <1>3, <3>1, <3>2 DEF Raise
    <2>6. fate' \in [Claims -> SUBSET {"done", "exhausted"}]
      <3>1. \/ fate' = fate
            \/ fate' = [fate EXCEPT ![c] = @ \cup {"exhausted"}]
        BY <1>3 DEF Raise
      <3>2. fate \in [Claims -> SUBSET {"done", "exhausted"}]
        BY DEF TypeOK
      <3> QED
        BY <3>1, <3>2
    <2> QED
      BY <1>3, <2>4, <2>5, <2>6 DEF TypeOK, Raise
  <1>4. ASSUME NEW step \in {"succeed", "retry", "fail"},
               NEW status \in {"sent", "retrying", "failed"},
               MarkEnd(w, step, status)
        PROVE  TypeOK' /\ WorkerInv'
    <2>1. worker[w].pc # "idle"
      BY <1>4 DEF MarkEnd
    <2>2. c \in Claims
      BY <2>1, AtWork
    <2>3. WorkerInv' /\ worker' \in [Workers -> WorkerRecord]
      BY <1>4, <1>0, AcknowledgeKeeps, AcknowledgeMoves DEF MarkEnd
    <2>4. /\ claim' \in [Claims -> Statuses]
          /\ stale' \in SUBSET Claims
          /\ \A x \in stale' : claim'[x] \in {"started", "processing"}
          /\ faults' \in Nat
      <3>1. CASE UpdateStatus(c, status) /\ UNCHANGED faults
        BY <2>2, <3>1, <1>t, UpdateMoves DEF TypeOK
      <3>2. CASE faults' = faults + 1 /\ UNCHANGED <<claim, stale>>
        BY <3>2 DEF TypeOK
      <3> QED
        BY <1>4, <3>1, <3>2 DEF MarkEnd
    <2> QED
      BY <1>4, <2>3, <2>4 DEF TypeOK, MarkEnd
  <1> QED
    BY <1>1, <1>2, <1>3, <1>4
    DEF WorkerStep, MarkStarted, MarkProcessing, MarkSent, MarkRetrying, MarkFailed

\* Taking a delivery puts a worker that had none at its start.
LEMMA TakeMoves ==
    ASSUME TypeOK, NEW w \in Workers, NEW c \in Claims, NEW r \in Retries,
           Take(w, c, r)
    PROVE  /\ worker' \in [Workers -> WorkerRecord]
           /\ worker'[w].pc = "start"
           /\ worker'[w].claim = c
           /\ worker'[w].retries = r
           /\ worker'[w].held = TRUE
           /\ \A v \in Workers : v # w => worker'[v] = worker[v]
           /\ queue' \in [Claims -> [Retries -> Nat]]
           /\ queue[c][r] > 0
           /\ queue'[c][r] = queue[c][r] - 1
           /\ \A x \in Claims, q \in Retries :
                 x # c \/ q # r => queue'[x][q] = queue[x][q]
  <1> DEFINE fresh == [pc |-> "start", claim |-> c, retries |-> r, held |-> TRUE]
  <1>1. /\ fresh \in WorkerRecord
        /\ fresh.pc = "start" /\ fresh.claim = c
        /\ fresh.retries = r /\ fresh.held = TRUE
    BY DEF WorkerRecord, Steps
  <1>2. /\ worker \in [Workers -> WorkerRecord]
        /\ worker' = [worker EXCEPT ![w] = fresh]
    BY DEF TypeOK, Take
  <1>3. /\ worker' \in [Workers -> WorkerRecord]
        /\ worker'[w] = fresh
        /\ \A v \in Workers : v # w => worker'[v] = worker[v]
    <2> HIDE DEF fresh
    <2> QED BY <1>1, <1>2
  <1>4. /\ queue' \in [Claims -> [Retries -> Nat]]
        /\ queue[c][r] > 0
        /\ queue'[c][r] = queue[c][r] - 1
        /\ \A x \in Claims, q \in Retries :
              x # c \/ q # r => queue'[x][q] = queue[x][q]
    BY DEF TypeOK, Take
  <1> QED
    BY <1>1, <1>3, <1>4

\* A flush empties Redis and moves no worker.
LEMMA FlushMoves ==
    ASSUME TypeOK, Flush
    PROVE  /\ worker' \in [Workers -> WorkerRecord]
           /\ \A w \in Workers : /\ worker'[w].pc = worker[w].pc
                                 /\ worker'[w].claim = worker[w].claim
                                 /\ worker'[w].retries = worker[w].retries
           /\ queue' \in [Claims -> [Retries -> Nat]]
           /\ \A c \in Claims, r \in Retries : queue'[c][r] = 0
  <1>1. worker \in [Workers -> WorkerRecord]
    BY DEF TypeOK
  <1>2. worker' = [w \in Workers |-> [worker[w] EXCEPT !.held = FALSE]]
    BY DEF Flush
  <1>3. \A w \in Workers :
           /\ [worker[w] EXCEPT !.held = FALSE] \in WorkerRecord
           /\ [worker[w] EXCEPT !.held = FALSE].pc = worker[w].pc
           /\ [worker[w] EXCEPT !.held = FALSE].claim = worker[w].claim
           /\ [worker[w] EXCEPT !.held = FALSE].retries = worker[w].retries
    BY <1>1, LostRecord, Zenon
  <1>4. queue' = [c \in Claims |-> [r \in Retries |-> 0]]
    BY DEF Flush
  <1> QED
    BY <1>2, <1>3, <1>4, Zenon

LEMMA TypeStep == TypeOK /\ WorkerInv /\ [Next]_vars => TypeOK' /\ WorkerInv'
  <1> SUFFICES ASSUME TypeOK, WorkerInv, [Next]_vars
               PROVE  TypeOK' /\ WorkerInv'
    OBVIOUS
  <1>1. ASSUME NEW d \in Dispatchers, ClaimDue(d)
        PROVE  TypeOK' /\ WorkerInv'
    BY <1>1 DEF TypeOK, WorkerInv, ClaimDue, Unclaimed, Statuses
  <1>2. ASSUME NEW d \in Dispatchers, Enqueue(d)
        PROVE  TypeOK' /\ WorkerInv'
    <2>1. PICK c \in batch[d] : /\ Publish(c, 0)
                                /\ batch' = [batch EXCEPT ![d] = @ \ {c}]
      BY <1>2 DEF Enqueue
    <2>2. c \in Claims /\ 0 \in Retries
      BY DEF TypeOK
    <2>3. queue' \in [Claims -> [Retries -> Nat]]
      BY <2>1, <2>2, PublishMoves
    <2> QED
      BY <1>2, <2>1, <2>3 DEF TypeOK, WorkerInv, Enqueue
  <1>3. ASSUME NEW d \in Dispatchers, Strand(d)
        PROVE  TypeOK' /\ WorkerInv'
    BY <1>3 DEF TypeOK, WorkerInv, Strand
  <1>4. ASSUME NEW d \in Dispatchers, Sweep(d)
        PROVE  TypeOK' /\ WorkerInv'
    BY <1>4 DEF TypeOK, WorkerInv, Sweep, Statuses
  <1>5. ASSUME NEW c \in Claims, GoesStale(c)
        PROVE  TypeOK' /\ WorkerInv'
    BY <1>5 DEF TypeOK, WorkerInv, GoesStale, Reclaimable
  <1>6. ASSUME NEW w \in Workers, NEW c \in Claims, NEW r \in Retries, Take(w, c, r)
        PROVE  TypeOK' /\ WorkerInv'
    <2>0. /\ worker'[w].pc = "start"
          /\ worker'[w].claim = c
          /\ \A v \in Workers : v # w => worker'[v] = worker[v]
      BY <1>6, TakeMoves
    <2>1. WorkerInv'
      BY <2>0 DEF WorkerInv
    <2> QED
      BY <1>6, <2>1, TakeMoves DEF TypeOK, Take
  <1>7. ASSUME NEW w \in Workers, WorkerStep(w)
        PROVE  TypeOK' /\ WorkerInv'
    BY <1>7, TypeWorkerStep
  <1>8. ASSUME NEW w \in Workers, Crash(w)
        PROVE  TypeOK' /\ WorkerInv'
    <2>1. worker[w].claim \in Claims /\ worker[w].retries \in Retries
      BY <1>8, AtWork DEF Crash
    <2>2. queue' \in [Claims -> [Retries -> Nat]]
      <3>1. \/ Publish(worker[w].claim, worker[w].retries)
            \/ UNCHANGED queue
        BY <1>8 DEF Crash, Requeue
      <3>2. CASE Publish(worker[w].claim, worker[w].retries)
        BY <2>1, <3>2, PublishMoves
      <3>3. CASE UNCHANGED queue
        BY <3>3 DEF TypeOK
      <3> QED
        BY <3>1, <3>2, <3>3
    <2>3. WorkerInv' /\ worker' \in [Workers -> WorkerRecord]
      BY <1>8, AcknowledgeKeeps, AcknowledgeMoves DEF Crash, TypeOK
    <2> QED
      BY <1>8, <2>2, <2>3 DEF TypeOK, Crash, Abandoned
  <1>9. ASSUME NEW w \in Workers, Kill(w)
        PROVE  TypeOK' /\ WorkerInv'
    <2>1. WorkerInv' /\ worker' \in [Workers -> WorkerRecord]
      BY <1>9, AcknowledgeKeeps, AcknowledgeMoves DEF Kill, TypeOK
    <2> QED
      BY <1>9, <2>1 DEF TypeOK, Kill, Abandoned
  <1>10. CASE Flush
    <2>1. WorkerInv'
      BY <1>10, FlushMoves, Zenon DEF WorkerInv
    <2> QED
      BY <1>10, <2>1, FlushMoves DEF TypeOK, Flush
  <1>11. CASE UNCHANGED vars
    BY <1>11 DEF vars, TypeOK, WorkerInv
  <1> QED
    BY <1>1, <1>2, <1>3, <1>4, <1>5, <1>6, <1>7, <1>8, <1>9, <1>10, <1>11 DEF Next

\* Both hold throughout.
LEMMA Shaped == Spec => [](TypeOK /\ WorkerInv)
  BY TypeInit, TypeStep, PTL DEF Spec

\* The variables keep their types, and what waits for the sweep is reclaimable.
THEOREM TaskTyped == Spec => []TypeOK
  BY Shaped, PTL

-----------------------------------------------------------------------------
(* A claim's status is true.                                               *)

\* A worker about to report an end has the fate it will report.
ReportsInv ==
    \A w \in Workers :
        /\ worker[w].pc = "succeed" => "done" \in fate[worker[w].claim]
        /\ worker[w].pc = "fail" => "exhausted" \in fate[worker[w].claim]

\* What keeps StatusIsTrue and ReportsInv: fates only grow, a claim becomes
\* "sent" or "failed" and a worker about to say so only with the fate for it.
LEMMA TruthKept ==
    ASSUME StatusIsTrue, ReportsInv, TypeOK, WorkerInv, WorkerInv',
           \A c \in Claims : fate[c] \subseteq fate'[c],
           \A c \in Claims :
               \/ claim'[c] = claim[c]
               \/ claim'[c] \notin {"sent", "failed"}
               \/ claim'[c] = "sent" /\ "done" \in fate'[c]
               \/ claim'[c] = "failed" /\ "exhausted" \in fate'[c],
           \A w \in Workers :
               \/ /\ worker'[w].pc = worker[w].pc
                  /\ worker'[w].claim = worker[w].claim
               \/ worker'[w].pc \notin {"succeed", "fail"}
               \/ worker'[w].pc = "succeed" /\ "done" \in fate'[worker'[w].claim]
               \/ worker'[w].pc = "fail" /\ "exhausted" \in fate'[worker'[w].claim]
    PROVE  StatusIsTrue' /\ ReportsInv'
  <1>1. StatusIsTrue'
    BY DEF StatusIsTrue
  <1>2. ASSUME NEW w \in Workers
        PROVE  /\ worker'[w].pc = "succeed" => "done" \in fate'[worker'[w].claim]
               /\ worker'[w].pc = "fail" => "exhausted" \in fate'[worker'[w].claim]
    <2>1. CASE /\ worker'[w].pc = worker[w].pc
               /\ worker'[w].claim = worker[w].claim
      <3>1. worker[w].pc # "idle" => worker[w].claim \in Claims
        BY AtWork
      <3> QED
        BY <2>1, <3>1 DEF ReportsInv
    <2> QED
      BY <2>1
  <1>3. ReportsInv'
    BY <1>2 DEF ReportsInv
  <1> QED
    BY <1>1, <1>3

\* Goto, seen by TruthKept: the other workers stay, this one is at step s.
LEMMA GotoReports ==
    ASSUME TypeOK, NEW w \in Workers, NEW s \in Steps, Goto(w, s)
    PROVE  /\ worker'[w].pc = s /\ worker'[w].claim = worker[w].claim
           /\ \A v \in Workers \ {w} : /\ worker'[v].pc = worker[v].pc
                                       /\ worker'[v].claim = worker[v].claim
  <1>1. /\ worker'[w].pc = s
        /\ \A v \in Workers : /\ v # w => worker'[v] = worker[v]
                              /\ worker'[v].claim = worker[v].claim
    BY GotoMoves DEF TypeOK
  <1> QED
    BY <1>1, Zenon

LEMMA AcknowledgeReports ==
    ASSUME TypeOK, NEW w \in Workers, Acknowledge(w)
    PROVE  /\ worker'[w].pc = "idle"
           /\ \A v \in Workers \ {w} : /\ worker'[v].pc = worker[v].pc
                                       /\ worker'[v].claim = worker[v].claim
  <1>1. /\ worker'[w].pc = "idle"
        /\ \A v \in Workers : v # w => worker'[v] = worker[v]
    BY AcknowledgeMoves DEF TypeOK
  <1> QED
    BY <1>1, Zenon

\* A fate added to one claim takes nothing from any.
LEMMA FateGrows ==
    ASSUME TypeOK, NEW c \in Claims, NEW e \in {"done", "exhausted"},
           fate' = [fate EXCEPT ![c] = @ \cup {e}]
    PROVE  /\ \A x \in Claims : fate[x] \subseteq fate'[x]
           /\ e \in fate'[c]
  BY DEF TypeOK

LEMMA TruthWorkerStep ==
    ASSUME TypeOK, WorkerInv, StatusIsTrue, ReportsInv, WorkerInv',
           NEW w \in Workers, WorkerStep(w)
    PROVE  StatusIsTrue' /\ ReportsInv'
  <1> DEFINE c == worker[w].claim
             r == worker[w].retries
  <1>s. {"idle", "start", "process", "call", "succeed", "raise", "retry", "fail"}
        = Steps
    BY DEF Steps
  <1>t. {"started", "processing", "sent", "retrying", "failed"} \subseteq Statuses
    BY DEF Statuses
  <1>1. ASSUME NEW step \in {"start", "process"},
               NEW status \in {"started", "processing"},
               NEW next \in {"process", "call"},
               MarkRunning(w, step, status, next)
        PROVE  StatusIsTrue' /\ ReportsInv'
    <2>1. c \in Claims
      BY <1>1, AtWork DEF MarkRunning
    <2>2. fate' = fate
      BY <1>1 DEF MarkRunning
    <2>3. PICK s \in Steps : s \notin {"succeed", "fail"} /\ Goto(w, s)
      BY <1>1, <1>s DEF MarkRunning
    <2>4. \A x \in Claims : claim'[x] = claim[x] \/ claim'[x] \notin {"sent", "failed"}
      <3>1. CASE UpdateStatus(c, status)
        BY <2>1, <3>1, <1>t, UpdateMoves
      <3>2. CASE UNCHANGED claim
        BY <3>2
      <3> QED
        BY <1>1, <3>1, <3>2 DEF MarkRunning
    <2> QED
      BY <2>2, <2>3, <2>4, GotoReports, TruthKept
  <1>2. CASE CallJob(w)
    <2>1. c \in Claims
      BY <1>2, AtWork DEF CallJob
    <2>2. claim' = claim
      BY <1>2 DEF CallJob
    <2>3. CASE /\ fate' = [fate EXCEPT ![c] = @ \cup {"done"}]
               /\ \E next \in {"succeed", "raise"} : Goto(w, next)
      <3>1. PICK next \in {"succeed", "raise"} : Goto(w, next)
        BY <2>3
      <3>2. /\ worker'[w].pc = next /\ worker'[w].claim = c
            /\ \A v \in Workers \ {w} : /\ worker'[v].pc = worker[v].pc
                                        /\ worker'[v].claim = worker[v].claim
        BY <3>1, <1>s, GotoReports
      <3>3. /\ \A x \in Claims : fate[x] \subseteq fate'[x]
            /\ "done" \in fate'[c]
        BY <2>1, <2>3, FateGrows
      <3> QED
        BY <2>2, <3>2, <3>3, TruthKept
    <2>4. CASE Goto(w, AfterFailure) /\ UNCHANGED fate
      <3>1. "raise" \in Steps /\ Goto(w, "raise") /\ fate' = fate
        BY <2>4, <1>s DEF AfterFailure
      <3> QED
        BY <2>2, <3>1, GotoReports, TruthKept
    <2> QED
      BY <1>2, <2>3, <2>4 DEF CallJob
  <1>3. CASE Raise(w)
    <2>1. c \in Claims
      BY <1>3, AtWork DEF Raise
    <2>2. claim' = claim
      BY <1>3 DEF Raise
    <2>3. CASE Goto(w, "retry") /\ UNCHANGED fate
      <3>1. "retry" \in Steps /\ fate' = fate
        BY <2>3, <1>s
      <3> QED
        BY <2>2, <2>3, <3>1, GotoReports, TruthKept
    <2>4. CASE Goto(w, "fail") /\ fate' = [fate EXCEPT ![c] = @ \cup {"exhausted"}]
      <3>1. /\ \A x \in Claims : fate[x] \subseteq fate'[x]
            /\ "exhausted" \in fate'[c]
        BY <2>1, <2>4, FateGrows
      <3>2. "fail" \in Steps
        BY <1>s
      <3> QED
        BY <2>2, <2>4, <3>1, <3>2, GotoReports, TruthKept
    <2> QED
      BY <1>3, <2>3, <2>4 DEF Raise
  <1>4. ASSUME NEW step \in {"succeed", "retry", "fail"},
               NEW status \in {"sent", "retrying", "failed"},
               MarkEnd(w, step, status),
               step = "succeed" <=> status = "sent",
               step = "fail" <=> status = "failed"
        PROVE  StatusIsTrue' /\ ReportsInv'
    <2>1. c \in Claims
      BY <1>4, AtWork DEF MarkEnd
    <2>2. fate' = fate /\ Acknowledge(w)
      BY <1>4 DEF MarkEnd
    <2>3. /\ status = "sent" => "done" \in fate[c]
          /\ status = "failed" => "exhausted" \in fate[c]
      BY <1>4 DEF MarkEnd, ReportsInv
    <2>4. \A x \in Claims :
              \/ claim'[x] = claim[x]
              \/ claim'[x] \notin {"sent", "failed"}
              \/ claim'[x] = "sent" /\ "done" \in fate[x]
              \/ claim'[x] = "failed" /\ "exhausted" \in fate[x]
      <3>1. CASE UpdateStatus(c, status)
        <4>1. /\ claim'[c] = status
              /\ \A x \in Claims : x # c => claim'[x] = claim[x]
          BY <2>1, <3>1, <1>t, UpdateMoves
        <4> QED
          BY <2>3, <4>1
      <3>2. CASE UNCHANGED claim
        BY <3>2
      <3> QED
        BY <1>4, <3>1, <3>2 DEF MarkEnd
    <2> QED
      BY <2>2, <2>4, AcknowledgeReports, TruthKept
  <1> QED
    BY <1>1, <1>2, <1>3, <1>4
    DEF WorkerStep, MarkStarted, MarkProcessing, MarkSent, MarkRetrying, MarkFailed

\* Every step keeps statuses true.
LEMMA TruthStep ==
    TypeOK /\ WorkerInv /\ StatusIsTrue /\ ReportsInv /\ [Next]_vars
        => StatusIsTrue' /\ ReportsInv'
  <1> SUFFICES ASSUME TypeOK, WorkerInv, StatusIsTrue, ReportsInv, [Next]_vars
               PROVE  StatusIsTrue' /\ ReportsInv'
    OBVIOUS
  <1>0. TypeOK' /\ WorkerInv'
    BY TypeStep
  <1>1. ASSUME NEW d \in Dispatchers,
               ClaimDue(d) \/ Enqueue(d) \/ Strand(d) \/ Sweep(d)
        PROVE  StatusIsTrue' /\ ReportsInv'
    <2>1. worker' = worker /\ fate' = fate
      BY <1>1 DEF ClaimDue, Enqueue, Strand, Sweep
    <2>2. \A c \in Claims : claim'[c] = claim[c] \/ claim'[c] = "queued"
      BY <1>1 DEF ClaimDue, Enqueue, Strand, Sweep
    <2> QED
      BY <2>1, <2>2, <1>0, TruthKept
  <1>2. ASSUME NEW c \in Claims, GoesStale(c)
        PROVE  StatusIsTrue' /\ ReportsInv'
    BY <1>2 DEF GoesStale, StatusIsTrue, ReportsInv
  <1>3. ASSUME NEW w \in Workers, NEW c \in Claims, NEW r \in Retries, Take(w, c, r)
        PROVE  StatusIsTrue' /\ ReportsInv'
    <2>1. /\ worker'[w].pc = "start"
          /\ \A v \in Workers : v # w => worker'[v] = worker[v]
      BY <1>3, TakeMoves
    <2>2. claim' = claim /\ fate' = fate
      BY <1>3 DEF Take
    <2> QED
      BY <2>1, <2>2, <1>0, TruthKept
  <1>4. ASSUME NEW w \in Workers, WorkerStep(w)
        PROVE  StatusIsTrue' /\ ReportsInv'
    BY <1>4, <1>0, TruthWorkerStep
  <1>5. ASSUME NEW w \in Workers, Crash(w) \/ Kill(w)
        PROVE  StatusIsTrue' /\ ReportsInv'
    <2>1. Acknowledge(w) /\ claim' = claim /\ fate' = fate
      BY <1>5 DEF Crash, Kill
    <2> QED
      BY <2>1, <1>0, AcknowledgeReports, TruthKept
  <1>6. CASE Flush
    <2>1. claim' = claim /\ fate' = fate
      BY <1>6 DEF Flush
    <2>2. \A w \in Workers : /\ worker'[w].pc = worker[w].pc
                             /\ worker'[w].claim = worker[w].claim
      BY <1>6, FlushMoves
    <2> QED
      BY <2>1, <2>2, <1>0, TruthKept
  <1>7. CASE UNCHANGED vars
    BY <1>7 DEF vars, StatusIsTrue, ReportsInv
  <1> QED
    BY <1>1, <1>2, <1>3, <1>4, <1>5, <1>6, <1>7 DEF Next

\* A claim says "sent" only of a job that was done and "failed" only of one
\* whose retries were exhausted.
THEOREM TrueStatus == Spec => []StatusIsTrue
  <1>1. Init => StatusIsTrue /\ ReportsInv
    BY DEF Init, StatusIsTrue, ReportsInv, IdleWorker
  <1> QED
    BY <1>1, TruthStep, Shaped, PTL DEF Spec

-----------------------------------------------------------------------------
(* A claim is given up at its last retry.                                  *)

\* No other step than a Raise without retries left exhausts a claim.
LEMMA BudgetStep ==
    ASSUME TypeOK, WorkerInv, [Next]_vars,
           NEW c \in Claims, "exhausted" \in fate'[c] \ fate[c]
    PROVE  \E w \in Workers : worker[w].claim = c /\ worker[w].retries = MaxRetries
  <1>0. fate \in [Claims -> SUBSET {"done", "exhausted"}]
    BY DEF TypeOK
  <1>1. fate' # fate
    OBVIOUS
  <1>2. PICK w \in Workers : CallJob(w) \/ Raise(w)
    BY <1>1 DEF Next, vars, ClaimDue, Enqueue, Strand, Sweep, GoesStale, Take,
       WorkerStep, MarkStarted, MarkProcessing, MarkRunning, MarkSent,
       MarkRetrying, MarkFailed, MarkEnd, Crash, Kill, Flush
  <1>3. ~CallJob(w)
    <2> SUFFICES ASSUME CallJob(w) PROVE FALSE
      OBVIOUS
    <2>1. fate' = [fate EXCEPT ![worker[w].claim] = @ \cup {"done"}]
      BY <1>1 DEF CallJob
    <2> QED
      BY <2>1, <1>0
  <1>4. /\ worker[w].pc = "raise"
        /\ ~RetriesLeft(worker[w].retries)
        /\ fate' = [fate EXCEPT ![worker[w].claim] = @ \cup {"exhausted"}]
    BY <1>1, <1>2, <1>3 DEF Raise
  <1>5. worker[w].claim = c
    BY <1>0, <1>4
  <1>6. worker[w].retries = MaxRetries
    <2>1. worker[w].retries \in Retries
      BY <1>4, AtWork
    <2> QED
      BY <2>1, <1>4 DEF RetriesLeft
  <1> QED
    BY <1>5, <1>6

\* Whoever gives a claim up was at its last retry.
THEOREM SpentBudget == Spec => BudgetIsSpent
  <1>1. TypeOK /\ WorkerInv /\ [Next]_vars =>
            [\A c \in Claims : "exhausted" \in fate'[c] \ fate[c] =>
                \E w \in Workers :
                    worker[w].claim = c /\ worker[w].retries = MaxRetries]_vars
    BY BudgetStep
  <1> QED
    BY <1>1, Shaped, PTL DEF Spec, BudgetIsSpent

-----------------------------------------------------------------------------
(* A claim without a row is in nobody's hands.                             *)

FreshInv ==
    \A c \in Claims : claim[c] = "none" =>
        /\ \A d \in Dispatchers : c \notin batch[d]
        /\ \A r \in Retries : queue[c][r] = 0
        /\ \A w \in Workers : worker[w].claim # c

\* A step of a worker moves no claim to "none", and touches only its claim.
LEMMA WorkerStepMoves ==
    ASSUME TypeOK, WorkerInv, NEW w \in Workers, WorkerStep(w)
    PROVE  /\ worker[w].pc # "idle"
           /\ batch' = batch
           /\ \A c \in Claims : c # worker[w].claim =>
                 claim'[c] = claim[c] /\ queue'[c] = queue[c]
           /\ \A c \in Claims : claim'[c] = "none" => claim[c] = "none"
           /\ \A v \in Workers : worker'[v].claim \in {worker[v].claim, Null}
  <1> DEFINE c == worker[w].claim
             r == worker[w].retries
  <1>s. {"idle", "start", "process", "call", "succeed", "raise", "retry", "fail"}
        = Steps
    BY DEF Steps
  <1>t. {"started", "processing", "sent", "retrying", "failed"} \subseteq Statuses
    BY DEF Statuses
  <1>1. worker[w].pc # "idle" /\ batch' = batch
    BY DEF WorkerStep, MarkStarted, MarkProcessing, MarkRunning, CallJob, Raise,
       MarkSent, MarkRetrying, MarkFailed, MarkEnd
  <1>2. c \in Claims /\ r \in Retries
    BY <1>1, AtWork
  <1>3. \/ UNCHANGED claim
        \/ \E s \in Statuses \ {"none"} : UpdateStatus(c, s)
    BY <1>t DEF WorkerStep, MarkStarted, MarkProcessing, MarkRunning, CallJob, Raise,
       MarkSent, MarkRetrying, MarkFailed, MarkEnd
  <1>4. /\ \A x \in Claims : x # c => claim'[x] = claim[x]
        /\ \A x \in Claims : claim'[x] = "none" => claim[x] = "none"
    <2>1. CASE UNCHANGED claim
      BY <2>1
    <2>2. ASSUME NEW s \in Statuses \ {"none"}, UpdateStatus(c, s)
          PROVE  <1>4!:
      BY <1>2, <2>2, UpdateMoves
    <2> QED
      BY <1>3, <2>1, <2>2
  <1>5. \A x \in Claims : x # c => queue'[x] = queue[x]
    <2>1. queue' = queue \/ Publish(c, r + 1)
      BY DEF WorkerStep, MarkStarted, MarkProcessing, MarkRunning, CallJob, Raise,
         MarkSent, MarkRetrying, MarkFailed, MarkEnd
    <2> QED
      BY <2>1 DEF TypeOK, Publish
  <1>6. \A v \in Workers : worker'[v].claim \in {worker[v].claim, Null}
    <2>1. Acknowledge(w) \/ \E s \in Steps : Goto(w, s)
      BY <1>s DEF WorkerStep, MarkStarted, MarkProcessing, MarkRunning, CallJob, Raise,
         MarkSent, MarkRetrying, MarkFailed, MarkEnd, AfterFailure
    <2>2. CASE Acknowledge(w)
      <3>1. /\ worker'[w].claim = Null
            /\ \A v \in Workers : v # w => worker'[v] = worker[v]
        BY <2>2, AcknowledgeMoves DEF TypeOK
      <3> QED
        BY <3>1, Zenon
    <2>3. ASSUME NEW s \in Steps, Goto(w, s)
          PROVE  <1>6!:
      <3>1. \A v \in Workers : worker'[v].claim = worker[v].claim
        BY <2>3, GotoMoves DEF TypeOK
      <3> QED
        BY <3>1
    <2> QED
      BY <2>1, <2>2, <2>3
  <1> QED
    BY <1>1, <1>4, <1>5, <1>6

LEMMA FreshStep == TypeOK /\ WorkerInv /\ FreshInv /\ [Next]_vars => FreshInv'
  <1> SUFFICES ASSUME TypeOK, WorkerInv, FreshInv, [Next]_vars,
                      NEW c \in Claims, claim'[c] = "none"
               PROVE  /\ \A d \in Dispatchers : c \notin batch'[d]
                      /\ \A r \in Retries : queue'[c][r] = 0
                      /\ \A w \in Workers : worker'[w].claim # c
    BY DEF FreshInv
  <1> DEFINE Goal == /\ \A d \in Dispatchers : c \notin batch'[d]
                     /\ \A r \in Retries : queue'[c][r] = 0
                     /\ \A w \in Workers : worker'[w].claim # c
  <1>n. c # Null
    OBVIOUS
  <1>f. claim[c] = "none" =>
            /\ \A d \in Dispatchers : c \notin batch[d]
            /\ \A r \in Retries : queue[c][r] = 0
            /\ \A w \in Workers : worker[w].claim # c
    BY DEF FreshInv
  <1>1. ASSUME NEW d \in Dispatchers, ClaimDue(d) PROVE Goal
    BY <1>1, <1>f DEF ClaimDue, TypeOK
  <1>2. ASSUME NEW d \in Dispatchers, Enqueue(d) PROVE Goal
    <2>1. PICK x \in batch[d] : /\ Publish(x, 0)
                                /\ batch' = [batch EXCEPT ![d] = @ \ {x}]
                                /\ claim' = claim /\ worker' = worker
      BY <1>2 DEF Enqueue
    <2>2. x # c
      BY <1>f, <2>1
    <2>3. queue'[c] = queue[c]
      BY <2>1, <2>2 DEF Publish, TypeOK
    <2> QED
      BY <1>f, <2>1, <2>3 DEF TypeOK
  <1>3. ASSUME NEW d \in Dispatchers, Strand(d) PROVE Goal
    BY <1>3, <1>f DEF Strand, TypeOK
  <1>4. ASSUME NEW d \in Dispatchers, Sweep(d) PROVE Goal
    BY <1>4, <1>f DEF Sweep, TypeOK
  <1>5. ASSUME NEW x \in Claims, GoesStale(x) PROVE Goal
    BY <1>5, <1>f DEF GoesStale
  <1>6. ASSUME NEW w \in Workers, NEW x \in Claims, NEW r \in Retries, Take(w, x, r)
        PROVE Goal
    <2>0. /\ worker'[w].claim = x
          /\ \A v \in Workers : v # w => worker'[v] = worker[v]
      BY <1>6, TakeMoves
    <2>1. /\ queue[x][r] > 0
          /\ \A y \in Claims : y # x => queue'[y] = queue[y]
      BY <1>6 DEF Take, TypeOK
    <2>2. claim' = claim /\ batch' = batch
      BY <1>6 DEF Take
    <2>3. x # c
      BY <1>f, <2>1, <2>2
    <2> QED
      BY <1>f, <2>0, <2>1, <2>2, <2>3
  <1>7. ASSUME NEW w \in Workers, WorkerStep(w) PROVE Goal
    <2>1. claim[c] = "none" /\ batch' = batch
      BY <1>7, WorkerStepMoves
    <2>2. c # worker[w].claim
      BY <2>1, <1>f
    <2>3. queue'[c] = queue[c]
      BY <1>7, <2>2, WorkerStepMoves
    <2>4. \A v \in Workers : worker'[v].claim \in {worker[v].claim, Null}
      BY <1>7, WorkerStepMoves
    <2> QED
      BY <1>f, <1>n, <2>1, <2>3, <2>4
  <1>8. ASSUME NEW w \in Workers, Crash(w) \/ Kill(w) PROVE Goal
    <2>1. claim' = claim /\ batch' = batch /\ Acknowledge(w) /\ worker[w].pc # "idle"
      BY <1>8 DEF Crash, Kill
    <2>2. c # worker[w].claim
      BY <1>f, <2>1
    <2>3. queue'[c] = queue[c]
      BY <1>8, <2>2 DEF Crash, Kill, Requeue, Publish, TypeOK
    <2>4. /\ worker'[w].claim = Null
          /\ \A v \in Workers : v # w => worker'[v] = worker[v]
      BY <2>1, AcknowledgeMoves DEF TypeOK
    <2> QED
      BY <1>f, <1>n, <2>1, <2>3, <2>4
  <1>9. CASE Flush
    <2>1. claim' = claim /\ batch' = batch
      BY <1>9 DEF Flush
    <2>2. /\ \A r \in Retries : queue'[c][r] = 0
          /\ \A w \in Workers : worker'[w].claim = worker[w].claim
      BY <1>9, FlushMoves
    <2> QED
      BY <1>f, <2>1, <2>2
  <1>10. CASE UNCHANGED vars
    BY <1>10, <1>f DEF vars
  <1> QED
    BY <1>1, <1>2, <1>3, <1>4, <1>5, <1>6, <1>7, <1>8, <1>9, <1>10 DEF Next

-----------------------------------------------------------------------------
(* Claimed work is not lost.                                               *)

\* A claim stays outstanding when nobody gives it away.
LEMMA OutstandingKept ==
    ASSUME NEW c \in Claims,
           \A d \in Dispatchers : c \in batch[d] => c \in batch'[d],
           \A r \in Retries : queue[c][r] > 0 => queue'[c][r] > 0,
           \A w \in Workers : Runs(w, c) => Runs(w, c)',
           Outstanding(c)
    PROVE  Outstanding(c)'
  BY Zenon DEF Outstanding

\* Publishing empties no delivery.
LEMMA PublishFills ==
    ASSUME TypeOK, NEW c \in Claims, NEW r \in Retries, Publish(c, r)
    PROVE  /\ queue'[c][r] > 0
           /\ \A x \in Claims, q \in Retries : queue[x][q] > 0 => queue'[x][q] > 0
  <1>1. /\ queue'[c][r] = queue[c][r] + 1
        /\ \A x \in Claims, q \in Retries :
              <<x, q>> # <<c, r>> => queue'[x][q] = queue[x][q]
    BY PublishMoves
  <1>2. \A x \in Claims, q \in Retries : queue[x][q] \in Nat
    BY DEF TypeOK
  <1> QED
    BY <1>1, <1>2

\* A worker's step keeps the other workers at their claims.
LEMMA GotoRuns ==
    ASSUME TypeOK, NEW w \in Workers, NEW s \in Steps, Goto(w, s), NEW c \in Claims
    PROVE  \A v \in Workers :
               /\ v # w \/ s # "retry" => (Runs(v, c) => Runs(v, c)')
               /\ v # w \/ worker[v].pc # "retry" => (Runs(v, c)' => Runs(v, c))
  <1>1. /\ worker'[w].pc = s /\ worker'[w].claim = worker[w].claim
        /\ \A v \in Workers \ {w} : /\ worker'[v].pc = worker[v].pc
                                    /\ worker'[v].claim = worker[v].claim
    BY GotoReports
  <1> QED
    BY <1>1, Zenon DEF Runs

LEMMA AcknowledgeRuns ==
    ASSUME TypeOK, NEW w \in Workers, Acknowledge(w), NEW c \in Claims
    PROVE  \A v \in Workers : /\ v # w => (Runs(v, c) => Runs(v, c)')
                              /\ Runs(v, c)' => Runs(v, c)
  <1>1. /\ worker'[w].claim = Null
        /\ \A v \in Workers : v # w => worker'[v] = worker[v]
    BY AcknowledgeMoves DEF TypeOK
  <1>2. c # Null
    OBVIOUS
  <1> QED
    BY <1>1, <1>2, Zenon DEF Runs

\* The worker of a step loses no work.
LEMMA KeptByWorkerStep ==
    ASSUME TypeOK, WorkerInv, ReportsInv, FreshInv,
           NEW w \in Workers, WorkerStep(w),
           NEW c \in Claims, claim[c] = "none" \/ fate[c] # {} \/ Outstanding(c)
    PROVE  claim'[c] = "none" \/ fate'[c] # {} \/ Outstanding(c)'
  <1> DEFINE k == worker[w].claim
             r == worker[w].retries
  <1>s. {"idle", "start", "process", "call", "succeed", "raise", "retry", "fail"}
        = Steps
    BY DEF Steps
  <1>t. {"started", "processing", "sent", "retrying", "failed"} \subseteq Statuses
    BY DEF Statuses
  <1>w. worker[w].pc # "idle"
    BY DEF WorkerStep, MarkStarted, MarkProcessing, MarkRunning, CallJob, Raise,
       MarkSent, MarkRetrying, MarkFailed, MarkEnd
  <1>k. k \in Claims /\ r \in Retries
    BY <1>w, AtWork
  <1>b. batch' = batch
    BY WorkerStepMoves
  <1>n. claim[c] = "none" => claim'[c] = "none"
    BY <1>k, WorkerStepMoves DEF FreshInv
  <1>1. ASSUME NEW step \in {"start", "process"},
               NEW status \in {"started", "processing"},
               NEW next \in {"process", "call"},
               MarkRunning(w, step, status, next)
        PROVE  claim'[c] = "none" \/ fate'[c] # {} \/ Outstanding(c)'
    <2>1. queue' = queue /\ fate' = fate
      BY <1>1 DEF MarkRunning
    <2>2. PICK s \in Steps : s # "retry" /\ Goto(w, s)
      BY <1>1, <1>s DEF MarkRunning
    <2>3. Outstanding(c) => Outstanding(c)'
      BY <1>b, <2>1, <2>2, GotoRuns, OutstandingKept
    <2> QED
      BY <1>n, <2>1, <2>3
  <1>2. CASE CallJob(w)
    <2>1. queue' = queue /\ claim' = claim
      BY <1>2 DEF CallJob
    <2>2. PICK s \in Steps : s # "retry" /\ Goto(w, s)
      BY <1>2, <1>s DEF CallJob, AfterFailure
    <2>3. Outstanding(c) => Outstanding(c)'
      BY <1>b, <2>1, <2>2, GotoRuns, OutstandingKept
    <2>4. fate[c] # {} => fate'[c] # {}
      <3>1. CASE fate' = [fate EXCEPT ![k] = @ \cup {"done"}]
        BY <1>k, <3>1, FateGrows
      <3>2. CASE UNCHANGED fate
        BY <3>2
      <3> QED
        BY <1>2, <3>1, <3>2 DEF CallJob
    <2> QED
      BY <2>1, <2>3, <2>4
  <1>3. CASE Raise(w)
    <2>1. claim' = claim
      BY <1>3 DEF Raise
    <2>2. CASE RetriesLeft(r) /\ Publish(k, r + 1) /\ Goto(w, "retry") /\ UNCHANGED fate
      <3>1. r + 1 \in Retries
        BY <1>k, <2>2, NextRetry
      <3>2. /\ queue'[k][r + 1] > 0
            /\ \A q \in Retries : queue[c][q] > 0 => queue'[c][q] > 0
        BY <1>k, <2>2, <3>1, PublishFills
      <3>3. CASE c = k
        BY <3>1, <3>2, <3>3 DEF Outstanding
      <3>4. CASE c # k
        <4>1. ~Runs(w, c)
          BY <3>4 DEF Runs
        <4>2. \A v \in Workers : Runs(v, c) => Runs(v, c)'
          BY <2>2, <4>1, <1>s, GotoRuns
        <4>3. Outstanding(c) => Outstanding(c)'
          BY <1>b, <3>2, <4>2, OutstandingKept
        <4> QED
          BY <2>1, <2>2, <4>3
      <3> QED
        BY <3>3, <3>4
    <2>3. CASE Goto(w, "fail") /\ fate' = [fate EXCEPT ![k] = @ \cup {"exhausted"}]
               /\ UNCHANGED queue
      <3>1. Outstanding(c) => Outstanding(c)'
        BY <1>b, <2>3, <1>s, GotoRuns, OutstandingKept
      <3>2. fate[c] # {} => fate'[c] # {}
        BY <1>k, <2>3, FateGrows
      <3> QED
        BY <2>1, <3>1, <3>2
    <2> QED
      BY <1>3, <2>2, <2>3 DEF Raise
  <1>4. ASSUME NEW step \in {"succeed", "retry", "fail"},
               NEW status \in {"sent", "retrying", "failed"},
               MarkEnd(w, step, status)
        PROVE  claim'[c] = "none" \/ fate'[c] # {} \/ Outstanding(c)'
    <2>1. queue' = queue /\ fate' = fate /\ Acknowledge(w)
      BY <1>4 DEF MarkEnd
    <2>2. step # "retry" => fate[k] # {}
      BY <1>4 DEF MarkEnd, ReportsInv
    <2>3. c # k \/ step = "retry" => ~Runs(w, c)
      BY <1>4 DEF MarkEnd, Runs
    <2>4. ~Runs(w, c) => (Outstanding(c) => Outstanding(c)')
      BY <1>b, <2>1, AcknowledgeRuns, OutstandingKept
    <2> QED
      BY <1>n, <2>1, <2>2, <2>3, <2>4
  <1> QED
    BY <1>1, <1>2, <1>3, <1>4
    DEF WorkerStep, MarkStarted, MarkProcessing, MarkSent, MarkRetrying, MarkFailed

\* Every step but a loss keeps claimed work done, given up or in someone's hands.
LEMMA KeptStep ==
    ASSUME TypeOK, WorkerInv, ReportsInv, FreshInv, NoWorkLost, [Next]_vars,
           NEW c \in Claims, c \notin lost'
    PROVE  claim'[c] = "none" \/ fate'[c] # {} \/ Outstanding(c)'
  <1> DEFINE Kept == claim'[c] = "none" \/ fate'[c] # {} \/ Outstanding(c)'
  <1>0. c \notin lost => claim[c] = "none" \/ fate[c] # {} \/ Outstanding(c)
    BY DEF NoWorkLost
  <1>k. ASSUME worker' = worker, fate' = fate, c \notin lost,
               claim[c] = "none" => claim'[c] = "none" \/ Outstanding(c)',
               \A d \in Dispatchers : c \in batch[d] => c \in batch'[d] \/ Outstanding(c)',
               \A r \in Retries : queue[c][r] > 0 => queue'[c][r] > 0
        PROVE  Kept
    BY <1>0, <1>k DEF Outstanding, Runs
  <1>1. ASSUME NEW d \in Dispatchers, ClaimDue(d) PROVE Kept
    <2>1. PICK due \in SUBSET Unclaimed :
             /\ claim' = [x \in Claims |-> IF x \in due THEN "queued" ELSE claim[x]]
             /\ batch' = [batch EXCEPT ![d] = due]
      BY <1>1 DEF ClaimDue
    <2>2. /\ batch[d] = {} /\ queue' = queue /\ worker' = worker
          /\ fate' = fate /\ lost' = lost
      BY <1>1 DEF ClaimDue
    <2>3. c \in due => c \in batch'[d]
      BY <2>1 DEF TypeOK
    <2>4. claim[c] = "none" => claim'[c] = "none" \/ Outstanding(c)'
      BY <2>1, <2>3 DEF Outstanding
    <2>5. \A e \in Dispatchers : c \in batch[e] => c \in batch'[e]
      BY <2>1, <2>2 DEF TypeOK
    <2> QED
      BY <1>k, <2>2, <2>4, <2>5
  <1>2. ASSUME NEW d \in Dispatchers, Enqueue(d) PROVE Kept
    <2>1. PICK x \in batch[d] : /\ Publish(x, 0)
                                /\ batch' = [batch EXCEPT ![d] = @ \ {x}]
      BY <1>2 DEF Enqueue
    <2>2. claim' = claim /\ worker' = worker /\ fate' = fate /\ lost' = lost
      BY <1>2 DEF Enqueue
    <2>3. x \in Claims /\ 0 \in Retries
      BY DEF TypeOK
    <2>4. /\ queue'[x][0] > 0
          /\ \A r \in Retries : queue[c][r] > 0 => queue'[c][r] > 0
      BY <2>1, <2>3, PublishFills
    <2>5. c = x => Outstanding(c)'
      BY <2>3, <2>4 DEF Outstanding
    <2>6. \A e \in Dispatchers : c \in batch[e] => c \in batch'[e] \/ c = x
      BY <2>1 DEF TypeOK
    <2> QED
      BY <1>k, <2>2, <2>4, <2>5, <2>6
  <1>3. ASSUME NEW d \in Dispatchers, Sweep(d) PROVE Kept
    <2>1. \A e \in Dispatchers : c \in batch[e] => c \in batch'[e]
      BY <1>3 DEF Sweep, TypeOK
    <2>2. claim[c] = "none" => claim'[c] = "none"
      BY <1>3 DEF Sweep, TypeOK
    <2>3. CASE c \in stale
      BY <1>3, <2>3 DEF Sweep, TypeOK, Outstanding
    <2>4. CASE c \notin stale
      BY <1>3, <1>k, <2>1, <2>2, <2>4 DEF Sweep
    <2> QED
      BY <2>3, <2>4
  <1>4. ASSUME NEW x \in Claims, GoesStale(x) PROVE Kept
    BY <1>4, <1>k DEF GoesStale
  <1>5. ASSUME NEW w \in Workers, NEW x \in Claims, NEW r \in Retries, Take(w, x, r)
        PROVE Kept
    <2>0. /\ worker'[w].pc = "start"
          /\ worker'[w].claim = x
          /\ \A v \in Workers : v # w => worker'[v] = worker[v]
      BY <1>5, TakeMoves
    <2>1. \A y \in Claims : y # x => queue'[y] = queue[y]
      BY <1>5 DEF Take, TypeOK
    <2>2. /\ claim' = claim /\ batch' = batch /\ fate' = fate /\ lost' = lost
          /\ worker[w].pc = "idle"
      BY <1>5 DEF Take
    <2>3. CASE c = x
      BY <2>0, <2>3 DEF Outstanding, Runs
    <2>4. CASE c # x
      <3>1. \A v \in Workers : Runs(v, c) => Runs(v, c)'
        BY <2>0, <2>2 DEF Runs, WorkerInv
      <3>2. Outstanding(c) => Outstanding(c)'
        BY <2>1, <2>2, <2>4, <3>1, OutstandingKept
      <3> QED
        BY <1>0, <2>2, <3>2
    <2> QED
      BY <2>3, <2>4
  <1>6. ASSUME NEW w \in Workers, WorkerStep(w) PROVE Kept
    <2>1. lost' = lost
      BY <1>6 DEF WorkerStep, MarkStarted, MarkProcessing, MarkRunning, CallJob, Raise,
         MarkSent, MarkRetrying, MarkFailed, MarkEnd
    <2> QED
      BY <1>0, <1>6, <2>1, KeptByWorkerStep
  <1>7. ASSUME NEW w \in Workers, Crash(w) PROVE Kept
    <2>1. /\ worker[w].pc # "idle"
          /\ worker[w].claim \in Claims /\ worker[w].retries \in Retries
      BY <1>7, AtWork DEF Crash
    <2>2. /\ claim' = claim /\ batch' = batch /\ fate' = fate /\ Acknowledge(w)
          /\ c \notin lost
      BY <1>7 DEF Crash, Abandoned
    <2>3. CASE worker[w].held
      <3>1. Publish(worker[w].claim, worker[w].retries)
        BY <1>7, <2>3 DEF Crash, Requeue
      <3>2. /\ queue'[worker[w].claim][worker[w].retries] > 0
            /\ \A r \in Retries : queue[c][r] > 0 => queue'[c][r] > 0
        BY <2>1, <3>1, PublishFills
      <3>3. CASE c = worker[w].claim
        BY <2>1, <3>2, <3>3 DEF Outstanding
      <3>4. CASE c # worker[w].claim
        <4>1. \A v \in Workers : Runs(v, c) => Runs(v, c)'
          BY <2>2, <3>4, AcknowledgeRuns DEF Runs
        <4>2. Outstanding(c) => Outstanding(c)'
          BY <2>2, <3>2, <4>1, OutstandingKept
        <4> QED
          BY <1>0, <2>2, <4>2
      <3> QED
        BY <3>3, <3>4
    <2>4. CASE ~worker[w].held
      <3>1. queue' = queue /\ ~Runs(w, c)
        BY <1>7, <2>4 DEF Crash, Requeue, Abandoned
      <3>2. \A v \in Workers : Runs(v, c) => Runs(v, c)'
        BY <2>2, <3>1, AcknowledgeRuns
      <3>3. Outstanding(c) => Outstanding(c)'
        BY <2>2, <3>1, <3>2, OutstandingKept
      <3> QED
        BY <1>0, <2>2, <3>3
    <2> QED
      BY <2>3, <2>4
  <1>8. ASSUME NEW w \in Workers, Kill(w) PROVE Kept
    <2>1. /\ claim' = claim /\ batch' = batch /\ fate' = fate /\ queue' = queue
          /\ Acknowledge(w) /\ c \notin lost /\ ~Runs(w, c)
      BY <1>8 DEF Kill, Abandoned
    <2>2. \A v \in Workers : Runs(v, c) => Runs(v, c)'
      BY <2>1, AcknowledgeRuns
    <2>3. Outstanding(c) => Outstanding(c)'
      BY <2>1, <2>2, OutstandingKept
    <2> QED
      BY <1>0, <2>1, <2>3
  <1>9. ASSUME NEW d \in Dispatchers, Strand(d) PROVE Kept
    <2>1. \A e \in Dispatchers : c \in batch[e] => c \in batch'[e]
      BY <1>9 DEF Strand, TypeOK
    <2> QED
      BY <1>9, <1>k, <2>1 DEF Strand
  <1>10. CASE Flush
    <2>1. /\ claim' = claim /\ batch' = batch /\ fate' = fate /\ c \notin lost
          /\ \A r \in Retries : ~(queue[c][r] > 0)
      BY <1>10 DEF Flush
    <2>2. \A v \in Workers : Runs(v, c) => Runs(v, c)'
      BY <1>10, FlushMoves, Zenon DEF Runs
    <2>3. Outstanding(c) => Outstanding(c)'
      BY <2>1, <2>2, OutstandingKept
    <2> QED
      BY <1>0, <2>1, <2>3
  <1>11. CASE UNCHANGED vars
    BY <1>11, <1>k DEF vars
  <1> QED
    BY <1>1, <1>2, <1>3, <1>4, <1>5, <1>6, <1>7, <1>8, <1>9, <1>10, <1>11 DEF Next

\* Unless its delivery is gone, claimed work is done, given up or in someone's
\* hands, whatever workers and status updates fail.
THEOREM WorkIsKept == Spec => []NoWorkLost
  <1>1. Init => FreshInv /\ ReportsInv /\ StatusIsTrue /\ NoWorkLost
    BY DEF Init, FreshInv, ReportsInv, StatusIsTrue, NoWorkLost, IdleWorker
  <1>2. TypeOK /\ WorkerInv /\ ReportsInv /\ FreshInv /\ NoWorkLost
            /\ [Next]_vars => NoWorkLost'
    BY KeptStep DEF NoWorkLost
  <1> QED
    BY <1>1, <1>2, TruthStep, FreshStep, Shaped, PTL DEF Spec

-----------------------------------------------------------------------------
(* One delivery per claim while nothing has failed.                        *)

\* Nothing that was not delivered so far has two places, or two of one kind.
Unique(c) ==
    /\ \A d, e \in Dispatchers : c \in batch[d] /\ c \in batch[e] => d = e
    /\ \A r \in Retries : queue[c][r] <= 1
    /\ \A r, q \in Retries : queue[c][r] > 0 /\ queue[c][q] > 0 => r = q
    /\ \A v, w \in Workers : Runs(v, c) /\ Runs(w, c) => v = w
    /\ \A d \in Dispatchers, r \in Retries : ~(c \in batch[d] /\ queue[c][r] > 0)
    /\ \A d \in Dispatchers, w \in Workers : ~(c \in batch[d] /\ Runs(w, c))
    /\ \A r \in Retries, w \in Workers : ~(queue[c][r] > 0 /\ Runs(w, c))

UniqueInv ==
    faults = 0 => /\ stale = {}
                  /\ \A c \in Claims : Unique(c)
                  /\ \A c \in Claims : claim[c] \in Reclaimable => Working(c)

\* A claim stays in one place when nobody gets it who had it not.
LEMMA UniqueKept ==
    ASSUME NEW c \in Claims, Unique(c),
           \A d \in Dispatchers : c \in batch'[d] => c \in batch[d],
           \A r \in Retries : queue'[c][r] = queue[c][r] \/ queue'[c][r] = 0,
           \A w \in Workers : Runs(w, c)' => Runs(w, c)
    PROVE  Unique(c)'
  <1>1. \A r \in Retries : queue'[c][r] <= 1
    BY DEF Unique
  <1>2. \A r \in Retries : queue'[c][r] > 0 => queue[c][r] > 0
    OBVIOUS
  <1> QED
    BY <1>1, <1>2, Zenon DEF Unique

\* A step of a worker leaves its claim in one place: it hands its delivery on to
\* the retry it publishes.
LEMMA UniqueWorkerStep ==
    ASSUME TypeOK, WorkerInv, NEW w \in Workers, WorkerStep(w),
           NEW c \in Claims, Unique(c)
    PROVE  Unique(c)'
  <1> DEFINE k == worker[w].claim
             r == worker[w].retries
  <1>s. {"idle", "start", "process", "call", "succeed", "raise", "retry", "fail"}
        = Steps
    BY DEF Steps
  <1>0. /\ worker[w].pc # "idle" /\ batch' = batch
        /\ c # k => queue'[c] = queue[c]
    BY WorkerStepMoves
  <1>k. k \in Claims /\ r \in Retries
    BY <1>0, AtWork
  <1>1. ASSUME queue' = queue, \A v \in Workers : Runs(v, c)' => Runs(v, c)
        PROVE  Unique(c)'
    <2>1. \A d \in Dispatchers : c \in batch'[d] => c \in batch[d]
      BY <1>0
    <2>2. \A q \in Retries : queue'[c][q] = queue[c][q]
      BY <1>1
    <2> QED
      BY <1>1, <2>1, <2>2, UniqueKept
  <1>2. CASE MarkStarted(w) \/ MarkProcessing(w) \/ CallJob(w)
    <2>1. /\ queue' = queue /\ worker[w].pc # "retry"
          /\ \E s \in Steps : Goto(w, s)
      BY <1>2, <1>s DEF MarkStarted, MarkProcessing, MarkRunning, CallJob, AfterFailure
    <2> QED
      BY <1>1, <2>1, GotoRuns
  <1>3. CASE MarkSent(w) \/ MarkRetrying(w) \/ MarkFailed(w)
    <2>1. queue' = queue /\ Acknowledge(w)
      BY <1>3 DEF MarkSent, MarkRetrying, MarkFailed, MarkEnd
    <2> QED
      BY <1>1, <2>1, AcknowledgeRuns
  <1>4. CASE Raise(w)
    <2>1. worker[w].pc = "raise"
      BY <1>4 DEF Raise
    <2>2. CASE queue' = queue
      <3>1. \E s \in Steps : Goto(w, s)
        BY <1>4, <1>s DEF Raise
      <3> QED
        BY <1>1, <2>1, <2>2, <3>1, GotoRuns
    <2>3. CASE RetriesLeft(r) /\ Publish(k, r + 1) /\ Goto(w, "retry")
      <3>1. \A v \in Workers : Runs(v, c)' => Runs(v, c)
        BY <1>s, <2>1, <2>3, GotoRuns
      <3>2. CASE c # k
        BY <1>0, <3>1, <3>2, UniqueKept
      <3>3. CASE c = k
        <4>1. r + 1 \in Retries /\ Publish(c, r + 1)
          BY <1>k, <2>3, <3>3, NextRetry
        <4>2. /\ queue'[c][r + 1] = queue[c][r + 1] + 1
              /\ \A q \in Retries : q # r + 1 => queue'[c][q] = queue[c][q]
          BY <4>1, PublishMoves
        <4>3. Runs(w, c)
          BY <2>1, <3>3 DEF Runs
        <4>4. /\ \A d \in Dispatchers : c \notin batch'[d]
              /\ \A q \in Retries : queue[c][q] = 0
              /\ \A v \in Workers : v # w => ~Runs(v, c)
          <5>1. \A q \in Retries : queue[c][q] \in Nat
            BY DEF TypeOK
          <5> QED
            BY <1>0, <4>3, <5>1 DEF Unique
        <4>5. \A v \in Workers : ~Runs(v, c)'
          <5>1. worker'[w].pc = "retry"
            BY <1>s, <2>3, GotoMoves DEF TypeOK
          <5>2. ~Runs(w, c)'
            BY <5>1 DEF Runs
          <5> QED
            BY <3>1, <4>4, <5>2
        <4>6. /\ queue'[c][r + 1] = 1
              /\ \A q \in Retries : q # r + 1 => queue'[c][q] = 0
          BY <4>1, <4>2, <4>4
        <4> QED
          BY <4>1, <4>4, <4>5, <4>6 DEF Unique
      <3> QED
        BY <3>2, <3>3
    <2> QED
      BY <1>4, <2>2, <2>3 DEF Raise
  <1> QED
    BY <1>2, <1>3, <1>4 DEF WorkerStep

\* A claim stays in one place in every step that does not reissue it.
LEMMA StaysUnique ==
    ASSUME TypeOK, WorkerInv, FreshInv, [Next]_vars, NEW c \in Claims, Unique(c),
           ~Reissues(c)
    PROVE  Unique(c)'
  <1>n. \A q \in Retries : queue[c][q] \in Nat
    BY DEF TypeOK
  <1>1. ASSUME NEW d \in Dispatchers, ClaimDue(d) PROVE Unique(c)'
    <2>1. PICK due \in SUBSET Unclaimed : batch' = [batch EXCEPT ![d] = due]
      BY <1>1 DEF ClaimDue
    <2>2. queue' = queue /\ worker' = worker /\ batch[d] = {}
      BY <1>1 DEF ClaimDue
    <2>3. CASE c \in due
      <3>1. /\ \A e \in Dispatchers : c \notin batch[e]
            /\ \A r \in Retries : queue[c][r] = 0
            /\ \A w \in Workers : ~Runs(w, c)
        BY <2>1, <2>3 DEF FreshInv, Unclaimed, Runs
      <3>2. \A e \in Dispatchers : c \in batch'[e] => e = d
        BY <2>1, <3>1 DEF TypeOK
      <3>3. /\ \A r \in Retries : queue'[c][r] = 0
            /\ \A w \in Workers : ~Runs(w, c)'
        BY <2>2, <3>1 DEF Runs
      <3> QED
        BY <3>2, <3>3 DEF Unique
    <2>4. CASE c \notin due
      <3>1. \A e \in Dispatchers : c \in batch'[e] => c \in batch[e]
        BY <2>1, <2>2, <2>4 DEF TypeOK
      <3>2. \A w \in Workers : Runs(w, c)' => Runs(w, c)
        BY <2>2 DEF Runs
      <3> QED
        BY <2>2, <3>1, <3>2, UniqueKept
    <2> QED
      BY <2>3, <2>4
  <1>2. ASSUME NEW d \in Dispatchers, Enqueue(d) PROVE Unique(c)'
    <2>1. PICK x \in batch[d] : /\ Publish(x, 0)
                                /\ batch' = [batch EXCEPT ![d] = @ \ {x}]
      BY <1>2 DEF Enqueue
    <2>2. x \in Claims /\ 0 \in Retries
      BY DEF TypeOK
    <2>3. \A w \in Workers : Runs(w, c)' => Runs(w, c)
      BY <1>2 DEF Enqueue, Runs
    <2>4. \A e \in Dispatchers : c \in batch'[e] => c \in batch[e] /\ (e = d => c # x)
      BY <2>1 DEF TypeOK
    <2>5. CASE c = x
      <3>1. /\ \A e \in Dispatchers : c \in batch[e] => e = d
            /\ \A q \in Retries : queue[c][q] = 0
            /\ \A w \in Workers : ~Runs(w, c)
        BY <1>n, <2>5 DEF Unique
      <3>2. /\ queue'[c][0] = queue[c][0] + 1
            /\ \A q \in Retries : q # 0 => queue'[c][q] = queue[c][q]
        BY <2>1, <2>2, <2>5, PublishMoves
      <3>3. /\ queue'[c][0] = 1
            /\ \A q \in Retries : q # 0 => queue'[c][q] = 0
        BY <2>2, <3>1, <3>2
      <3>4. \A e \in Dispatchers : c \notin batch'[e]
        BY <2>4, <2>5, <3>1
      <3>5. \A w \in Workers : ~Runs(w, c)'
        BY <2>3, <3>1
      <3> QED
        BY <3>3, <3>4, <3>5 DEF Unique
    <2>6. CASE c # x
      <3>1. \A r \in Retries : queue'[c][r] = queue[c][r]
        BY <2>1, <2>2, <2>6, PublishMoves
      <3> QED
        BY <2>3, <2>4, <3>1, UniqueKept
    <2> QED
      BY <2>5, <2>6
  <1>3. ASSUME NEW d \in Dispatchers, Strand(d) PROVE Unique(c)'
    <2>1. /\ worker' = worker /\ queue' = queue
          /\ \A e \in Dispatchers : c \in batch'[e] => c \in batch[e]
      BY <1>3 DEF Strand, TypeOK
    <2>2. \A w \in Workers : Runs(w, c)' => Runs(w, c)
      BY <2>1 DEF Runs
    <2> QED
      BY <2>1, <2>2, UniqueKept
  <1>4. ASSUME NEW d \in Dispatchers, Sweep(d) PROVE Unique(c)'
    <2>1. /\ worker' = worker /\ queue' = queue /\ c \notin stale
          /\ \A e \in Dispatchers : c \in batch'[e] => c \in batch[e]
      BY <1>4 DEF Sweep, TypeOK, Reissues
    <2>2. \A w \in Workers : Runs(w, c)' => Runs(w, c)
      BY <2>1 DEF Runs
    <2> QED
      BY <2>1, <2>2, UniqueKept
  <1>5. ASSUME NEW w \in Workers, NEW x \in Claims, NEW r \in Retries, Take(w, x, r)
        PROVE  Unique(c)'
    <2>0. /\ worker'[w].pc = "start"
          /\ worker'[w].claim = x
          /\ \A v \in Workers : v # w => worker'[v] = worker[v]
      BY <1>5, TakeMoves
    <2>1. /\ \A y \in Claims : y # x => queue'[y] = queue[y]
          /\ \A q \in Retries : q # r => queue'[x][q] = queue[x][q]
          /\ queue[x][r] > 0 /\ queue'[x][r] = queue[x][r] - 1
      BY <1>5 DEF Take, TypeOK
    <2>2. batch' = batch
      BY <1>5 DEF Take
    <2>3. CASE c = x
      <3>1. /\ \A d \in Dispatchers : c \notin batch[d]
            /\ \A q \in Retries : q # r => queue[c][q] = 0
            /\ queue[c][r] = 1
            /\ \A v \in Workers : ~Runs(v, c)
        BY <1>n, <2>1, <2>3 DEF Unique
      <3>2. \A q \in Retries : queue'[c][q] = 0
        BY <2>1, <2>3, <3>1
      <3>3. \A v \in Workers : v # w => ~Runs(v, c)'
        BY <2>0, <3>1 DEF Runs
      <3> QED
        BY <2>2, <3>1, <3>2, <3>3 DEF Unique
    <2>4. CASE c # x
      <3>1. \A v \in Workers : Runs(v, c)' => Runs(v, c)
        BY <2>0, <2>4 DEF Runs
      <3> QED
        BY <2>1, <2>2, <2>4, <3>1, UniqueKept
    <2> QED
      BY <2>3, <2>4
  <1>6. ASSUME NEW w \in Workers, WorkerStep(w) PROVE Unique(c)'
    BY <1>6, UniqueWorkerStep
  <1>7. ASSUME NEW w \in Workers, Crash(w) \/ Kill(w) PROVE Unique(c)'
    <2>1. /\ Acknowledge(w) /\ worker[w].pc # "idle" /\ batch' = batch
          /\ worker[w].claim \in Claims /\ worker[w].retries \in Retries
      BY <1>7, AtWork DEF Crash, Kill
    <2>2. \A v \in Workers : Runs(v, c)' => Runs(v, c)
      BY <2>1, AcknowledgeRuns
    <2>3. CASE queue'[c] = queue[c]
      BY <2>1, <2>2, <2>3, UniqueKept
    <2>4. CASE queue'[c] # queue[c]
      <3> DEFINE r == worker[w].retries
      <3>1. Crash(w) /\ worker[w].held /\ Publish(worker[w].claim, r)
        BY <1>7, <2>4 DEF Crash, Kill, Requeue
      <3>2. worker[w].claim = c
        BY <2>1, <2>4, <3>1 DEF Publish, TypeOK
      <3>3. Runs(w, c)
        BY <3>1, <3>2 DEF Runs, Reissues
      <3>4. /\ \A d \in Dispatchers : c \notin batch'[d]
            /\ \A q \in Retries : queue[c][q] = 0
            /\ \A v \in Workers : v # w => ~Runs(v, c)
        BY <1>n, <2>1, <3>3 DEF Unique
      <3>5. /\ queue'[c][r] = 1
            /\ \A q \in Retries : q # r => queue'[c][q] = 0
        <4>1. /\ queue'[c][r] = queue[c][r] + 1
              /\ \A q \in Retries : q # r => queue'[c][q] = queue[c][q]
          BY <2>1, <3>1, <3>2, PublishMoves
        <4> QED
          BY <2>1, <3>4, <4>1
      <3>6. \A v \in Workers : ~Runs(v, c)'
        <4>1. ~Runs(w, c)'
          BY <2>1, AcknowledgeMoves DEF Runs, TypeOK
        <4> QED
          BY <2>2, <3>4, <4>1
      <3> QED
        BY <2>1, <3>4, <3>5, <3>6 DEF Unique
    <2> QED
      BY <2>3, <2>4
  <1>8. CASE Flush
    <2>1. /\ \A w \in Workers : Runs(w, c)' => Runs(w, c)
          /\ \A r \in Retries : queue'[c][r] = 0
      BY <1>8, FlushMoves DEF Runs
    <2>2. batch' = batch
      BY <1>8 DEF Flush
    <2> QED
      BY <2>1, <2>2, UniqueKept
  <1>9. CASE (\E x \in Claims : GoesStale(x)) \/ UNCHANGED vars
    <2>1. UNCHANGED <<batch, queue, worker>>
      BY <1>9 DEF GoesStale, vars
    <2> QED
      BY <2>1, Zenon DEF Unique, Runs
  <1> QED
    BY <1>1, <1>2, <1>3, <1>4, <1>5, <1>6, <1>7, <1>8, <1>9 DEF Next

\* Faults are only counted up.
LEMMA FaultsGrow ==
    ASSUME TypeOK, [Next]_vars, faults' = 0
    PROVE  faults = 0
  <1>1. faults' \in {faults, faults + 1}
    BY DEF Next, vars, ClaimDue, Enqueue, Strand, Sweep, GoesStale, Take, WorkerStep,
       MarkStarted, MarkProcessing, MarkRunning, CallJob, Raise, MarkSent,
       MarkRetrying, MarkFailed, MarkEnd, Crash, Kill, Flush
  <1> QED
    BY <1>1 DEF TypeOK

\* While nothing fails a worker's step leaves nothing stale, and a claim in a
\* status the sweep reclaims has its worker.
LEMMA WorkedByStep ==
    ASSUME TypeOK, WorkerInv, UniqueInv, faults = 0, faults' = 0,
           NEW w \in Workers, WorkerStep(w)
    PROVE  /\ stale' = {}
           /\ \A c \in Claims : claim'[c] \in Reclaimable => Working(c)'
  <1> DEFINE k == worker[w].claim
  <1>s. {"idle", "start", "process", "call", "succeed", "raise", "retry", "fail"}
        = Steps
    BY DEF Steps
  <1>t. {"started", "processing", "sent", "retrying", "failed"} \subseteq Statuses
    BY DEF Statuses
  <1>0. worker[w].pc # "idle" /\ \A c \in Claims : c # k => claim'[c] = claim[c]
    BY WorkerStepMoves
  <1>k. k \in Claims
    BY <1>0, AtWork
  <1>u. stale = {} /\ \A c \in Claims : claim[c] \in Reclaimable => Working(c)
    BY DEF UniqueInv
  <1>f. faults' # faults + 1
    OBVIOUS
  <1>1. ASSUME NEW s \in Steps, Goto(w, s),
               UNCHANGED <<claim, stale>> \/ \E t \in Statuses : UpdateStatus(k, t)
        PROVE  /\ stale' = {}
               /\ \A c \in Claims : claim'[c] \in Reclaimable => Working(c)'
    <2>1. stale' = {}
      BY <1>u, <1>k, <1>1, UpdateMoves
    <2>2. \A v \in Workers : worker'[v].claim = worker[v].claim
      BY <1>1, GotoMoves DEF TypeOK
    <2>3. \A c \in Claims : Working(c) => Working(c)'
      BY <2>2, Zenon DEF Working
    <2>4. Working(k)
      BY DEF Working
    <2> QED
      BY <1>0, <1>u, <2>1, <2>3, <2>4 DEF Reclaimable
  <1>2. CASE MarkStarted(w) \/ MarkProcessing(w) \/ CallJob(w) \/ Raise(w)
    <2>1. /\ \E s \in Steps : Goto(w, s)
          /\ UNCHANGED <<claim, stale>> \/ \E t \in Statuses : UpdateStatus(k, t)
      BY <1>2, <1>f, <1>s, <1>t
      DEF MarkStarted, MarkProcessing, MarkRunning, CallJob, AfterFailure, Raise
    <2> QED
      BY <1>1, <2>1
  <1>3. CASE MarkSent(w) \/ MarkRetrying(w) \/ MarkFailed(w)
    <2>1. PICK t \in {"sent", "retrying", "failed"} : UpdateStatus(k, t) /\ Acknowledge(w)
      BY <1>3, <1>f DEF MarkSent, MarkRetrying, MarkFailed, MarkEnd
    <2>2. stale' = {} /\ claim'[k] = t
      BY <1>u, <1>k, <1>t, <2>1, UpdateMoves
    <2>3. \A v \in Workers : v # w => worker'[v] = worker[v]
      BY <2>1, AcknowledgeMoves DEF TypeOK
    <2>4. ASSUME NEW c \in Claims, claim'[c] \in Reclaimable PROVE Working(c)'
      <3>1. c # k
        BY <2>2, <2>4 DEF Reclaimable
      <3>2. PICK v \in Workers : worker[v].claim = c
        BY <1>0, <1>u, <2>4, <3>1 DEF Working
      <3> QED
        BY <2>3, <3>1, <3>2 DEF Working
    <2> QED
      BY <2>2, <2>4
  <1> QED
    BY <1>2, <1>3 DEF WorkerStep

LEMMA UniqueStep ==
    TypeOK /\ WorkerInv /\ FreshInv /\ UniqueInv /\ [Next]_vars => UniqueInv'
  <1> SUFFICES ASSUME TypeOK, WorkerInv, FreshInv, UniqueInv, [Next]_vars, faults' = 0
               PROVE  UniqueInv'
    BY DEF UniqueInv
  <1>0. faults = 0
    BY FaultsGrow
  <1>u. /\ stale = {}
        /\ \A c \in Claims : Unique(c)
        /\ \A c \in Claims : claim[c] \in Reclaimable => Working(c)
    BY <1>0 DEF UniqueInv
  <1>1. \A c \in Claims : Unique(c)'
    <2>1. \A c \in Claims : ~Reissues(c)
      BY <1>0, <1>u DEF Reissues, Crash
    <2> QED
      BY <1>u, <2>1, StaysUnique
  <1>2. stale' = {} /\ \A c \in Claims : claim'[c] \in Reclaimable => Working(c)'
    <2>1. ASSUME NEW w \in Workers, WorkerStep(w)
          PROVE  stale' = {} /\ \A c \in Claims : claim'[c] \in Reclaimable => Working(c)'
      BY <1>0, <2>1, WorkedByStep
    <2>2. ASSUME NEW d \in Dispatchers, ClaimDue(d)
          PROVE  /\ stale' = stale /\ worker' = worker
                 /\ \A c \in Claims : claim'[c] \in Reclaimable => claim[c] \in Reclaimable
      BY <2>2 DEF ClaimDue, Reclaimable
    <2>3. ASSUME NEW w \in Workers, NEW x \in Claims, NEW r \in Retries, Take(w, x, r)
          PROVE  /\ stale' = stale /\ claim' = claim
                 /\ \A c \in Claims : Working(c) => Working(c)'
      <3>1. \A v \in Workers : v # w => worker'[v] = worker[v]
        BY <2>3, TakeMoves
      <3>2. worker[w].claim = Null
        BY <2>3 DEF Take, WorkerInv
      <3> QED
        BY <2>3, <3>1, <3>2 DEF Take, Working
    <2>4. CASE Flush
      <3>1. \A v \in Workers : worker'[v].claim = worker[v].claim
        BY <2>4, FlushMoves
      <3>2. \A c \in Claims : Working(c) => Working(c)'
        BY <3>1, Zenon DEF Working
      <3> QED
        BY <1>u, <2>4, <3>2 DEF Flush, Reclaimable
    <2>5. CASE (\E d \in Dispatchers : Enqueue(d) \/ Strand(d)) \/ UNCHANGED vars
      BY <1>u, <2>5 DEF Enqueue, Strand, vars, Working, Reclaimable
    <2>6. /\ \A d \in Dispatchers : ~Sweep(d)
          /\ \A c \in Claims : ~GoesStale(c)
          /\ \A w \in Workers : ~Crash(w) /\ ~Kill(w)
      BY <1>0, <1>u DEF Sweep, GoesStale, Crash, Kill
    <2> QED
      BY <1>u, <2>1, <2>2, <2>3, <2>4, <2>5, <2>6 DEF Next, Working, Reclaimable
  <1> QED
    BY <1>1, <1>2 DEF UniqueInv, Reclaimable

\* What is in one place has one delivery.
LEMMA UniqueDelivery ==
    ASSUME TypeOK, NEW c \in Claims, Unique(c),
           NEW a \in Deliveries(c), NEW b \in Deliveries(c)
    PROVE  a = b
  <1> DEFINE InBatch(x) == \E d \in Dispatchers : c \in batch[d] /\ x = <<"dispatcher", d>>
             InRedis(x) == \E r \in Retries : queue[c][r] > 0 /\ x = <<"redis", <<r, 1>>>>
             AtWorker(x) == \E w \in Workers : Runs(w, c) /\ x = <<"worker", w>>
  <1>1. ASSUME NEW x \in Deliveries(c)
        PROVE  InBatch(x) \/ InRedis(x) \/ AtWorker(x)
    <2>1. CASE x \in {"dispatcher"} \X {d \in Dispatchers : c \in batch[d]}
      BY <2>1
    <2>2. CASE x \in {"redis"} \X UNION {{r} \X (1..queue[c][r]) : r \in Retries}
      <3>1. PICK p \in UNION {{r} \X (1..queue[c][r]) : r \in Retries} :
                x = <<"redis", p>>
        BY <2>2
      <3>2. PICK r \in Retries : p \in {r} \X (1..queue[c][r])
        BY <3>1
      <3>3. PICK n \in 1..queue[c][r] : p = <<r, n>>
        BY <3>2
      <3>4. queue[c][r] \in Nat /\ queue[c][r] <= 1
        BY DEF Unique, TypeOK
      <3>5. n = 1 /\ queue[c][r] > 0
        BY <3>3, <3>4
      <3> QED
        BY <3>1, <3>3, <3>5
    <2>3. CASE x \in {"worker"} \X {w \in Workers : Runs(w, c)}
      BY <2>3
    <2> QED
      BY <2>1, <2>2, <2>3 DEF Deliveries
  <1>2. InBatch(a) \/ InRedis(a) \/ AtWorker(a)
    BY <1>1
  <1>3. InBatch(b) \/ InRedis(b) \/ AtWorker(b)
    BY <1>1
  <1>4. CASE InBatch(a)
    <2>1. ~InRedis(b) /\ ~AtWorker(b)
      BY <1>4 DEF Unique
    <2> QED
      BY <1>3, <1>4, <2>1 DEF Unique
  <1>5. CASE InRedis(a)
    <2>1. ~InBatch(b) /\ ~AtWorker(b)
      BY <1>5 DEF Unique
    <2> QED
      BY <1>3, <1>5, <2>1 DEF Unique
  <1>6. CASE AtWorker(a)
    <2>1. ~InBatch(b) /\ ~InRedis(b)
      BY <1>6 DEF Unique
    <2> QED
      BY <1>3, <1>6, <2>1 DEF Unique
  <1> QED
    BY <1>2, <1>4, <1>5, <1>6

OnePlaceIsSingle == \A c \in Claims : Unique(c) => Single(c)

LEMMA UniqueIsSingle == TypeOK => OnePlaceIsSingle
  BY UniqueDelivery DEF OnePlaceIsSingle, Single

\* What has one delivery is in one place.
LEMMA SingleIsUnique ==
    ASSUME TypeOK, NEW c \in Claims, Single(c)
    PROVE  Unique(c)
  <1>1. /\ \A d \in Dispatchers : c \in batch[d] => <<"dispatcher", d>> \in Deliveries(c)
        /\ \A w \in Workers : Runs(w, c) => <<"worker", w>> \in Deliveries(c)
    BY DEF Deliveries
  <1>2. ASSUME NEW r \in Retries, NEW n \in Nat, 0 < n, n <= queue[c][r]
        PROVE  <<"redis", <<r, n>>>> \in Deliveries(c)
    <2>1. queue[c][r] \in Nat
      BY DEF TypeOK
    <2>2. <<r, n>> \in {r} \X (1..queue[c][r])
      BY <1>2, <2>1
    <2>3. <<r, n>> \in UNION {{q} \X (1..queue[c][q]) : q \in Retries}
      BY <2>2
    <2> QED
      BY <2>3 DEF Deliveries
  <1>3. \A r \in Retries : queue[c][r] \in Nat
    BY DEF TypeOK
  <1>4. \A r \in Retries : queue[c][r] > 0 => <<"redis", <<r, 1>>>> \in Deliveries(c)
    BY <1>2, <1>3
  <1>5. \A r \in Retries : queue[c][r] <= 1
    <2> SUFFICES ASSUME NEW r \in Retries, queue[c][r] > 1 PROVE FALSE
      BY <1>3
    <2>1. <<"redis", <<r, 1>>>> \in Deliveries(c) /\ <<"redis", <<r, 2>>>> \in Deliveries(c)
      BY <1>2, <1>3
    <2>2. <<"redis", <<r, 1>>>> = <<"redis", <<r, 2>>>>
      BY <2>1 DEF Single
    <2> QED
      BY <2>2
  <1>6. /\ \A d, e \in Dispatchers : c \in batch[d] /\ c \in batch[e] => d = e
        /\ \A v, w \in Workers : Runs(v, c) /\ Runs(w, c) => v = w
        /\ \A d \in Dispatchers, w \in Workers : ~(c \in batch[d] /\ Runs(w, c))
    BY <1>1 DEF Single
  <1>7. /\ \A r, q \in Retries : queue[c][r] > 0 /\ queue[c][q] > 0 => r = q
        /\ \A d \in Dispatchers, r \in Retries : ~(c \in batch[d] /\ queue[c][r] > 0)
        /\ \A r \in Retries, w \in Workers : ~(queue[c][r] > 0 /\ Runs(w, c))
    BY <1>1, <1>4 DEF Single
  <1> QED
    BY <1>5, <1>6, <1>7 DEF Unique

\* Until something fails a claim is delivered to one worker at a time, however
\* dispatchers overlap and whether or not Redis was flushed.
THEOREM SingleDelivery == Spec => []OneDelivery
  <1>1. Init => FreshInv /\ UniqueInv
    BY DEF Init, FreshInv, UniqueInv, Unique, Runs, IdleWorker, Reclaimable
  <1>2. TypeOK /\ UniqueInv => OneDelivery
    BY UniqueIsSingle DEF UniqueInv, OneDelivery, OnePlaceIsSingle
  <1> QED
    BY <1>1, <1>2, FreshStep, UniqueStep, Shaped, PTL DEF Spec

\* After any number of faults, only a sweep that takes a stale claim and a crash
\* between the retry's publication and the acknowledgement give a claim a second
\* delivery.
THEOREM DuplicatesAreReissues == Spec => OnlyReissuesDuplicate
  <1>1. Init => FreshInv
    BY DEF Init, FreshInv, IdleWorker
  <1>2. TypeOK /\ WorkerInv /\ FreshInv /\ OnePlaceIsSingle' /\ [Next]_vars
          => [\A c \in Claims : Single(c) => Single(c)' \/ Reissues(c)]_vars
    <2> SUFFICES ASSUME TypeOK, WorkerInv, FreshInv, OnePlaceIsSingle', [Next]_vars,
                        NEW c \in Claims, Single(c), ~Reissues(c)
                 PROVE  Single(c)'
      OBVIOUS
    <2>1. Unique(c)'
      BY SingleIsUnique, StaysUnique
    <2> QED
      BY <2>1 DEF OnePlaceIsSingle
  <1> QED
    BY <1>1, <1>2, FreshStep, UniqueIsSingle, Shaped, PTL DEF Spec, OnlyReissuesDuplicate
=============================================================================
