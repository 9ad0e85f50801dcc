----------------------------- MODULE TaskClaims -----------------------------
(***************************************************************************)
(* Scheduled work on Railway (worker/paidsoon_worker): dispatchers claim   *)
(* due work in Postgres, one row per claim key, and enqueue a Celery task  *)
(* per claim over Redis; workers run the task, mirror its lifecycle into   *)
(* the claim, and retry; a recovery sweep reclaims claims whose worker     *)
(* disappeared.                                                            *)
(*                                                                         *)
(* A claim's status and the deliveries of its task are written by          *)
(* different processes to different stores, in different orders: that is   *)
(* what the properties are about.  The job behind a task is one atomic     *)
(* call here; ReminderSequence opens it.                                   *)
(***************************************************************************)
EXTENDS Integers

CONSTANTS
    Claims,       \* claim keys of the work that falls due
    Dispatchers,  \* dispatcher and sweep runs that can overlap
    Workers,      \* Celery worker processes
    MaxRetries,   \* MAX_TASK_RETRIES
    Losses,       \* the ways a delivery may be lost
    MaxFaults,    \* bound: worker crashes and failed status updates
    Null          \* no claim

Statuses ==
    {"none", "queued", "started", "processing", "retrying", "sent", "failed"}
Retries == 0..MaxRetries

ASSUME ClaimsAssumption ==
    /\ MaxRetries \in Nat
    /\ Losses \subseteq {"strand", "kill", "flush"}
    /\ MaxFaults \in Nat
    /\ Null \notin Claims

VARIABLES
    claim,    \* claim[c]: scheduled_task_claims.status, "none" without a row
    stale,    \* claims not updated for the stale-processing threshold
    batch,    \* batch[d]: claims a dispatcher run has still to enqueue
    queue,    \* queue[c][r]: deliveries of c's r-th retry waiting in Redis
    worker,   \* worker[w]: the delivery a worker is at
    fate,     \* fate[c]: its job was done, its retries were exhausted
    lost,     \* claims a delivery of which is gone and that no sweep took since
    faults    \* crashes and failed updates so far

vars == <<claim, stale, batch, queue, worker, fate, lost, faults>>

-----------------------------------------------------------------------------
Steps == {"idle", "start", "process", "call", "succeed", "raise", "retry", "fail"}
WorkerRecord == [pc : Steps, claim : Claims \cup {Null}, retries : Retries,
                 held : BOOLEAN]  \* held: Redis still knows the delivery
IdleWorker == [pc |-> "idle", claim |-> Null, retries |-> 0, held |-> FALSE]

Goto(w, step) == worker' = [worker EXCEPT ![w].pc = step]

\* The task is over and its delivery acknowledged.
Acknowledge(w) == worker' = [worker EXCEPT ![w] = IdleWorker]

\* Wrong on purpose (mutant of UpdateStatus): updated_at is not touched.
UpdateStatusOnly(c, s) == claim' = [claim EXCEPT ![c] = s] /\ stale' = stale

\* UPDATE ... WHERE id: whatever the status was.
UpdateStatus(c, s) ==
    /\ claim' = [claim EXCEPT ![c] = s]
    /\ stale' = stale \ {c}

Publish(c, r) == queue' = [queue EXCEPT ![c][r] = @ + 1]

-----------------------------------------------------------------------------
(* Dispatchers.                                                            *)

\* Wrong on purpose (mutant of Unclaimed): the claim key is not unique.
UnclaimedOrClaimed == {c \in Claims : claim[c] \in {"none", "queued"}}

\* ON CONFLICT (claim_key) DO NOTHING: only keys without a row are claimed.
Unclaimed == {c \in Claims : claim[c] = "none"}

\* One transaction claims what is due.
ClaimDue(d) ==
    /\ batch[d] = {}
    /\ \E due \in SUBSET Unclaimed \ {{}} :
          /\ claim' = [c \in Claims |-> IF c \in due THEN "queued" ELSE claim[c]]
          /\ batch' = [batch EXCEPT ![d] = due]
    /\ UNCHANGED <<stale, queue, worker, fate, lost, faults>>

\* Then it enqueues one task per claim.
Enqueue(d) ==
    /\ \E c \in batch[d] :
          /\ Publish(c, 0)
          /\ batch' = [batch EXCEPT ![d] = @ \ {c}]
    /\ UNCHANGED <<claim, stale, worker, fate, lost, faults>>

\* The process dies, or Redis refuses a task, between claims and tasks.
Strand(d) ==
    /\ "strand" \in Losses
    /\ batch[d] # {}
    /\ batch' = [batch EXCEPT ![d] = {}]
    /\ lost' = lost \cup batch[d]
    /\ UNCHANGED <<claim, stale, queue, worker, fate, faults>>

\* The recovery sweep reclaims every stale claim and enqueues it anew.
Sweep(d) ==
    /\ batch[d] = {}
    /\ stale # {}
    /\ claim' = [c \in Claims |-> IF c \in stale THEN "queued" ELSE claim[c]]
    /\ batch' = [batch EXCEPT ![d] = stale]
    /\ stale' = {}
    /\ lost' = lost \ stale
    /\ UNCHANGED <<queue, worker, fate, faults>>

-----------------------------------------------------------------------------
(* Workers.                                                                *)

\* Wrong on purpose (mutant of Reclaimable): only 'processing' is reclaimed.
ReclaimableProcessing == {"processing"}

\* The statuses recover_stale_processing reclaims.
Reclaimable == {"started", "processing"}

Working(c) == \E w \in Workers : worker[w].claim = c

\* The threshold (600 s) exceeds what a live task takes between two updates
\* (a call of at most 55 s), so it passes only when no worker is at the claim.
GoesStale(c) ==
    /\ claim[c] \in Reclaimable
    /\ c \notin stale
    /\ ~Working(c)
    /\ stale' = stale \cup {c}
    /\ UNCHANGED <<claim, batch, queue, worker, fate, lost, faults>>

\* Wrong on purpose (mutant of Take): the visibility timeout is shorter than the
\* task, and Redis hands the delivery out again while a worker is at it.
TakeVisible(w, c, r) ==
    /\ worker[w].pc = "idle"
    /\ queue[c][r] > 0
    /\ worker' = [worker EXCEPT ![w] = [pc |-> "start", claim |-> c,
                                        retries |-> r, held |-> TRUE]]
    /\ UNCHANGED <<claim, stale, batch, queue, fate, lost, faults>>

Take(w, c, r) ==
    /\ worker[w].pc = "idle"
    /\ queue[c][r] > 0
    /\ queue' = [queue EXCEPT ![c][r] = @ - 1]
    /\ worker' = [worker EXCEPT ![w] = [pc |-> "start", claim |-> c,
                                        retries |-> r, held |-> TRUE]]
    /\ UNCHANGED <<claim, stale, batch, fate, lost, faults>>

\* mark_started and mark_processing; a failed update raises.
MarkRunning(w, step, status, next) ==
    /\ worker[w].pc = step
    /\ \/ /\ UpdateStatus(worker[w].claim, status)
          /\ Goto(w, next)
          /\ UNCHANGED faults
       \/ /\ faults < MaxFaults
          /\ faults' = faults + 1
          /\ Goto(w, "raise")
          /\ UNCHANGED <<claim, stale>>
    /\ UNCHANGED <<batch, queue, fate, lost>>
MarkStarted(w) == MarkRunning(w, "start", "started", "process")
MarkProcessing(w) == MarkRunning(w, "process", "processing", "call")

\* Wrong on purpose (mutant of AfterFailure): an error outcome is a result.
AfterFailureSucceed == "succeed"
AfterFailure == "raise"

\* The job is done and says so, or is done and the answer is lost, or fails.
CallJob(w) ==
    /\ worker[w].pc = "call"
    /\ \/ /\ fate' = [fate EXCEPT ![worker[w].claim] = @ \cup {"done"}]
          /\ \E next \in {"succeed", "raise"} : Goto(w, next)
       \/ Goto(w, AfterFailure) /\ UNCHANGED fate
    /\ UNCHANGED <<claim, stale, batch, queue, lost, faults>>

RetriesLeft(r) == r < MaxRetries

\* autoretry_for: the retry is published before its status is recorded.
Raise(w) ==
    /\ worker[w].pc = "raise"
    /\ LET c == worker[w].claim  r == worker[w].retries IN
       \/ /\ RetriesLeft(r)
          /\ Publish(c, r + 1)
          /\ Goto(w, "retry")
          /\ UNCHANGED fate
       \/ /\ ~RetriesLeft(r)
          /\ Goto(w, "fail")
          /\ fate' = [fate EXCEPT ![c] = @ \cup {"exhausted"}]
          /\ UNCHANGED queue
    /\ UNCHANGED <<claim, stale, batch, lost, faults>>

\* on_success, on_retry, on_failure; the update may fail, the task is over.
MarkEnd(w, step, status) ==
    /\ worker[w].pc = step
    /\ \/ UpdateStatus(worker[w].claim, status) /\ UNCHANGED faults
       \/ faults < MaxFaults /\ faults' = faults + 1 /\ UNCHANGED <<claim, stale>>
    /\ Acknowledge(w)
    /\ UNCHANGED <<batch, queue, fate, lost>>
MarkSent(w) == MarkEnd(w, "succeed", "sent")
MarkRetrying(w) == MarkEnd(w, "retry", "retrying")
MarkFailed(w) == MarkEnd(w, "fail", "failed")

\* Wrong on purpose (mutant of Requeue): task_acks_late = False.
RequeueNothing(w) == queue' = [queue EXCEPT ![worker[w].claim] = @]

\* task_acks_late: Redis delivers an unacknowledged task again.
Requeue(w) ==
    IF worker[w].held THEN Publish(worker[w].claim, worker[w].retries)
    ELSE UNCHANGED queue

\* w is at a delivery of c that it has not passed on as its next retry.
Runs(w, c) == worker[w].claim = c /\ worker[w].pc # "retry"

Abandoned(w) == lost \cup {c \in Claims : Runs(w, c)}

\* The worker dies; when its visibility timeout passes the delivery returns.
Crash(w) ==
    /\ worker[w].pc # "idle"
    /\ faults < MaxFaults
    /\ faults' = faults + 1
    /\ Requeue(w)
    /\ lost' = IF worker[w].held THEN lost ELSE Abandoned(w)
    /\ Acknowledge(w)
    /\ UNCHANGED <<claim, stale, batch, fate>>

\* A pool process is killed: its worker acknowledges the delivery even so
\* (task_reject_on_worker_lost is not set).
Kill(w) ==
    /\ "kill" \in Losses
    /\ worker[w].pc # "idle"
    /\ faults < MaxFaults
    /\ faults' = faults + 1
    /\ lost' = Abandoned(w)
    /\ Acknowledge(w)
    /\ UNCHANGED <<claim, stale, batch, queue, fate>>

\* Redis loses every waiting and every unacknowledged delivery.
Flush ==
    /\ "flush" \in Losses
    /\ queue' = [c \in Claims |-> [r \in Retries |-> 0]]
    /\ worker' = [w \in Workers |-> [worker[w] EXCEPT !.held = FALSE]]
    /\ lost' = lost \cup {c \in Claims : \E r \in Retries : queue[c][r] > 0}
    /\ UNCHANGED <<claim, stale, batch, fate, faults>>

-----------------------------------------------------------------------------
Init ==
    /\ claim = [c \in Claims |-> "none"]
    /\ stale = {}
    /\ batch = [d \in Dispatchers |-> {}]
    /\ queue = [c \in Claims |-> [r \in Retries |-> 0]]
    /\ worker = [w \in Workers |-> IdleWorker]
    /\ fate = [c \in Claims |-> {}]
    /\ lost = {}
    /\ faults = 0

WorkerStep(w) ==
    \/ MarkStarted(w) \/ MarkProcessing(w) \/ CallJob(w) \/ Raise(w)
    \/ MarkSent(w) \/ MarkRetrying(w) \/ MarkFailed(w)

Next ==
    \/ \E d \in Dispatchers : ClaimDue(d) \/ Enqueue(d) \/ Strand(d) \/ Sweep(d)
    \/ \E c \in Claims : GoesStale(c)
    \/ \E w \in Workers, c \in Claims, r \in Retries : Take(w, c, r)
    \/ \E w \in Workers : WorkerStep(w) \/ Crash(w) \/ Kill(w)
    \/ Flush

Spec == Init /\ [][Next]_vars

\* Dispatchers and workers run on, Redis serves each delivery in its turn, time
\* passes and Beat starts the sweep again and again.
Fairness ==
    /\ \A d \in Dispatchers : WF_vars(Enqueue(d)) /\ SF_vars(Sweep(d))
    /\ \A c \in Claims : WF_vars(GoesStale(c))
    /\ \A c \in Claims, r \in Retries : SF_vars(\E w \in Workers : Take(w, c, r))
    /\ \A w \in Workers : WF_vars(WorkerStep(w))

FairSpec == Spec /\ Fairness
-----------------------------------------------------------------------------
(* Properties.                                                             *)

\* The variables have their types, and a claim waiting for the sweep has a
\* status the sweep reclaims (WHERE status IN ... AND updated_at <= ...).
TypeOK ==
    /\ claim \in [Claims -> Statuses]
    /\ stale \in SUBSET Claims
    /\ \A c \in stale : claim[c] \in {"started", "processing"}
    /\ batch \in [Dispatchers -> SUBSET Claims]
    /\ queue \in [Claims -> [Retries -> Nat]]
    /\ worker \in [Workers -> WorkerRecord]
    /\ fate \in [Claims -> SUBSET {"done", "exhausted"}]
    /\ lost \in SUBSET Claims
    /\ faults \in Nat

\* A claim says "sent" only of a job that was done, "failed" only of one whose
\* retries were exhausted, whichever of its deliveries wrote it.
StatusIsTrue ==
    \A c \in Claims :
        /\ claim[c] = "sent" => "done" \in fate[c]
        /\ claim[c] = "failed" => "exhausted" \in fate[c]

\* Whoever gives a claim up was at its last retry, MAX_TASK_RETRIES.
BudgetIsSpent ==
    [][\A c \in Claims : "exhausted" \in fate'[c] \ fate[c] =>
          \E w \in Workers :
              worker[w].claim = c /\ worker[w].retries = MaxRetries]_vars

\* Someone has the claim's task: a dispatcher, Redis or a worker.
Outstanding(c) ==
    \/ \E d \in Dispatchers : c \in batch[d]
    \/ \E r \in Retries : queue[c][r] > 0
    \/ \E w \in Workers : Runs(w, c)

\* Unless a delivery of it is gone, claimed work is done, given up, or in
\* someone's hands, whatever workers and status updates fail; and what the
\* sweep reclaims is in someone's hands again.
NoWorkLost ==
    \A c \in Claims \ lost : claim[c] = "none" \/ fate[c] # {} \/ Outstanding(c)

\* Every place the claim's task is in.
Deliveries(c) ==
    ({"dispatcher"} \X {d \in Dispatchers : c \in batch[d]})
    \cup ({"redis"} \X UNION {{r} \X (1..queue[c][r]) : r \in Retries})
    \cup ({"worker"} \X {w \in Workers : Runs(w, c)})

\* Until something fails, a claim is delivered to one worker at a time, however
\* dispatchers and sweeps overlap and whether or not Redis was flushed.
Single(c) == \A a, b \in Deliveries(c) : a = b
OneDelivery == faults = 0 => \A c \in Claims : Single(c)

\* The two ways to a second delivery: a sweep takes a claim it finds stale, or a
\* worker dies between publishing its retry and acknowledging its own delivery.
Reissues(c) ==
    \/ \E d \in Dispatchers : Sweep(d) /\ c \in stale
    \/ \E w \in Workers : /\ Crash(w)
                          /\ worker[w].claim = c
                          /\ worker[w].pc = "retry" /\ worker[w].held

\* No other step duplicates a claim's task, however many faults there were: not
\* a crash in the job, a killed pool process, a flush, a failed status update,
\* nor overlapping dispatchers.
OnlyReissuesDuplicate ==
    [][\A c \in Claims : Single(c) => Single(c)' \/ Reissues(c)]_vars

\* Claimed work ends, done or with its retries exhausted, unless its delivery is
\* gone: nothing enqueues it again.
ClaimedWorkEnds ==
    \A c \in Claims : claim[c] = "queued" ~> fate[c] # {} \/ c \in lost

\* The sweep finds every claim a worker started and left, even when its delivery
\* is lost: it ends, is queued anew or waits for a retry.
StartedWorkIsReclaimed ==
    \A c \in Claims : claim[c] \in {"started", "processing"} ~>
        fate[c] # {} \/ claim[c] \in {"queued", "retrying"}
=============================================================================
