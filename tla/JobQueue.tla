------------------------------ MODULE JobQueue ------------------------------
(***************************************************************************)
(* SqlAlchemyJobQueue (database/job_queue.py): the rows of app.jobs and     *)
(* app.job_attempts and every transaction that writes them.  Each action is *)
(* one committed transaction; a call that raises rolls back and is not a    *)
(* step.  Callers are arbitrary: any process may call any method with any   *)
(* worker id at any time, so what holds here holds for every worker, API    *)
(* server and crash schedule built on top.                                  *)
(***************************************************************************)
EXTENDS Integers, FiniteSets

CONSTANTS
    Jobs,          \* job rows, numbered by (created_at, id)
    Workers,       \* worker process identities
    NoWorker,      \* jobs.worker_id IS NULL
    JobTypes,
    Payloads,
    Requests,      \* the requests clients submit
    NoRequest,
    Keys,          \* idempotency keys
    NoKey,
    Reports,       \* progress percentages handlers pass to heartbeat
    NoReport,      \* a heartbeat without progress
    AttemptLimit,  \* upper bound of max_attempts accepted by the API (5)
    BatchLimit     \* worker_recovery_batch_size

ASSUME QueueAssumption ==
    /\ Jobs \subseteq Nat
    /\ NoWorker \notin Workers
    /\ AttemptLimit \in Nat \ {0}
    /\ BatchLimit \in Nat \ {0}
    /\ Requests \subseteq [type : JobTypes, payload : Payloads, priority : Int,
                           maxAttempts : 1..AttemptLimit]
    /\ NoRequest \notin Requests
    /\ NoKey \notin Keys
    /\ Reports \subseteq Int
    /\ NoReport \notin Int

VARIABLES
    job,       \* the mutable columns of app.jobs
    request,   \* job_type, payload, priority and max_attempts: never updated
    key,       \* idempotency_key: never updated
    attempts   \* app.job_attempts, indexed by job and attempt number

vars == <<job, request, key, attempts>>

Statuses == {"absent", "queued", "running", "cancel_requested", "cancelled",
             "succeeded", "failed", "stale"}

Outcomes == {"running", "cancelled", "succeeded", "failed", "stale"}

\* heartbeat_at: NULL, recent, or older than worker_stale_after_seconds.
Heartbeats == {"null", "fresh", "overdue"}

JobRow == [status : Statuses, attempt : 0..AttemptLimit,
           worker : Workers \cup {NoWorker}, heartbeat : Heartbeats,
           progress : 0..100]

NoRow == [status |-> "absent", attempt |-> 0, worker |-> NoWorker,
          heartbeat |-> "null", progress |-> 0]

AttemptRow == [status : Outcomes \cup {"none"}, worker : Workers \cup {NoWorker}]

NoAttempt == [status |-> "none", worker |-> NoWorker]

Init ==
    /\ job = [j \in Jobs |-> NoRow]
    /\ request = [j \in Jobs |-> NoRequest]
    /\ key = [j \in Jobs |-> NoKey]
    /\ attempts = [j \in Jobs |-> [n \in 1..AttemptLimit |-> NoAttempt]]

-----------------------------------------------------------------------------
\* Helpers.

AllowedTransitions ==
    [absent           |-> {},
     queued           |-> {"running", "cancel_requested"},
     running          |-> {"cancel_requested", "succeeded", "failed", "stale"},
     cancel_requested |-> {"cancelled"},
     stale            |-> {"queued", "failed"},
     failed           |-> {"queued"},
     cancelled        |-> {},
     succeeded        |-> {}]

\* Faulty variant: a failed job may still be marked cancelled.
validate_transition_FailedToCancelled(j, target) ==
    \/ target \in AllowedTransitions[job[j].status]
    \/ job[j].status = "failed" /\ target = "cancelled"

validate_transition(j, target) == target \in AllowedTransitions[job[j].status]

Exists(j) == job[j].status # "absent"

HasBudget(j) == job[j].attempt < request[j].maxAttempts

\* Faulty variant: any worker's job will do.
Owned_ByAnyone(j, w) == job[j].worker # NoWorker

\* _owned_job: the caller's worker id is the one on the row.
Owned(j, w) == job[j].worker = w

InProgress(j) == job[j].status \in {"running", "cancel_requested"}

\* A worker has been given the job and no transaction has ended its attempt yet.
Active(j) == InProgress(j) /\ job[j].worker # NoWorker

\* What claim_next, heartbeat and the end of an attempt write to a job row.
Claimed(row, w) == [status |-> "running", attempt |-> row.attempt + 1, worker |-> w,
                    heartbeat |-> "fresh", progress |-> 0]

\* Faulty variant: the last report wins.
Beaten_LastReport(row, p) == [row EXCEPT !.heartbeat = "fresh",
                                         !.progress = IF p # NoReport THEN p ELSE row.progress]

Beaten(row, p) == [row EXCEPT !.heartbeat = "fresh",
                              !.progress = IF p # NoReport /\ p > row.progress
                                           THEN p ELSE row.progress]

Ended(row, outcome) == [row EXCEPT !.status = outcome, !.heartbeat = "fresh",
                                   !.progress = IF outcome = "succeeded"
                                                THEN 100 ELSE row.progress]

\* The attempt rows of a job after its n-th row is inserted, or closed.
WithOpened(log, n, w) == [log EXCEPT ![n] = [status |-> "running", worker |-> w]]

WithClosed(log, n, outcome) ==
    [log EXCEPT ![n] = [status |-> outcome, worker |-> log[n].worker]]

\* Faulty variant: the worker's name stays on the row.
Requeued_KeepsWorker(row) == [row EXCEPT !.status = "queued", !.progress = 0,
                                         !.heartbeat = "null"]

\* The columns a row loses when it goes back to the queue.
Requeued(row) == [status |-> "queued", attempt |-> row.attempt, worker |-> NoWorker,
                  heartbeat |-> "null", progress |-> 0]

-----------------------------------------------------------------------------
\* Client calls.

\* Faulty variant: only unfinished jobs hold their key.
KeyIsFree_Unfinished(k) ==
    k # NoKey => \A i \in Jobs : key[i] = k => job[i].status \in {"cancelled", "succeeded"}

\* The partial unique index on idempotency_key.
KeyIsFree(k) == k # NoKey => \A i \in Jobs : key[i] # k

\* A new key, or none: one row is inserted.
Enqueue(j, r, k) ==
    /\ ~Exists(j)
    /\ KeyIsFree(k)
    /\ job' = [job EXCEPT ![j].status = "queued"]
    /\ request' = [request EXCEPT ![j] = r]
    /\ key' = [key EXCEPT ![j] = k]
    /\ UNCHANGED attempts

\* Faulty variant: a replayed request puts its job back into the queue.
EnqueueReplay_Requeues(j, k) ==
    /\ k # NoKey /\ key[j] = k
    /\ job' = [job EXCEPT ![j] = Requeued(@)]
    /\ UNCHANGED <<request, key, attempts>>

\* A known key: the row is returned as it is, or the call ends in 409.
EnqueueReplay(j, k) ==
    /\ k # NoKey /\ key[j] = k
    /\ UNCHANGED vars

request_cancel(j) ==
    /\ validate_transition(j, "cancel_requested")
    /\ job' = [job EXCEPT ![j].status = "cancel_requested"]
    /\ UNCHANGED <<request, key, attempts>>

\* Faulty variant: the budget is not looked at.
CanRetry_AnyAttempt(j) == job[j].status \in {"failed", "stale"}

\* Faulty variant: a cancelled job may be retried as well.
CanRetry_Cancelled(j) == job[j].status \in {"failed", "stale", "cancelled"} /\ HasBudget(j)

CanRetry(j) == job[j].status \in {"failed", "stale"} /\ HasBudget(j)

retry(j) ==
    /\ CanRetry(j)
    /\ job' = [job EXCEPT ![j] = Requeued(@)]
    /\ UNCHANGED <<request, key, attempts>>

-----------------------------------------------------------------------------
\* Worker calls.

Claimable(j, types) == job[j].status = "queued" /\ request[j].type \in types

\* ORDER BY priority DESC, created_at, id
ClaimedBefore(i, j) ==
    \/ request[i].priority > request[j].priority
    \/ request[i].priority = request[j].priority /\ i < j

\* SKIP LOCKED: rows that concurrent transactions hold are passed over.
claim_next(j, w, types, locked) ==
    /\ Claimable(j, types) /\ j \notin locked
    /\ \A i \in Jobs \ locked : Claimable(i, types) /\ i # j => ClaimedBefore(j, i)
    /\ job' = [job EXCEPT ![j] = Claimed(@, w)]
    /\ attempts' = [attempts EXCEPT ![j] = WithOpened(@, job[j].attempt + 1, w)]
    /\ UNCHANGED <<request, key>>

\* Faulty variant: a running job may report completion.
RunningProgress_Full == 0..100

RunningProgress == 0..99

heartbeat(j, w, p) ==
    /\ Owned(j, w) /\ InProgress(j)
    /\ p \in RunningProgress \cup {NoReport}
    /\ job' = [job EXCEPT ![j] = Beaten(@, p)]
    /\ UNCHANGED <<request, key, attempts>>

\* The shared tail of succeed, fail and _finish_cancelled.
EndAttempt(j, outcome) ==
    /\ validate_transition(j, outcome)
    /\ job' = [job EXCEPT ![j] = Ended(@, outcome)]
    /\ attempts' = [attempts EXCEPT ![j] = WithClosed(@, job[j].attempt, outcome)]
    /\ UNCHANGED <<request, key>>

\* Whatever the handler did, a stop that was asked for before it ended wins.
UnlessCancelled(j, outcome) ==
    IF job[j].status = "cancel_requested" THEN "cancelled" ELSE outcome

succeed(j, w) == Owned(j, w) /\ EndAttempt(j, UnlessCancelled(j, "succeeded"))

fail(j, w) == Owned(j, w) /\ EndAttempt(j, UnlessCancelled(j, "failed"))

acknowledge_cancellation(j, w) == Owned(j, w) /\ EndAttempt(j, "cancelled")

-----------------------------------------------------------------------------
\* Maintenance sweeps.  The batch is the oldest rows not locked by others, so
\* any set of at most BatchLimit candidates can be one.

Unclaimed(j) == job[j].status = "cancel_requested" /\ job[j].worker = NoWorker

acknowledge_unclaimed_cancellations(batch) ==
    /\ batch # {} /\ Cardinality(batch) <= BatchLimit
    /\ \A j \in batch : Unclaimed(j)
    /\ job' = [j \in Jobs |-> IF j \in batch THEN [job[j] EXCEPT !.status = "cancelled"]
                                             ELSE job[j]]
    /\ UNCHANGED <<request, key, attempts>>

\* Faulty variant: a job whose stop was requested is left to its worker.
Silent_Running(j) ==
    job[j].status = "running" /\ job[j].heartbeat \in {"null", "overdue"}

\* Faulty variant: any job in progress is taken for lost.
Silent_Active(j) == Active(j)

Silent(j) == Active(j) /\ job[j].heartbeat \in {"null", "overdue"}

\* Faulty variant: a silent job is always put back.
Recovered_Unbounded(j) ==
    IF job[j].status = "cancel_requested" THEN [job[j] EXCEPT !.status = "cancelled"]
    ELSE Requeued(job[j])

Recovered(j) ==
    IF job[j].status = "cancel_requested" THEN [job[j] EXCEPT !.status = "cancelled"]
    ELSE IF HasBudget(j) THEN Requeued(job[j])
    ELSE [job[j] EXCEPT !.status = "failed"]

\* Faulty variants: the attempt row is forgotten when a cancellation is
\* acknowledged for a lost worker, or told from a lost attempt only by accident.
RecoveredOutcome_LeftOpen(j) ==
    IF job[j].status = "cancel_requested" THEN "running" ELSE "stale"

RecoveredOutcome_AlwaysStale(j) == "stale"

RecoveredOutcome(j) ==
    IF job[j].status = "cancel_requested" THEN "cancelled" ELSE "stale"

recover_stale(batch) ==
    /\ batch # {} /\ Cardinality(batch) <= BatchLimit
    /\ \A j \in batch : Silent(j)
    /\ job' = [j \in Jobs |-> IF j \in batch THEN Recovered(j) ELSE job[j]]
    /\ attempts' = [j \in Jobs |->
                      IF j \in batch
                      THEN WithClosed(attempts[j], job[j].attempt, RecoveredOutcome(j))
                      ELSE attempts[j]]
    /\ UNCHANGED <<request, key>>

\* The clock: heartbeat_at falls behind stale_before.  Nothing bounds when, since a
\* worker may be paused or its event loop blocked.
HeartbeatExpires(j) ==
    /\ Active(j) /\ job[j].heartbeat = "fresh"
    /\ job' = [job EXCEPT ![j].heartbeat = "overdue"]
    /\ UNCHANGED <<request, key, attempts>>

-----------------------------------------------------------------------------
ClientCall ==
    \/ \E j \in Jobs, r \in Requests, k \in Keys \cup {NoKey} : Enqueue(j, r, k)
    \/ \E j \in Jobs, k \in Keys : EnqueueReplay(j, k)
    \/ \E j \in Jobs : request_cancel(j)
    \/ \E j \in Jobs : retry(j)

WorkerCall ==
    \/ \E j \in Jobs, w \in Workers, types \in SUBSET JobTypes, locked \in SUBSET Jobs :
          claim_next(j, w, types, locked)
    \/ \E j \in Jobs, w \in Workers, p \in Reports \cup {NoReport} : heartbeat(j, w, p)
    \/ \E j \in Jobs, w \in Workers : succeed(j, w)
    \/ \E j \in Jobs, w \in Workers : fail(j, w)
    \/ \E j \in Jobs, w \in Workers : acknowledge_cancellation(j, w)

Sweep ==
    \/ \E batch \in SUBSET Jobs : acknowledge_unclaimed_cancellations(batch)
    \/ \E batch \in SUBSET Jobs : recover_stale(batch)

Tick == \E j \in Jobs : HeartbeatExpires(j)

Next == ClientCall \/ WorkerCall \/ Sweep \/ Tick

Spec == Init /\ [][Next]_vars

-----------------------------------------------------------------------------
\* Properties.

\* Columns keep their types, and a row that exists has the request it was inserted with.
TypeOK ==
    /\ job \in [Jobs -> JobRow]
    /\ request \in [Jobs -> Requests \cup {NoRequest}]
    /\ key \in [Jobs -> Keys \cup {NoKey}]
    /\ attempts \in [Jobs -> [1..AttemptLimit -> AttemptRow]]
    /\ \A j \in Jobs : Exists(j) <=> request[j] \in Requests

\* A job never uses more attempts than it was submitted with, and a job that
\* waits can still pay for one: claim_next tests no budget itself, it relies on
\* retry and recover_stale (and the CHECK on app.jobs would make it crash).
WithinBudget ==
    \A j \in Jobs : Exists(j) =>
        /\ job[j].attempt <= request[j].maxAttempts
        /\ job[j].status = "queued" => HasBudget(j)

\* An attempt row is open exactly while its job is in a worker's hands, it is
\* the attempt the job counts as current, and it names the same worker: after
\* any mix of lost workers, sweeps and retries no attempt is left open behind.
OneOpenAttempt ==
    \A j \in Jobs : \A n \in 1..AttemptLimit :
        attempts[j][n].status = "running" <=>
            /\ Active(j) /\ n = job[j].attempt
            /\ attempts[j][n].worker = job[j].worker

\* The history explains the status (ADR-014: "retain evidence from failed or
\* stale attempts"): attempts are numbered without gaps, all but the last ended
\* as failed or stale, and the last one ended as the job did.
LedgerExplainsStatus ==
    \A j \in Jobs :
        LET last == attempts[j][job[j].attempt].status
            unlucky == job[j].attempt > 0 => last \in {"failed", "stale"}
        IN  /\ \A n \in 1..AttemptLimit :
                   /\ attempts[j][n].status = "none" <=> n > job[j].attempt
                   /\ n < job[j].attempt => attempts[j][n].status \in {"failed", "stale"}
            /\ job[j].status = "succeeded" => job[j].attempt > 0 /\ last = "succeeded"
            /\ job[j].status = "failed" => job[j].attempt > 0 /\ unlucky
            /\ job[j].status = "queued" \/ Unclaimed(j) => unlucky
            /\ job[j].status = "cancelled" =>
                   IF job[j].worker = NoWorker THEN unlucky
                   ELSE job[j].attempt > 0 /\ last = "cancelled"

\* No unfinished job can fall between the two sweeps: what is running is visible
\* to recover_stale, and a cancellation request is visible to exactly one of
\* recover_stale and acknowledge_unclaimed_cancellations.  A queued row carries
\* no worker, or its cancellation would be invisible to both.
SweepsCoverEveryJob ==
    \A j \in Jobs :
        /\ job[j].status = "queued" => job[j].worker = NoWorker
        /\ job[j].status = "running" => Active(j) /\ job[j].heartbeat # "null"
        /\ job[j].status = "cancel_requested" =>
               (job[j].heartbeat = "null" <=> job[j].worker = NoWorker)
        /\ job[j].status # "stale"

\* A key names at most one job for ever (ADR-014: a replay "never creates or
\* requeues work").
KeysIdentifyOneJob ==
    \A i, j \in Jobs : key[i] = key[j] /\ key[i] # NoKey => i = j

\* 100 percent is shown for succeeded jobs and for no other, whatever handlers
\* report and whichever attempt reported it.
CompleteMeansSucceeded ==
    \A j \in Jobs : job[j].progress = 100 <=> job[j].status = "succeeded"

\* An attempt that ended stays as it ended, and only the row of the attempt in
\* progress is ever written (ADR-014: "immutable-identity" attempt rows).
LedgerIsAppendOnly ==
    [][\A j \in Jobs : \A n \in 1..AttemptLimit :
          attempts[j][n].status \notin {"none", "running"} =>
              attempts'[j][n] = attempts[j][n]]_attempts

\* Within one attempt progress never falls, and the worker named on the row does
\* not change while the job is in somebody's hands.
AttemptsKeepTheirOwner ==
    [][\A j \in Jobs :
          Active(j) /\ Active(j)' =>
              /\ job'[j].worker = job[j].worker
              /\ job'[j].attempt = job[j].attempt
              /\ job'[j].progress >= job[j].progress]_job

\* Every single job keeps the promise of JobLifecycle.
Life(j) == INSTANCE JobLifecycle WITH
              phase  <- job[j].status,
              runs   <- job[j].attempt,
              budget <- IF request[j] \in Requests THEN request[j].maxAttempts ELSE 0

LifecyclePromise ==
    /\ \A j \in Jobs : Life(j)!Absent
    /\ [][\A j \in Jobs : [Life(j)!Next]_(Life(j)!life)]_vars
=============================================================================
