--------------------------- MODULE JobQueueProofs ---------------------------
(***************************************************************************)
(* The invariants of JobQueue for any number of jobs, workers, attempts and *)
(* keys.  No conjunct is inductive alone: the ledger needs to know that an  *)
(* active job's current attempt is open, that needs the budget to keep      *)
(* attempt numbers inside the ledger, and the budget needs the ledger's     *)
(* owner columns.  All of them concern one job at a time, so the inductive  *)
(* invariant is a predicate of one job's row, request and attempt rows, and *)
(* each transaction is a lemma about those three values.                    *)
(***************************************************************************)
EXTENDS JobQueue, TLAPS

Log == [1..AttemptLimit -> AttemptRow]

\* The job is in a worker's hands.
Held(row) == row.status \in {"running", "cancel_requested"} /\ row.worker # NoWorker

\* No attempt yet, or the last one ended badly.
Unlucky(row, log) == row.attempt > 0 => log[row.attempt].status \in {"failed", "stale"}

RowOK(row, req) ==
    /\ row \in JobRow
    /\ req \in Requests \cup {NoRequest}
    /\ row.status # "absent" <=> req \in Requests
    /\ row.status = "absent" => row = NoRow

BudgetOK(row, req) ==
    row.status # "absent" =>
        /\ row.attempt <= req.maxAttempts
        /\ row.status = "queued" => row.attempt < req.maxAttempts

SweepOK(row) ==
    /\ row.status = "queued" => row.worker = NoWorker
    /\ row.status = "running" => row.worker # NoWorker /\ row.heartbeat # "null"
    /\ row.status = "cancel_requested" => (row.heartbeat = "null" <=> row.worker = NoWorker)
    /\ row.status # "stale"
    /\ row.status = "queued" => row.heartbeat = "null"
    /\ row.status \in {"succeeded", "failed"} => row.worker # NoWorker

ProgressOK(row) == row.progress = 100 <=> row.status = "succeeded"

LogOK(row, log) ==
    /\ log \in Log
    /\ \A n \in 1..AttemptLimit :
          /\ log[n].status = "none" <=> n > row.attempt
          /\ n < row.attempt => log[n].status \in {"failed", "stale"}

LastOK(row, log) ==
    /\ row.status # "absent" /\ row.worker = NoWorker => Unlucky(row, log)
    /\ row.worker # NoWorker => row.attempt > 0
    /\ Held(row) => log[row.attempt] = [status |-> "running", worker |-> row.worker]
    /\ row.status = "succeeded" => log[row.attempt].status = "succeeded"
    /\ row.status = "failed" => Unlucky(row, log)
    /\ row.status = "cancelled" /\ row.worker # NoWorker => log[row.attempt].status = "cancelled"

JobOK(row, req, log) ==
    /\ RowOK(row, req) /\ BudgetOK(row, req) /\ SweepOK(row) /\ ProgressOK(row)
    /\ LogOK(row, log) /\ LastOK(row, log)

Shape ==
    /\ job \in [Jobs -> JobRow]
    /\ request \in [Jobs -> Requests \cup {NoRequest}]
    /\ key \in [Jobs -> Keys \cup {NoKey}]
    /\ attempts \in [Jobs -> Log]

\* The inductive invariant.
IInv == Shape /\ \A j \in Jobs : JobOK(job[j], request[j], attempts[j])

USE DEF JobRow, Statuses, Heartbeats, Outcomes, AttemptRow, Log

-----------------------------------------------------------------------------
\* One lemma for each way a transaction changes a job.

\* claim_next leaves a good row and opens the next attempt row.
LEMMA OpenedOK ==
  ASSUME QueueAssumption,
         NEW row, NEW req, NEW log, NEW w \in Workers,
         JobOK(row, req, log), row.status = "queued"
  PROVE  JobOK(Claimed(row, w), req, WithOpened(log, row.attempt + 1, w))
  <1>1. /\ row \in JobRow /\ req \in Requests /\ log \in Log
        /\ row.attempt + 1 \in 1..AttemptLimit
    BY DEF JobOK, RowOK, BudgetOK, LogOK, QueueAssumption
  <1>2. RowOK(Claimed(row, w), req)
    <2>1. Claimed(row, w) \in JobRow
      BY <1>1 DEF QueueAssumption, Claimed
    <2>2. Claimed(row, w).status # "absent"
      BY <1>1 DEF Claimed
    <2> QED
      BY <1>1, <2>1, <2>2 DEF RowOK
  <1>3. BudgetOK(Claimed(row, w), req)
    BY <1>1 DEF JobOK, BudgetOK, Claimed
  <1>4. SweepOK(Claimed(row, w)) /\ ProgressOK(Claimed(row, w))
    BY <1>1 DEF QueueAssumption, SweepOK, ProgressOK, Claimed
  <1>5. LogOK(Claimed(row, w), WithOpened(log, row.attempt + 1, w))
    BY <1>1 DEF JobOK, LogOK, LastOK, SweepOK, Unlucky, Claimed, WithOpened
  <1>6. LastOK(Claimed(row, w), WithOpened(log, row.attempt + 1, w))
    BY <1>1 DEF QueueAssumption, LastOK, Claimed, WithOpened, Held
  <1> QED
    BY <1>2, <1>3, <1>4, <1>5, <1>6 DEF JobOK

\* succeed, fail and _finish_cancelled close the attempt as the job ends.
LEMMA EndedOK ==
  ASSUME QueueAssumption,
         NEW row, NEW req, NEW log, NEW outcome \in {"cancelled", "succeeded", "failed"},
         JobOK(row, req, log), Held(row)
  PROVE  JobOK(Ended(row, outcome), req, WithClosed(log, row.attempt, outcome))
  <1>1. /\ row \in JobRow /\ req \in Requests /\ log \in Log
        /\ row.attempt \in 1..AttemptLimit
    BY DEF JobOK, RowOK, LogOK, LastOK, Held, QueueAssumption
  <1>2. RowOK(Ended(row, outcome), req)
    <2>1. Ended(row, outcome) \in JobRow
      BY <1>1, 100 \in 0..100 DEF Ended
    <2>2. Ended(row, outcome).status # "absent"
      BY <1>1 DEF Ended
    <2> QED
      BY <1>1, <2>1, <2>2 DEF RowOK
  <1>3. BudgetOK(Ended(row, outcome), req)
    BY <1>1 DEF JobOK, BudgetOK, Ended, Held
  <1>4. SweepOK(Ended(row, outcome)) /\ ProgressOK(Ended(row, outcome))
    BY <1>1 DEF JobOK, SweepOK, ProgressOK, Ended, Held
  <1>5. LogOK(Ended(row, outcome), WithClosed(log, row.attempt, outcome))
    BY <1>1 DEF JobOK, LogOK, Ended, WithClosed
  <1>6. LastOK(Ended(row, outcome), WithClosed(log, row.attempt, outcome))
    BY <1>1 DEF LastOK, Ended, WithClosed, Held, Unlucky
  <1> QED
    BY <1>2, <1>3, <1>4, <1>5, <1>6 DEF JobOK

\* A heartbeat, with or without progress, keeps the row good.
LEMMA BeatenOK ==
  ASSUME QueueAssumption,
         NEW row, NEW req, NEW log, NEW p \in RunningProgress \cup {NoReport},
         JobOK(row, req, log), Held(row)
  PROVE  JobOK(Beaten(row, p), req, log)
  <1>1. /\ row \in JobRow /\ req \in Requests
        /\ row.status \in {"running", "cancel_requested"} /\ row.progress # 100
    BY DEF JobOK, RowOK, Held, ProgressOK
  <1>2. PICK q \in 0..99 : Beaten(row, p) = [row EXCEPT !.heartbeat = "fresh", !.progress = q]
    <2>1. row.progress \in 0..99
      BY <1>1
    <2>2. p = NoReport \/ p \in 0..99
      BY DEF RunningProgress
    <2> QED
      BY <2>1, <2>2 DEF Beaten
  <1>3. RowOK(Beaten(row, p), req)
    <2>1. q \in 0..100
      OBVIOUS
    <2>2. Beaten(row, p) \in JobRow /\ Beaten(row, p).status = row.status
      BY <1>1, <1>2, <2>1
    <2> QED
      BY <1>1, <2>2 DEF RowOK
  <1>4. BudgetOK(Beaten(row, p), req) /\ SweepOK(Beaten(row, p)) /\ ProgressOK(Beaten(row, p))
    BY <1>1, <1>2 DEF JobOK, BudgetOK, SweepOK, ProgressOK, Held
  <1>5. LogOK(Beaten(row, p), log) /\ LastOK(Beaten(row, p), log)
    BY <1>1, <1>2 DEF JobOK, LogOK, LastOK, Held, Unlucky
  <1> QED
    BY <1>3, <1>4, <1>5 DEF JobOK

\* So does the passing of time.
LEMMA OverdueOK ==
  ASSUME QueueAssumption, NEW row, NEW req, NEW log, JobOK(row, req, log), Held(row)
  PROVE  JobOK([row EXCEPT !.heartbeat = "overdue"], req, log)
  BY DEF JobOK, RowOK, BudgetOK, SweepOK, ProgressOK, LogOK, LastOK, Held, Unlucky

\* request_cancel on a queued or running row.
LEMMA CancelRequestedOK ==
  ASSUME QueueAssumption, NEW row, NEW req, NEW log, JobOK(row, req, log),
         row.status \in {"queued", "running"}
  PROVE  JobOK([row EXCEPT !.status = "cancel_requested"], req, log)
  BY DEF JobOK, RowOK, BudgetOK, SweepOK, ProgressOK, LogOK, LastOK, Held, Unlucky

\* A cancelled job that nobody holds ends without an attempt row.
LEMMA UnclaimedOK ==
  ASSUME QueueAssumption, NEW row, NEW req, NEW log, JobOK(row, req, log),
         row.status = "cancel_requested", row.worker = NoWorker
  PROVE  JobOK([row EXCEPT !.status = "cancelled"], req, log)
  BY DEF JobOK, RowOK, BudgetOK, SweepOK, ProgressOK, LogOK, LastOK, Held, Unlucky

\* A freshly inserted row is good.
LEMMA SubmittedOK ==
  ASSUME QueueAssumption, NEW row, NEW old, NEW req \in Requests, NEW log,
         JobOK(row, old, log), row.status = "absent"
  PROVE  JobOK([row EXCEPT !.status = "queued"], req, log)
  <1>1. row = NoRow /\ row.attempt = 0
    BY DEF JobOK, RowOK, NoRow
  <1>2. RowOK([row EXCEPT !.status = "queued"], req)
    BY <1>1 DEF RowOK, NoRow, QueueAssumption
  <1>3. BudgetOK([row EXCEPT !.status = "queued"], req)
    BY <1>1 DEF BudgetOK, NoRow, QueueAssumption
  <1>4. /\ SweepOK([row EXCEPT !.status = "queued"])
        /\ ProgressOK([row EXCEPT !.status = "queued"])
    BY <1>1 DEF SweepOK, ProgressOK, NoRow
  <1>5. /\ LogOK([row EXCEPT !.status = "queued"], log)
        /\ LastOK([row EXCEPT !.status = "queued"], log)
    BY <1>1 DEF JobOK, LogOK, LastOK, Held, Unlucky, NoRow
  <1> QED
    BY <1>2, <1>3, <1>4, <1>5 DEF JobOK

\* A row put back into the queue is good if its last attempt ended badly and
\* its budget allows another.
LEMMA RequeuedOK ==
  ASSUME QueueAssumption, NEW row, NEW req, NEW log, JobOK(row, req, log),
         row.status # "absent", row.attempt < req.maxAttempts, Unlucky(row, log)
  PROVE  JobOK(Requeued(row), req, log)
  BY DEF JobOK, RowOK, BudgetOK, SweepOK, ProgressOK, LogOK, LastOK, Held, Unlucky, Requeued,
         QueueAssumption

\* recover_stale on a silent row, in its three cases.
LEMMA LostOK ==
  ASSUME QueueAssumption, NEW row, NEW req, NEW log, NEW outcome \in {"cancelled", "stale"},
         NEW row2, JobOK(row, req, log), Held(row),
         \/ outcome = "cancelled" /\ row2 = [row EXCEPT !.status = "cancelled"]
         \/ /\ outcome = "stale" /\ row.attempt < req.maxAttempts
            /\ row2 = Requeued(row)
         \/ outcome = "stale" /\ row2 = [row EXCEPT !.status = "failed"]
  PROVE  JobOK(row2, req, WithClosed(log, row.attempt, outcome))
  <1>1. /\ row \in JobRow /\ req \in Requests /\ log \in Log
        /\ row.attempt \in 1..AttemptLimit /\ row.progress # 100
    BY DEF JobOK, RowOK, LogOK, LastOK, Held, ProgressOK, QueueAssumption
  <1>2. /\ row2 \in JobRow /\ row2.attempt = row.attempt /\ row2.progress # 100
        /\ row2.status \in {"cancelled", "queued", "failed"}
        /\ row2.worker = IF row2.status = "queued" THEN NoWorker ELSE row.worker
        /\ row2.status = "queued" => row2.heartbeat = "null"
        /\ row2.status = "cancelled" <=> outcome = "cancelled"
        /\ row2.status = "queued" => row.attempt < req.maxAttempts
    <2>1. CASE row2 = [row EXCEPT !.status = "cancelled"] /\ outcome = "cancelled"
      BY <1>1, <2>1
    <2>2. CASE row2 = [row EXCEPT !.status = "failed"] /\ outcome = "stale"
      BY <1>1, <2>2
    <2>3. CASE row2 = Requeued(row) /\ outcome = "stale" /\ row.attempt < req.maxAttempts
      BY <1>1, <2>3, 0 \in 0..100 DEF Requeued
    <2> QED
      BY <2>1, <2>2, <2>3
  <1>3. RowOK(row2, req) /\ BudgetOK(row2, req) /\ SweepOK(row2) /\ ProgressOK(row2)
    BY <1>1, <1>2 DEF JobOK, RowOK, BudgetOK, SweepOK, ProgressOK, Held
  <1>4. LogOK(row2, WithClosed(log, row.attempt, outcome))
    BY <1>1, <1>2 DEF JobOK, LogOK, WithClosed
  <1>5. LastOK(row2, WithClosed(log, row.attempt, outcome))
    BY <1>1, <1>2 DEF LastOK, Held, Unlucky, WithClosed
  <1> QED
    BY <1>3, <1>4, <1>5 DEF JobOK

-----------------------------------------------------------------------------
\* A step that changes one job and takes its row to a good one keeps IInv.

LEMMA OneJobStep ==
  ASSUME IInv, NEW j \in Jobs, NEW row, NEW log,
         job' = [job EXCEPT ![j] = row], attempts' = [attempts EXCEPT ![j] = log],
         UNCHANGED <<request, key>>,
         JobOK(row, request[j], log)
  PROVE  IInv'
  <1>1. row \in JobRow /\ log \in Log
    BY DEF JobOK, RowOK, LogOK
  <1>2. Shape'
    BY <1>1 DEF IInv, Shape
  <1>3. ASSUME NEW i \in Jobs PROVE JobOK(job'[i], request'[i], attempts'[i])
    BY <1>3 DEF IInv, Shape
  <1> QED
    BY <1>2, <1>3 DEF IInv

\* The empty queue satisfies the invariant.
LEMMA InitInv == Init => IInv
  <1> SUFFICES ASSUME Init PROVE IInv
    OBVIOUS
  <1> USE QueueAssumption
  <1>1. NoRow \in JobRow /\ NoAttempt \in AttemptRow
    BY 0 \in 0..AttemptLimit, 0 \in 0..100 DEF NoRow, NoAttempt, QueueAssumption
  <1>2. Shape
    BY <1>1 DEF Init, Shape
  <1>3. ASSUME NEW j \in Jobs PROVE JobOK(job[j], request[j], attempts[j])
    <2>1. /\ job[j] = NoRow /\ request[j] = NoRequest
          /\ attempts[j] = [n \in 1..AttemptLimit |-> NoAttempt]
      BY DEF Init
    <2>2. RowOK(NoRow, NoRequest) /\ BudgetOK(NoRow, NoRequest) /\ SweepOK(NoRow)
          /\ ProgressOK(NoRow)
      BY <1>1 DEF RowOK, BudgetOK, SweepOK, ProgressOK, NoRow, QueueAssumption
    <2>3. /\ LogOK(NoRow, [n \in 1..AttemptLimit |-> NoAttempt])
          /\ LastOK(NoRow, [n \in 1..AttemptLimit |-> NoAttempt])
      BY <1>1 DEF LogOK, LastOK, Unlucky, Held, NoRow, NoAttempt, QueueAssumption
    <2> QED
      BY <2>1, <2>2, <2>3 DEF JobOK
  <1> QED
    BY <1>2, <1>3 DEF IInv

-----------------------------------------------------------------------------
\* Client calls.

\* enqueue preserves the invariant: the new row has no attempts.
LEMMA EnqueueInv ==
  ASSUME IInv, NEW j \in Jobs, NEW r \in Requests, NEW k \in Keys \cup {NoKey},
         Enqueue(j, r, k)
  PROVE  IInv'
  <1>1. job[j].status = "absent" /\ JobOK(job[j], request[j], attempts[j])
    BY DEF IInv, Enqueue, Exists
  <1>2. JobOK([job[j] EXCEPT !.status = "queued"], r, attempts[j])
    BY <1>1, SubmittedOK, QueueAssumption
  <1>3. /\ job' = [job EXCEPT ![j] = [job[j] EXCEPT !.status = "queued"]]
        /\ request' = [request EXCEPT ![j] = r]
        /\ attempts' = attempts /\ key' = [key EXCEPT ![j] = k]
    BY DEF Enqueue, IInv, Shape
  <1>4. Shape'
    BY <1>2, <1>3 DEF IInv, Shape, JobOK, RowOK
  <1>5. ASSUME NEW i \in Jobs PROVE JobOK(job'[i], request'[i], attempts'[i])
    BY <1>2, <1>3 DEF IInv, Shape
  <1> QED
    BY <1>4, <1>5 DEF IInv

\* request_cancel preserves the invariant.
LEMMA CancelInv ==
  ASSUME IInv, NEW j \in Jobs, request_cancel(j)
  PROVE  IInv'
  <1>1. JobOK(job[j], request[j], attempts[j]) /\ job[j].status \in {"queued", "running"}
    BY DEF IInv, request_cancel, validate_transition, AllowedTransitions, Shape
  <1>2. JobOK([job[j] EXCEPT !.status = "cancel_requested"], request[j], attempts[j])
    BY <1>1, CancelRequestedOK, QueueAssumption
  <1>3. /\ job' = [job EXCEPT ![j] = [job[j] EXCEPT !.status = "cancel_requested"]]
        /\ attempts' = [attempts EXCEPT ![j] = attempts[j]]
        /\ UNCHANGED <<request, key>>
    BY DEF request_cancel, IInv, Shape
  <1> QED
    BY <1>2, <1>3, OneJobStep

\* retry preserves the invariant.
LEMMA RetryInv ==
  ASSUME IInv, NEW j \in Jobs, retry(j)
  PROVE  IInv'
  <1>1. /\ JobOK(job[j], request[j], attempts[j])
        /\ job[j].status \in {"failed", "stale"} /\ job[j].attempt < request[j].maxAttempts
    BY DEF IInv, retry, CanRetry, HasBudget
  <1>2. Unlucky(job[j], attempts[j])
    BY <1>1 DEF JobOK, LastOK, SweepOK
  <1>3. JobOK(Requeued(job[j]), request[j], attempts[j])
    BY <1>1, <1>2, RequeuedOK, QueueAssumption
  <1>4. /\ job' = [job EXCEPT ![j] = Requeued(job[j])]
        /\ attempts' = [attempts EXCEPT ![j] = attempts[j]]
        /\ UNCHANGED <<request, key>>
    BY DEF retry, IInv, Shape
  <1> QED
    BY <1>3, <1>4, OneJobStep

-----------------------------------------------------------------------------
\* Worker calls.

\* claim_next preserves the invariant: the job it takes can pay for the attempt.
LEMMA ClaimInv ==
  ASSUME IInv, NEW j \in Jobs, NEW w \in Workers, NEW types, NEW locked,
         claim_next(j, w, types, locked)
  PROVE  IInv'
  <1>1. JobOK(job[j], request[j], attempts[j]) /\ job[j].status = "queued"
    BY DEF IInv, claim_next, Claimable
  <1>2. JobOK(Claimed(job[j], w), request[j], WithOpened(attempts[j], job[j].attempt + 1, w))
    BY <1>1, OpenedOK, QueueAssumption
  <1> QED
    BY <1>2, OneJobStep DEF claim_next

\* A job that its caller owns and that is in progress is held.
LEMMA OwnedIsHeld ==
  ASSUME NEW j \in Jobs, NEW w \in Workers, Owned(j, w), InProgress(j)
  PROVE  Held(job[j])
  BY QueueAssumption DEF QueueAssumption, Owned, InProgress, Held

\* heartbeat preserves the invariant.
LEMMA HeartbeatInv ==
  ASSUME IInv, NEW j \in Jobs, NEW w \in Workers, NEW p, heartbeat(j, w, p)
  PROVE  IInv'
  <1>1. JobOK(job[j], request[j], attempts[j]) /\ Held(job[j])
    BY OwnedIsHeld DEF IInv, heartbeat
  <1>2. JobOK(Beaten(job[j], p), request[j], attempts[j])
    BY <1>1, BeatenOK, QueueAssumption DEF heartbeat
  <1>3. /\ job' = [job EXCEPT ![j] = Beaten(job[j], p)]
        /\ attempts' = [attempts EXCEPT ![j] = attempts[j]]
        /\ UNCHANGED <<request, key>>
    BY DEF heartbeat, IInv, Shape
  <1> QED
    BY <1>2, <1>3, OneJobStep

\* Each end of an attempt preserves the invariant.
LEMMA EndAttemptInv ==
  ASSUME IInv, NEW j \in Jobs, NEW w \in Workers,
         NEW outcome \in {"cancelled", "succeeded", "failed"},
         Owned(j, w), EndAttempt(j, outcome)
  PROVE  IInv'
  <1>1. JobOK(job[j], request[j], attempts[j])
    BY DEF IInv
  <1>2. InProgress(j)
    BY <1>1 DEF EndAttempt, validate_transition, AllowedTransitions, InProgress, JobOK, RowOK,
                SweepOK
  <1>3. JobOK(Ended(job[j], outcome), request[j],
              WithClosed(attempts[j], job[j].attempt, outcome))
    BY <1>1, <1>2, OwnedIsHeld, EndedOK, QueueAssumption
  <1> QED
    BY <1>3, OneJobStep DEF EndAttempt

\* Every call of a worker preserves the invariant.
LEMMA WorkerCallInv ==
  ASSUME IInv, WorkerCall PROVE IInv'
  <1>1. CASE \E j \in Jobs, w \in Workers, types \in SUBSET JobTypes, locked \in SUBSET Jobs :
                claim_next(j, w, types, locked)
    BY <1>1, ClaimInv
  <1>2. CASE \E j \in Jobs, w \in Workers, p \in Reports \cup {NoReport} : heartbeat(j, w, p)
    BY <1>2, HeartbeatInv
  <1>3. CASE \E j \in Jobs, w \in Workers : succeed(j, w)
    BY <1>3, EndAttemptInv DEF succeed, UnlessCancelled
  <1>4. CASE \E j \in Jobs, w \in Workers : fail(j, w)
    BY <1>4, EndAttemptInv DEF fail, UnlessCancelled
  <1>5. CASE \E j \in Jobs, w \in Workers : acknowledge_cancellation(j, w)
    BY <1>5, EndAttemptInv DEF acknowledge_cancellation
  <1> QED
    BY <1>1, <1>2, <1>3, <1>4, <1>5 DEF WorkerCall

-----------------------------------------------------------------------------
\* Sweeps and the clock.

\* acknowledge_unclaimed_cancellations preserves the invariant for every batch.
LEMMA UnclaimedInv ==
  ASSUME IInv, NEW batch \in SUBSET Jobs, acknowledge_unclaimed_cancellations(batch)
  PROVE  IInv'
  <1> DEFINE acked(i) == [job[i] EXCEPT !.status = "cancelled"]
  <1>1. ASSUME NEW i \in batch PROVE JobOK(acked(i), request[i], attempts[i])
    BY UnclaimedOK, QueueAssumption DEF IInv, acknowledge_unclaimed_cancellations, Unclaimed
  <1>2. ASSUME NEW i \in Jobs PROVE JobOK(job'[i], request'[i], attempts'[i])
    BY <1>1 DEF IInv, acknowledge_unclaimed_cancellations
  <1>3. Shape'
    BY <1>2 DEF IInv, Shape, acknowledge_unclaimed_cancellations, JobOK, RowOK
  <1> QED
    BY <1>2, <1>3 DEF IInv

\* recover_stale preserves the invariant for every batch.
LEMMA RecoverInv ==
  ASSUME IInv, NEW batch \in SUBSET Jobs, recover_stale(batch)
  PROVE  IInv'
  <1>1. ASSUME NEW i \in batch
        PROVE  JobOK(Recovered(i), request[i],
                     WithClosed(attempts[i], job[i].attempt, RecoveredOutcome(i)))
    <2>1. JobOK(job[i], request[i], attempts[i]) /\ Held(job[i])
      BY DEF IInv, recover_stale, Silent, Active, InProgress, Held
    <2> QED
      BY <2>1, LostOK, QueueAssumption DEF Recovered, RecoveredOutcome, HasBudget
  <1>2. ASSUME NEW i \in Jobs PROVE JobOK(job'[i], request'[i], attempts'[i])
    BY <1>1 DEF IInv, recover_stale
  <1>3. Shape'
    BY <1>2 DEF IInv, Shape, recover_stale, JobOK, RowOK, LogOK
  <1> QED
    BY <1>2, <1>3 DEF IInv

\* The expiry of a heartbeat preserves the invariant.
LEMMA TickInv ==
  ASSUME IInv, NEW j \in Jobs, HeartbeatExpires(j)
  PROVE  IInv'
  <1>1. JobOK([job[j] EXCEPT !.heartbeat = "overdue"], request[j], attempts[j])
    BY OverdueOK, QueueAssumption DEF IInv, HeartbeatExpires, Active, InProgress, Held
  <1>2. /\ job' = [job EXCEPT ![j] = [job[j] EXCEPT !.heartbeat = "overdue"]]
        /\ attempts' = [attempts EXCEPT ![j] = attempts[j]]
        /\ UNCHANGED <<request, key>>
    BY DEF HeartbeatExpires, IInv, Shape
  <1> QED
    BY <1>1, <1>2, OneJobStep

\* IInv is inductive.
LEMMA NextInv == IInv /\ [Next]_vars => IInv'
  <1> SUFFICES ASSUME IInv, [Next]_vars PROVE IInv'
    OBVIOUS
  <1>1. CASE ClientCall
    BY <1>1, EnqueueInv, CancelInv, RetryInv DEF ClientCall, EnqueueReplay, vars, IInv, Shape
  <1>2. CASE WorkerCall
    BY <1>2, WorkerCallInv
  <1>3. CASE Sweep
    BY <1>3, UnclaimedInv, RecoverInv DEF Sweep
  <1>4. CASE Tick
    BY <1>4, TickInv DEF Tick
  <1>5. CASE UNCHANGED vars
    BY <1>5 DEF vars, IInv, Shape
  <1> QED
    BY <1>1, <1>2, <1>3, <1>4, <1>5 DEF Next

\* The rows of every job stay good in every reachable state, whatever the callers do.
THEOREM QueueInvariant == Spec => []IInv
  BY InitInv, NextInv, PTL DEF Spec

-----------------------------------------------------------------------------
\* The invariants of JobQueue follow from IInv.

\* Every reachable row, request, key and attempt row has its type.
THEOREM TypesHold == Spec => []TypeOK
  <1>1. IInv => TypeOK
    BY QueueAssumption DEF QueueAssumption, IInv, Shape, TypeOK, JobOK, RowOK, Exists
  <1> QED
    BY <1>1, QueueInvariant, PTL

\* No job is ever started more often than its request allows, and none waits
\* that could not be started.
THEOREM BudgetHolds == Spec => []WithinBudget
  <1>1. IInv => WithinBudget
    BY DEF IInv, WithinBudget, JobOK, BudgetOK, Exists, HasBudget
  <1> QED
    BY <1>1, QueueInvariant, PTL

\* The ledger has an open row exactly for the job in a worker's hands.
THEOREM OneAttemptIsOpen == Spec => []OneOpenAttempt
  <1>1. IInv => OneOpenAttempt
    <2> SUFFICES ASSUME IInv, NEW j \in Jobs, NEW n \in 1..AttemptLimit
                 PROVE  attempts[j][n].status = "running" <=>
                           /\ Active(j) /\ n = job[j].attempt
                           /\ attempts[j][n].worker = job[j].worker
      BY DEF OneOpenAttempt
    <2>1. /\ JobOK(job[j], request[j], attempts[j]) /\ job[j] \in JobRow
          /\ Active(j) <=> Held(job[j])
      BY DEF IInv, Shape, Active, InProgress, Held
    <2>2. CASE Held(job[j])
      BY <2>1, <2>2 DEF JobOK, LogOK, LastOK
    <2>3. CASE ~Held(job[j])
      <3>1. CASE n # job[j].attempt
        BY <2>1, <2>3, <3>1 DEF JobOK, LogOK
      <3>2. CASE n = job[j].attempt
        BY <2>1, <2>3, <3>2, QueueAssumption
           DEF JobOK, LogOK, LastOK, Unlucky, RowOK, SweepOK, Held, NoRow, QueueAssumption
      <3> QED
        BY <3>1, <3>2
    <2> QED
      BY <2>2, <2>3
  <1> QED
    BY <1>1, QueueInvariant, PTL

\* The attempt rows account for the status of their job.
THEOREM LedgerHolds == Spec => []LedgerExplainsStatus
  <1>1. IInv => LedgerExplainsStatus
    <2> SUFFICES ASSUME IInv, NEW j \in Jobs
                 PROVE  LET last == attempts[j][job[j].attempt].status
                            unlucky == job[j].attempt > 0 => last \in {"failed", "stale"}
                        IN  /\ \A n \in 1..AttemptLimit :
                               /\ attempts[j][n].status = "none" <=> n > job[j].attempt
                               /\ n < job[j].attempt =>
                                     attempts[j][n].status \in {"failed", "stale"}
                            /\ job[j].status = "succeeded" =>
                                  job[j].attempt > 0 /\ last = "succeeded"
                            /\ job[j].status = "failed" => job[j].attempt > 0 /\ unlucky
                            /\ job[j].status = "queued" \/ Unclaimed(j) => unlucky
                            /\ job[j].status = "cancelled" =>
                                  IF job[j].worker = NoWorker THEN unlucky
                                  ELSE job[j].attempt > 0 /\ last = "cancelled"
      BY DEF LedgerExplainsStatus
    <2>1. JobOK(job[j], request[j], attempts[j])
      BY DEF IInv
    <2> QED
      BY <2>1 DEF JobOK, LogOK, LastOK, SweepOK, Unlucky, Unclaimed
  <1> QED
    BY <1>1, QueueInvariant, PTL

\* Every unfinished job is within reach of a sweep.
THEOREM SweepsReach == Spec => []SweepsCoverEveryJob
  <1>1. IInv => SweepsCoverEveryJob
    BY DEF IInv, SweepsCoverEveryJob, JobOK, SweepOK, Active, InProgress
  <1> QED
    BY <1>1, QueueInvariant, PTL

\* 100 percent and success are the same thing.
THEOREM CompletionIsSuccess == Spec => []CompleteMeansSucceeded
  <1>1. IInv => CompleteMeansSucceeded
    BY DEF IInv, CompleteMeansSucceeded, JobOK, ProgressOK
  <1> QED
    BY <1>1, QueueInvariant, PTL

-----------------------------------------------------------------------------
\* What one step may do to one job.

Same(j) == job'[j] = job[j] /\ attempts'[j] = attempts[j] /\ request'[j] = request[j]

\* Only the row changes, not the ledger.
RowStep(j) ==
    /\ attempts'[j] = attempts[j]
    /\ \/ /\ job[j].status = "absent" /\ request'[j] \in Requests
          /\ job'[j] = [job[j] EXCEPT !.status = "queued"]
       \/ /\ request'[j] = request[j]
          /\ \/ /\ job[j].status \in {"queued", "running"}
                /\ job'[j] = [job[j] EXCEPT !.status = "cancel_requested"]
             \/ /\ job[j].status = "failed" /\ HasBudget(j) /\ job'[j] = Requeued(job[j])
             \/ /\ Held(job[j])
                /\ \E p \in RunningProgress \cup {NoReport} : job'[j] = Beaten(job[j], p)
             \/ Unclaimed(j) /\ job'[j] = [job[j] EXCEPT !.status = "cancelled"]
             \/ Held(job[j]) /\ job'[j] = [job[j] EXCEPT !.heartbeat = "overdue"]

ClaimStep(j) ==
    /\ job[j].status = "queued" /\ request'[j] = request[j]
    /\ \E w \in Workers : /\ job'[j] = Claimed(job[j], w)
                          /\ attempts'[j] = WithOpened(attempts[j], job[j].attempt + 1, w)

\* An attempt ends, by its worker or by the sweep.
EndStep(j) ==
    /\ Held(job[j]) /\ request'[j] = request[j]
    /\ \E outcome \in {"cancelled", "succeeded", "failed", "stale"} :
          /\ attempts'[j] = WithClosed(attempts[j], job[j].attempt, outcome)
          /\ \/ outcome \in AllowedTransitions[job[j].status] \ {"stale"}
                /\ job'[j] = Ended(job[j], outcome)
             \/ /\ outcome = "cancelled" /\ job[j].status = "cancel_requested"
                /\ job'[j] = [job[j] EXCEPT !.status = "cancelled"]
             \/ /\ outcome = "stale" /\ job[j].status = "running"
                /\ \/ HasBudget(j) /\ job'[j] = Requeued(job[j])
                   \/ job'[j] = [job[j] EXCEPT !.status = "failed"]

JobStep(j) == Same(j) \/ RowStep(j) \/ ClaimStep(j) \/ EndStep(j)

\* Seen from one job, every step of the queue is one of the few changes above.
LEMMA EveryStepIsAJobStep ==
  ASSUME IInv, [Next]_vars, NEW i \in Jobs
  PROVE  JobStep(i)
  <1> USE DEF IInv, Shape
  <1>1. CASE ClientCall
    <2>1. ASSUME NEW j \in Jobs, NEW r \in Requests, NEW k, Enqueue(j, r, k) PROVE JobStep(i)
      BY <2>1 DEF Enqueue, Exists, JobStep, Same, RowStep
    <2>2. ASSUME NEW j \in Jobs, request_cancel(j) PROVE JobStep(i)
      BY <2>2 DEF request_cancel, validate_transition, AllowedTransitions, JobStep, Same, RowStep
    <2>3. ASSUME NEW j \in Jobs, retry(j) PROVE JobStep(i)
      <3>1. job[j].status # "stale"
        BY DEF JobOK, SweepOK
      <3> QED
        BY <2>3, <3>1 DEF retry, CanRetry, JobStep, Same, RowStep
    <2> QED
      BY <1>1, <2>1, <2>2, <2>3 DEF ClientCall, EnqueueReplay, vars, JobStep, Same
  <1>2. CASE WorkerCall
    <2>1. ASSUME NEW j \in Jobs, NEW w \in Workers, NEW types, NEW locked,
                 claim_next(j, w, types, locked)
          PROVE  JobStep(i)
      BY <2>1 DEF claim_next, Claimable, JobStep, Same, ClaimStep
    <2>2. ASSUME NEW j \in Jobs, NEW w \in Workers, NEW p, heartbeat(j, w, p) PROVE JobStep(i)
      BY <2>2, OwnedIsHeld DEF heartbeat, JobStep, Same, RowStep
    <2>3. ASSUME NEW j \in Jobs, NEW w \in Workers, Owned(j, w),
                 NEW outcome \in {"cancelled", "succeeded", "failed"}, EndAttempt(j, outcome)
          PROVE  JobStep(i)
      <3>1. outcome \in AllowedTransitions[job[j].status] \ {"stale"}
        BY <2>3 DEF EndAttempt, validate_transition
      <3>2. Held(job[j])
        BY <2>3, <3>1, OwnedIsHeld DEF AllowedTransitions, InProgress, JobOK, SweepOK
      <3> QED
        BY <2>3, <3>1, <3>2 DEF EndAttempt, JobStep, Same, EndStep
    <2> QED
      BY <1>2, <2>1, <2>2, <2>3
         DEF WorkerCall, succeed, fail, acknowledge_cancellation, UnlessCancelled
  <1>3. CASE Sweep
    <2>1. ASSUME NEW batch \in SUBSET Jobs, acknowledge_unclaimed_cancellations(batch)
          PROVE  JobStep(i)
      BY <2>1 DEF acknowledge_unclaimed_cancellations, JobStep, Same, RowStep
    <2>2. ASSUME NEW batch \in SUBSET Jobs, recover_stale(batch) PROVE JobStep(i)
      <3>1. CASE i \notin batch
        BY <2>2, <3>1 DEF recover_stale, JobStep, Same
      <3>2. CASE i \in batch
        <4>1. Held(job[i]) /\ job[i].status \in {"running", "cancel_requested"}
          BY <2>2, <3>2 DEF recover_stale, Silent, Active, InProgress, Held
        <4>2. /\ job'[i] = Recovered(i) /\ request'[i] = request[i]
              /\ attempts'[i] = WithClosed(attempts[i], job[i].attempt, RecoveredOutcome(i))
          BY <2>2, <3>2 DEF recover_stale
        <4> QED
          BY <4>1, <4>2 DEF Recovered, RecoveredOutcome, JobStep, EndStep
      <3> QED
        BY <3>1, <3>2
    <2> QED
      BY <1>3, <2>1, <2>2 DEF Sweep
  <1>4. CASE Tick
    BY <1>4 DEF Tick, HeartbeatExpires, Active, InProgress, Held, JobStep, Same, RowStep
  <1>5. CASE UNCHANGED vars
    BY <1>5 DEF vars, JobStep, Same
  <1> QED
    BY <1>1, <1>2, <1>3, <1>4, <1>5 DEF Next

-----------------------------------------------------------------------------
\* Keys: an absent row holds none, and no two rows hold the same.

KeyInv == KeysIdentifyOneJob /\ \A j \in Jobs : key[j] # NoKey => Exists(j)

\* Jobs are never deleted.
LEMMA RowsStay ==
  ASSUME IInv, [Next]_vars, NEW i \in Jobs, Exists(i)
  PROVE  Exists(i)'
  <1>1. job[i] \in JobRow /\ job[i].status # "absent" /\ JobStep(i)
    BY EveryStepIsAJobStep DEF IInv, Shape, Exists
  <1> SUFFICES job'[i].status # "absent"
    BY DEF Exists
  <1>2. /\ \A p : Beaten(job[i], p).status = job[i].status
        /\ \A o : Ended(job[i], o).status = o
        /\ \A o : [job[i] EXCEPT !.status = o].status = o
        /\ [job[i] EXCEPT !.heartbeat = "overdue"].status = job[i].status
        /\ Requeued(job[i]).status = "queued"
        /\ \A w : Claimed(job[i], w).status = "running"
    BY <1>1 DEF Beaten, Ended, Requeued, Claimed
  <1>3. CASE Same(i)
    BY <1>1, <1>3 DEF Same
  <1>4. CASE RowStep(i)
    BY <1>1, <1>2, <1>4 DEF RowStep
  <1>5. CASE ClaimStep(i)
    BY <1>2, <1>5 DEF ClaimStep
  <1>6. CASE EndStep(i)
    BY <1>2, <1>6 DEF EndStep
  <1> QED
    BY <1>1, <1>3, <1>4, <1>5, <1>6 DEF JobStep

\* A key names at most one job, also after the job ended.
THEOREM KeysAreUnique == Spec => []KeysIdentifyOneJob
  <1>1. Init => KeyInv
    BY DEF Init, KeyInv, KeysIdentifyOneJob
  <1>2. IInv /\ KeyInv /\ [Next]_vars => KeyInv'
    <2> SUFFICES ASSUME IInv, KeyInv, [Next]_vars PROVE KeyInv'
      OBVIOUS
    <2>1. \A i \in Jobs : Exists(i) => Exists(i)'
      BY RowsStay
    <2>2. ASSUME NEW j \in Jobs, NEW r \in Requests, NEW k \in Keys \cup {NoKey},
                 Enqueue(j, r, k)
          PROVE  KeyInv'
      <3>1. /\ key' = [key EXCEPT ![j] = k] /\ key \in [Jobs -> Keys \cup {NoKey}]
            /\ k # NoKey => \A i \in Jobs : key[i] # k
        BY <2>2 DEF Enqueue, KeyIsFree, IInv, Shape
      <3>2. Exists(j)'
        BY <2>2 DEF Enqueue, Exists, IInv, Shape
      <3>3. ASSUME NEW i \in Jobs, NEW m \in Jobs, key'[i] = key'[m], key'[i] # NoKey
            PROVE  i = m
        <4>1. CASE i # j /\ m # j
          BY <3>1, <3>3, <4>1 DEF KeyInv, KeysIdentifyOneJob
        <4>2. CASE i = j /\ m # j
          BY <3>1, <3>3, <4>2
        <4>3. CASE i # j /\ m = j
          BY <3>1, <3>3, <4>3
        <4> QED
          BY <4>1, <4>2, <4>3
      <3>4. ASSUME NEW i \in Jobs, key'[i] # NoKey PROVE Exists(i)'
        BY <2>1, <3>1, <3>2, <3>4 DEF KeyInv
      <3> QED
        BY <3>3, <3>4 DEF KeyInv, KeysIdentifyOneJob
    <2>3. CASE UNCHANGED key
      BY <2>1, <2>3 DEF KeyInv, KeysIdentifyOneJob
    <2> QED
      BY <2>2, <2>3
         DEF Next, ClientCall, WorkerCall, Sweep, Tick, EnqueueReplay, vars, request_cancel, retry,
             claim_next, heartbeat, succeed, fail, acknowledge_cancellation, EndAttempt,
             acknowledge_unclaimed_cancellations, recover_stale, HeartbeatExpires
  <1>3. KeyInv => KeysIdentifyOneJob
    BY DEF KeyInv
  <1> QED
    BY <1>1, <1>2, <1>3, QueueInvariant, PTL DEF Spec

-----------------------------------------------------------------------------
\* Action properties and the refinement.

\* A closed attempt row is never written again.
THEOREM LedgerOnlyGrows == Spec => LedgerIsAppendOnly
  <1>1. ASSUME IInv, [Next]_vars
        PROVE  \A j \in Jobs : \A n \in 1..AttemptLimit :
                  attempts[j][n].status \notin {"none", "running"} =>
                      attempts'[j][n] = attempts[j][n]
    <2> SUFFICES ASSUME NEW j \in Jobs, NEW n \in 1..AttemptLimit,
                        attempts[j][n].status \notin {"none", "running"}
                 PROVE  attempts'[j][n] = attempts[j][n]
      OBVIOUS
    <2>1. JobOK(job[j], request[j], attempts[j])
      BY <1>1 DEF IInv
    <2>2. JobStep(j)
      BY <1>1, EveryStepIsAJobStep
    <2>3. CASE ClaimStep(j)
      <3>1. n # job[j].attempt + 1
        BY <2>1 DEF JobOK, LogOK, RowOK
      <3> QED
        BY <2>1, <2>3, <3>1 DEF ClaimStep, WithOpened, JobOK, LogOK
    <2>4. CASE EndStep(j)
      <3>1. n # job[j].attempt
        BY <2>1, <2>4 DEF EndStep, JobOK, LastOK
      <3> QED
        BY <2>1, <2>4, <3>1 DEF EndStep, WithClosed, JobOK, LogOK
    <2> QED
      BY <2>2, <2>3, <2>4 DEF JobStep, Same, RowStep
  <1> QED
    BY <1>1, QueueInvariant, PTL DEF Spec, LedgerIsAppendOnly

\* No worker takes over an attempt in progress, and its progress never falls.
THEOREM OwnersStay == Spec => AttemptsKeepTheirOwner
  <1>1. ASSUME IInv, [Next]_vars
        PROVE  \A j \in Jobs : Active(j) /\ Active(j)' =>
                  /\ job'[j].worker = job[j].worker
                  /\ job'[j].attempt = job[j].attempt
                  /\ job'[j].progress >= job[j].progress
    <2> SUFFICES ASSUME NEW j \in Jobs, Active(j), Active(j)'
                 PROVE  /\ job'[j].worker = job[j].worker
                        /\ job'[j].attempt = job[j].attempt
                        /\ job'[j].progress >= job[j].progress
      OBVIOUS
    <2>1. job[j] \in JobRow /\ job[j].progress \in 0..100
      BY <1>1 DEF IInv, Shape
    <2>2. /\ job[j].status \in {"running", "cancel_requested"}
          /\ job'[j].status \in {"running", "cancel_requested"}
      BY DEF Active, InProgress
    <2>3. CASE Same(j)
      BY <2>1, <2>3 DEF Same
    <2>4. CASE RowStep(j)
      <3>1. ASSUME NEW p \in RunningProgress \cup {NoReport}
            PROVE  LET new == Beaten(job[j], p)
                   IN  /\ new.worker = job[j].worker /\ new.attempt = job[j].attempt
                       /\ new.progress >= job[j].progress
        <4>1. p = NoReport \/ p \in 0..99
          BY DEF RunningProgress
        <4> QED
          BY <2>1, <4>1 DEF Beaten
      <3>2. job'[j] # Requeued(job[j])
        BY <2>2 DEF Requeued
      <3> QED
        BY <2>1, <2>2, <2>4, <3>1, <3>2 DEF RowStep
    <2>5. ~ClaimStep(j)
      BY <2>2 DEF ClaimStep
    <2>6. ~EndStep(j)
      <3>1. \A o \in {"cancelled", "succeeded", "failed", "stale"} :
               Ended(job[j], o).status = o
        BY <2>1 DEF Ended
      <3>2. Requeued(job[j]).status = "queued"
        BY DEF Requeued
      <3> QED
        BY <2>1, <2>2, <3>1, <3>2 DEF EndStep
    <2> QED
      BY <1>1, <2>3, <2>4, <2>5, <2>6, EveryStepIsAJobStep DEF JobStep
  <1> QED
    BY <1>1, QueueInvariant, PTL DEF Spec, AttemptsKeepTheirOwner

\* Each job, seen alone, behaves as JobLifecycle promises.
THEOREM QueueKeepsThePromise == Spec => LifecyclePromise
  <1>1. Init => \A j \in Jobs : Life(j)!Absent
    BY DEF Init, NoRow, Life!Absent
  <1>2. ASSUME IInv, IInv', [Next]_vars
        PROVE  \A j \in Jobs : [Life(j)!Next]_(Life(j)!life)
    <2> SUFFICES ASSUME NEW j \in Jobs PROVE [Life(j)!Next]_(Life(j)!life)
      OBVIOUS
    <2>1. JobOK(job[j], request[j], attempts[j]) /\ job[j] \in JobRow
      BY <1>2 DEF IInv, Shape
    <2>2. JobStep(j)
      BY <1>2, EveryStepIsAJobStep
    <2>3. CASE Same(j)
      BY <2>3 DEF Same, Life!life
    <2>4. CASE RowStep(j)
      <3> DEFINE row == job[j]
      <3>1. CASE row.status = "absent" /\ request'[j] \in Requests
                 /\ job'[j] = [row EXCEPT !.status = "queued"]
        BY <2>1, <3>1, QueueAssumption DEF QueueAssumption, Life!Next, Life!Submit
      <3>2. ASSUME NEW from, NEW to, request'[j] = request[j], row.status = from,
                   job'[j] = [row EXCEPT !.status = to],
                   \/ from \in {"queued", "running"} /\ to = "cancel_requested"
                   \/ from = "cancel_requested" /\ to = "cancelled"
            PROVE  Life(j)!Next
        BY <2>1, <3>2 DEF Life!Next, Life!AskToStop, Life!Stop, Life!Become
      <3>3. CASE request'[j] = request[j] /\ row.status = "failed" /\ HasBudget(j)
                 /\ job'[j] = Requeued(row)
        BY <2>1, <3>3 DEF HasBudget, Requeued, JobOK, RowOK, Life!Next, Life!Requeue, Life!Become
      <3>4. ASSUME NEW p, request'[j] = request[j], job'[j] = Beaten(row, p)
            PROVE  UNCHANGED Life(j)!life
        BY <2>1, <3>4 DEF Beaten, Life!life
      <3>5. ASSUME request'[j] = request[j], job'[j] = [row EXCEPT !.heartbeat = "overdue"]
            PROVE  UNCHANGED Life(j)!life
        BY <2>1, <3>5 DEF Life!life
      <3> QED
        BY <2>4, <3>1, <3>2, <3>3, <3>4, <3>5 DEF RowStep, Unclaimed
    <2>5. CASE ClaimStep(j)
      BY <2>1, <2>5 DEF ClaimStep, Claimed, JobOK, RowOK, BudgetOK,
                        Life!Next, Life!Start, Life!Become
    <2>6. CASE EndStep(j)
      <3>1. request'[j] = request[j] /\ Held(job[j]) /\ request[j] \in Requests
        BY <2>1, <2>6 DEF EndStep, Held, JobOK, RowOK
      <3>2. ASSUME NEW outcome \in AllowedTransitions[job[j].status] \ {"stale"},
                   outcome \in {"cancelled", "succeeded", "failed"},
                   job'[j] = Ended(job[j], outcome)
            PROVE  Life(j)!Next
        <4>1. job'[j].status = outcome /\ job'[j].attempt = job[j].attempt
          BY <2>1, <3>2 DEF Ended
        <4>2. \/ job[j].status = "running" /\ outcome \in {"succeeded", "failed"}
              \/ job[j].status = "cancel_requested" /\ outcome = "cancelled"
          BY <3>1, <3>2 DEF Held, AllowedTransitions
        <4> QED
          BY <3>1, <4>1, <4>2
             DEF Life!Next, Life!Finish, Life!Fail, Life!Stop, Life!Become
      <3>3. CASE job[j].status = "cancel_requested"
                 /\ job'[j] = [job[j] EXCEPT !.status = "cancelled"]
        BY <2>1, <3>1, <3>3 DEF Life!Next, Life!Stop, Life!Become
      <3>4. CASE job[j].status = "running" /\ HasBudget(j) /\ job'[j] = Requeued(job[j])
        BY <2>1, <3>1, <3>4 DEF Requeued, HasBudget, Life!Next, Life!Requeue, Life!Become
      <3>5. CASE job[j].status = "running" /\ job'[j] = [job[j] EXCEPT !.status = "failed"]
        BY <2>1, <3>1, <3>5 DEF Life!Next, Life!Fail, Life!Become
      <3> QED
        BY <2>6, <3>2, <3>3, <3>4, <3>5 DEF EndStep
    <2> QED
      BY <2>2, <2>3, <2>4, <2>5, <2>6 DEF JobStep
  <1> QED
    BY <1>1, <1>2, QueueInvariant, PTL DEF Spec, LifecyclePromise
=============================================================================
