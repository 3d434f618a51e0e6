-------------------------- MODULE JobWorkerProofs --------------------------
(***************************************************************************)
(* Workers over the queue, for any number of jobs, workers, attempts,       *)
(* crashes and faults.  Every step of a process is a step of the queue, so  *)
(* the queue's theorems hold of the system.  The rest rests on what a       *)
(* process that executes an attempt knows of the ledger: the attempt's row  *)
(* names it and no later row does, because it cannot claim before it is     *)
(* back at polling.  That is what makes worker ids as good as attempt       *)
(* numbers for the queue's ownership check.                                 *)
(***************************************************************************)
EXTENDS JobWorker, JobQueueProofs

Stopping == {"cancel_requested", "cancelled"}

\* Worker w began attempt a of the job with this row and ledger, and none after it.
Began(row, log, a, w) ==
    /\ a \in 1..row.attempt
    /\ log[a].worker = w
    /\ \A n \in 1..row.attempt : n > a => log[n].worker # w

ProcOK(p, row, log, w) ==
    IF p.pc \in Executing
    THEN /\ p.job \in Jobs
         /\ Began(row, log, p.attempt, w)
         /\ p.pc = "join" => log[p.attempt].status # "running"
         /\ p.seen /\ row.worker = w /\ row.attempt = p.attempt => row.status \in Stopping
    ELSE p = At(p.pc)

Counters == crashes \in 0..MaxCrashes /\ faults \in 0..MaxFaults

\* The inductive invariant.
WInv ==
    /\ IInv
    /\ proc \in [Workers -> Process]
    /\ Counters
    /\ \A w \in Workers : ProcOK(proc[w], job[proc[w].job], attempts[proc[w].job], w)

\* What a step of others leaves to a worker of what it knows about a job.
Kept(row, log, row2, log2, w) ==
    /\ row2.attempt \in 0..AttemptLimit /\ row2.attempt >= row.attempt
    /\ \A n \in 1..row.attempt :
          /\ log2[n].worker = log[n].worker
          /\ log[n].status # "running" => log2[n].status # "running"
    /\ \A n \in 1..row2.attempt : n > row.attempt => log2[n].worker # w
    /\ row2.attempt = row.attempt /\ row2.worker = w =>
          row.worker = w /\ (row.status \in Stopping => row2.status \in Stopping)

\* The only step that changes an attempt number is the claim of the worker it names.
OnlyClaimedBy(w) == \A i \in Jobs : job'[i].attempt # job[i].attempt => job'[i].worker = w

NoClaim == \A i \in Jobs : job'[i].attempt = job[i].attempt

USE DEF JobRow, Statuses, Heartbeats, Outcomes, AttemptRow, Log

-----------------------------------------------------------------------------
\* The queue, seen from a worker that does not claim.

\* Every queue transaction but claim_next leaves attempt numbers alone.
LEMMA AttemptNumbersStay ==
  ASSUME IInv, NEW j \in Jobs, NEW w, NEW p, NEW outcome, NEW batch \in SUBSET Jobs,
         \/ ClientCall \/ heartbeat(j, w, p) \/ EndAttempt(j, outcome)
         \/ acknowledge_unclaimed_cancellations(batch) \/ recover_stale(batch)
         \/ HeartbeatExpires(j) \/ UNCHANGED vars
  PROVE  NoClaim
  <1> USE DEF IInv, Shape, NoClaim
  <1>1. CASE ClientCall
    <2>1. CASE \E i \in Jobs, r \in Requests, k \in Keys \cup {NoKey} : Enqueue(i, r, k)
      BY <2>1 DEF Enqueue
    <2>2. CASE \E i \in Jobs, k \in Keys : EnqueueReplay(i, k)
      BY <2>2 DEF EnqueueReplay, vars
    <2>3. CASE \E i \in Jobs : request_cancel(i)
      BY <2>3 DEF request_cancel
    <2>4. CASE \E i \in Jobs : retry(i)
      BY <2>4 DEF retry, Requeued
    <2> QED
      BY <1>1, <2>1, <2>2, <2>3, <2>4 DEF ClientCall
  <1>2. CASE heartbeat(j, w, p)
    BY <1>2 DEF heartbeat, Beaten
  <1>3. CASE EndAttempt(j, outcome)
    BY <1>3 DEF EndAttempt, Ended
  <1>4. CASE acknowledge_unclaimed_cancellations(batch)
    BY <1>4 DEF acknowledge_unclaimed_cancellations
  <1>5. CASE recover_stale(batch)
    BY <1>5 DEF recover_stale, Recovered, Requeued
  <1>6. CASE HeartbeatExpires(j)
    BY <1>6 DEF HeartbeatExpires
  <1>7. CASE UNCHANGED vars
    BY <1>7 DEF vars
  <1> QED
    BY <1>1, <1>2, <1>3, <1>4, <1>5, <1>6, <1>7

\* A step of the queue that is not a claim by w keeps what w knows.
LEMMA StepKeeps ==
  ASSUME IInv, IInv', [Next]_vars, NEW i \in Jobs, NEW w \in Workers,
         job'[i].attempt # job[i].attempt => job'[i].worker # w
  PROVE  Kept(job[i], attempts[i], job'[i], attempts'[i], w)
  <1>1. /\ job[i] \in JobRow /\ attempts[i] \in Log /\ JobOK(job[i], request[i], attempts[i])
        /\ job'[i] \in JobRow /\ JobStep(i)
    BY EveryStepIsAJobStep DEF IInv, Shape
  <1>2. job[i].attempt \in 0..AttemptLimit /\ AttemptLimit \in Nat
    BY <1>1, QueueAssumption DEF QueueAssumption
  <1>3. CASE Same(i)
    BY <1>1, <1>2, <1>3 DEF Same, Kept
  <1>4. CASE RowStep(i)
    <2> DEFINE row == job[i]
    <2>1. /\ job'[i].attempt = row.attempt
          /\ job'[i].worker = w => row.worker = w
          /\ row.status \in Stopping => job'[i].status \in Stopping
      <3>1. CASE row.status = "absent" /\ job'[i] = [row EXCEPT !.status = "queued"]
        BY <1>1, <3>1 DEF Stopping
      <3>2. ASSUME NEW s \in Stopping, job'[i] = [row EXCEPT !.status = s] PROVE <2>1!:
        BY <1>1, <3>2 DEF Stopping
      <3>3. CASE row.status = "failed" /\ job'[i] = Requeued(row)
        BY <3>3, QueueAssumption DEF Requeued, Stopping, QueueAssumption
      <3>4. ASSUME NEW p, job'[i] = Beaten(row, p) PROVE <2>1!:
        BY <1>1, <3>4 DEF Beaten
      <3>5. CASE job'[i] = [row EXCEPT !.heartbeat = "overdue"]
        BY <1>1, <3>5
      <3> QED
        BY <1>4, <3>1, <3>2, <3>3, <3>4, <3>5 DEF RowStep, Stopping
    <2> QED
      BY <1>2, <1>4, <2>1 DEF Kept, RowStep
  <1>5. CASE ClaimStep(i)
    <2>1. PICK u \in Workers : /\ job'[i] = Claimed(job[i], u)
                               /\ attempts'[i] = WithOpened(attempts[i], job[i].attempt + 1, u)
      BY <1>5 DEF ClaimStep
    <2>2. job'[i].attempt = job[i].attempt + 1 /\ job'[i].worker = u
      BY <2>1 DEF Claimed
    <2>3. job[i].attempt + 1 \in 1..AttemptLimit /\ u # w
      BY <1>1, <1>2, <2>2
    <2> QED
      BY <1>1, <1>2, <2>1, <2>2, <2>3 DEF WithOpened, Kept
  <1>6. CASE EndStep(i)
    <2>1. PICK outcome \in {"cancelled", "succeeded", "failed", "stale"} :
             attempts'[i] = WithClosed(attempts[i], job[i].attempt, outcome)
      BY <1>6 DEF EndStep
    <2> DEFINE row == job[i]
    <2>2. /\ job'[i].attempt = row.attempt
          /\ job'[i].worker = w => row.worker = w
          /\ row.status \in Stopping => job'[i].status \in Stopping
      <3>1. ASSUME NEW o \in AllowedTransitions[row.status], job'[i] = Ended(row, o)
            PROVE  <2>2!:
        <4>1. row.status \in Stopping => o = "cancelled"
          BY <1>6 DEF EndStep, Held, Stopping, AllowedTransitions
        <4>2. /\ job'[i].status = o /\ job'[i].attempt = row.attempt
              /\ job'[i].worker = row.worker
          BY <1>1, <3>1 DEF Ended
        <4> QED
          BY <4>1, <4>2 DEF Stopping
      <3>2. CASE job'[i] = [row EXCEPT !.status = "cancelled"]
        BY <1>1, <3>2 DEF Stopping
      <3>3. CASE row.status = "running" /\ job'[i] = Requeued(row)
        BY <3>3, QueueAssumption DEF Requeued, Stopping, QueueAssumption
      <3>4. CASE row.status = "running" /\ job'[i] = [row EXCEPT !.status = "failed"]
        BY <1>1, <3>4 DEF Stopping
      <3> QED
        BY <1>6, <3>1, <3>2, <3>3, <3>4 DEF EndStep
    <2>5. \A n \in 1..job[i].attempt :
             /\ attempts'[i][n].worker = attempts[i][n].worker
             /\ attempts[i][n].status # "running" => attempts'[i][n].status # "running"
      BY <1>1, <1>2, <2>1 DEF WithClosed
    <2> QED
      BY <1>2, <2>2, <2>5 DEF Kept
  <1> QED
    BY <1>1, <1>3, <1>4, <1>5, <1>6 DEF JobStep

-----------------------------------------------------------------------------
\* What a process may do next.

\* What a worker knows of its attempt survives every step that keeps it.
LEMMA KeptIsEnough ==
  ASSUME NEW row, NEW log, NEW row2, NEW log2, NEW w \in Workers, NEW p, NEW p2,
         row.attempt \in 0..AttemptLimit, QueueAssumption,
         Kept(row, log, row2, log2, w),
         p.pc \in Executing, p2.pc \in Executing,
         ProcOK(p, row, log, w),
         p2.job = p.job, p2.attempt = p.attempt,
         p2.pc = "join" => p.pc = "join" \/ log2[p.attempt].status # "running",
         p2.seen => p.seen \/ row2.status \in Stopping
  PROVE  ProcOK(p2, row2, log2, w)
  <1>1. row.attempt \in Nat /\ row2.attempt \in Nat /\ row2.attempt >= row.attempt
    BY DEF Kept, QueueAssumption
  <1>2. p.attempt \in 1..row.attempt /\ p.attempt \in 1..row2.attempt
    BY <1>1 DEF ProcOK, Began
  <1>3. Began(row2, log2, p2.attempt, w)
    BY <1>1, <1>2 DEF ProcOK, Began, Kept
  <1>4. p2.pc = "join" => log2[p2.attempt].status # "running"
    BY <1>2 DEF ProcOK, Kept
  <1>5. p2.seen /\ row2.worker = w /\ row2.attempt = p2.attempt => row2.status \in Stopping
    BY <1>1, <1>2 DEF ProcOK, Kept
  <1> QED
    BY <1>3, <1>4, <1>5 DEF ProcOK

\* One process moves, and at most it claims: the others know what they knew.
LEMMA OneProcessMoves ==
  ASSUME WInv, [Next]_vars, NEW w \in Workers, NEW p2 \in Process,
         proc' = [proc EXCEPT ![w] = p2], Counters', OnlyClaimedBy(w),
         ProcOK(p2, job'[p2.job], attempts'[p2.job], w)
  PROVE  WInv'
  <1>1. IInv'
    BY NextInv DEF WInv
  <1>2. proc' \in [Workers -> Process]
    BY DEF WInv
  <1>3. ASSUME NEW u \in Workers
        PROVE  ProcOK(proc'[u], job'[proc'[u].job], attempts'[proc'[u].job], u)
    <2>1. CASE u = w
      BY <2>1 DEF WInv
    <2>2. CASE u # w /\ proc[u].pc \in Executing
      <3>1. proc'[u] = proc[u] /\ ProcOK(proc[u], job[proc[u].job], attempts[proc[u].job], u)
        BY <2>2 DEF WInv
      <3>2. PICK i \in Jobs : i = proc[u].job
        BY <2>2, <3>1 DEF ProcOK
      <3>3. Kept(job[i], attempts[i], job'[i], attempts'[i], u)
        BY <1>1, <2>2, StepKeeps DEF WInv, OnlyClaimedBy
      <3>4. job[i].attempt \in 0..AttemptLimit
        BY DEF WInv, IInv, Shape
      <3> QED
        BY <2>2, <3>1, <3>2, <3>3, <3>4, KeptIsEnough, QueueAssumption
    <2>3. CASE u # w /\ proc[u].pc \notin Executing
      BY <2>3 DEF WInv, ProcOK
    <2> QED
      BY <2>1, <2>2, <2>3
  <1> QED
    BY <1>1, <1>2, <1>3 DEF WInv

\* Nobody moves: a client's call, or time.
LEMMA NobodyMoves ==
  ASSUME WInv, [Next]_vars, UNCHANGED workerVars, NoClaim
  PROVE  WInv'
  <1>1. IInv'
    BY NextInv DEF WInv
  <1>2. ASSUME NEW u \in Workers
        PROVE  ProcOK(proc'[u], job'[proc'[u].job], attempts'[proc'[u].job], u)
    <2>1. proc'[u] = proc[u] /\ ProcOK(proc[u], job[proc[u].job], attempts[proc[u].job], u)
      BY DEF WInv, workerVars
    <2>2. CASE proc[u].pc \in Executing
      <3>1. PICK i \in Jobs : i = proc[u].job
        BY <2>1, <2>2 DEF ProcOK
      <3>2. Kept(job[i], attempts[i], job'[i], attempts'[i], u)
        BY <1>1, StepKeeps DEF WInv, NoClaim
      <3>3. job[i].attempt \in 0..AttemptLimit
        BY DEF WInv, IInv, Shape
      <3> QED
        BY <2>1, <2>2, <3>1, <3>2, <3>3, KeptIsEnough, QueueAssumption
    <2>3. CASE proc[u].pc \notin Executing
      BY <2>1, <2>3 DEF ProcOK
    <2> QED
      BY <2>2, <2>3
  <1> QED
    BY <1>1, <1>2 DEF WInv, workerVars, Counters

Places == Polling \cup Executing \cup {"stopped"}

\* A process goes on with its attempt.
LEMMA GoesOn ==
  ASSUME WInv, [Next]_vars, NEW w \in Workers, NEW p2 \in Process,
         proc' = [proc EXCEPT ![w] = p2], Counters', NoClaim,
         proc[w].pc \in Executing, p2.pc \in Executing,
         p2.job = proc[w].job, p2.attempt = proc[w].attempt,
         p2.pc = "join" => \/ proc[w].pc = "join"
                           \/ attempts'[proc[w].job][proc[w].attempt].status # "running",
         p2.seen => proc[w].seen \/ job'[proc[w].job].status \in Stopping
  PROVE  WInv'
  <1>1. ProcOK(proc[w], job[proc[w].job], attempts[proc[w].job], w) /\ IInv'
    BY NextInv DEF WInv
  <1>2. PICK i \in Jobs : i = proc[w].job
    BY <1>1 DEF ProcOK
  <1>3. Kept(job[i], attempts[i], job'[i], attempts'[i], w) /\ job[i].attempt \in 0..AttemptLimit
    BY <1>1, StepKeeps DEF WInv, IInv, Shape, NoClaim
  <1>4. ProcOK(p2, job'[i], attempts'[i], w)
    BY <1>1, <1>2, <1>3, KeptIsEnough, QueueAssumption
  <1> QED
    BY <1>2, <1>4, OneProcessMoves DEF NoClaim, OnlyClaimedBy

\* A process goes to its next call, or leaves its attempt.
LEMMA Goes ==
  ASSUME WInv, [Next]_vars, NEW w \in Workers, NEW pc \in Places, Go(w, pc), Counters', NoClaim,
         pc \in Executing => proc[w].pc \in Executing,
         pc = "join" => attempts'[proc[w].job][proc[w].attempt].status # "running"
  PROVE  WInv'
  <1>1. proc[w] \in Process
    BY DEF WInv
  <1>2. CASE pc \in Executing
    <2> DEFINE p2 == [proc[w] EXCEPT !.pc = pc]
    <2>1. /\ p2 \in Process /\ p2.pc = pc /\ p2.job = proc[w].job
          /\ p2.attempt = proc[w].attempt /\ p2.seen = proc[w].seen
      BY <1>1, <1>2 DEF Process
    <2>2. proc' = [proc EXCEPT ![w] = p2]
      BY <1>2 DEF Go, WInv
    <2> HIDE DEF p2
    <2> QED
      BY <1>2, <2>1, <2>2, GoesOn
  <1>3. CASE pc \notin Executing
    <2>1. At(pc) \in Process /\ At(pc).pc = pc
      BY <1>3, QueueAssumption DEF Places, At, Process, QueueAssumption
    <2>2. proc' = [proc EXCEPT ![w] = At(pc)]
      BY <1>3 DEF Go, WInv
    <2>3. ProcOK(At(pc), job'[At(pc).job], attempts'[At(pc).job], w)
      BY <1>3, <2>1 DEF ProcOK
    <2> QED
      BY <2>1, <2>2, <2>3, OneProcessMoves DEF NoClaim, OnlyClaimedBy
  <1> QED
    BY <1>2, <1>3

\* The attempt of a job in this worker's hands is the one this worker executes.
LEMMA OwnAttempt ==
  ASSUME WInv, NEW w \in Workers, NEW j \in Jobs, proc[w].pc \in Executing, proc[w].job = j,
         Held(job[j]), Owned(j, w)
  PROVE  proc[w].attempt = job[j].attempt
  <1>1. Began(job[j], attempts[j], proc[w].attempt, w) /\ JobOK(job[j], request[j], attempts[j])
    BY DEF WInv, ProcOK, IInv
  <1>2. attempts[j][job[j].attempt].worker = w /\ job[j].attempt > 0
    BY <1>1, QueueAssumption DEF JobOK, LastOK, Owned, QueueAssumption
  <1>3. job[j].attempt \in Nat
    BY QueueAssumption DEF WInv, IInv, Shape, QueueAssumption
  <1> QED
    BY <1>1, <1>2, <1>3 DEF Began

\* The end that a worker writes is the end of the attempt it executes.
LEMMA ClosesOwn ==
  ASSUME WInv, NEW w \in Workers, NEW j \in Jobs, proc[w].pc \in Executing, proc[w].job = j,
         NEW outcome \in {"cancelled", "succeeded", "failed"}, Owned(j, w), EndAttempt(j, outcome)
  PROVE  /\ Held(job[j]) /\ proc[w].attempt = job[j].attempt
         /\ attempts'[j][proc[w].attempt].status = outcome
         /\ NoClaim
  <1>1. JobOK(job[j], request[j], attempts[j]) /\ attempts[j] \in Log /\ IInv
    BY DEF WInv, IInv, Shape
  <1>2. Held(job[j])
    BY <1>1, OwnedIsHeld
       DEF EndAttempt, validate_transition, AllowedTransitions, InProgress, JobOK, RowOK, SweepOK
  <1>3. proc[w].attempt = job[j].attempt /\ job[j].attempt \in 1..AttemptLimit
    BY <1>1, <1>2, OwnAttempt, QueueAssumption DEF JobOK, LastOK, RowOK, Held, QueueAssumption
  <1>4. attempts'[j][job[j].attempt].status = outcome
    BY <1>1, <1>3 DEF EndAttempt, WithClosed, WInv, IInv, Shape
  <1> QED
    BY <1>1, <1>2, <1>3, <1>4, AttemptNumbersStay

-----------------------------------------------------------------------------
\* Every action of a process is a step of the queue and keeps the invariant.

\* Faults stay within their bound.
LEMMA CountersStay == WInv /\ (NoFault \/ Fault) => Counters'
  BY WorkerAssumption DEF WorkerAssumption, WInv, Counters, NoFault, Fault

\* An exception never looks like an orderly end.
LEMMA ErrorsGoSomewhere ==
  ASSUME NEW pc \in DOMAIN OnError
  PROVE  /\ OnError[pc] \in Places \ {"join"}
         /\ OnError[pc] \in Executing => pc \in Executing
  BY DEF OnError, Places, Polling, Executing

\* A call of the queue that committed, with or without its reply.
LEMMA CallReplied ==
  ASSUME WInv, [Next]_vars, NEW w \in Workers, NoClaim, proc[w].pc \in DOMAIN OnError,
         NEW next \in Polling \cup {"join"}, Replied(w, next),
         next = "join" => /\ proc[w].pc \in Executing
                          /\ attempts'[proc[w].job][proc[w].attempt].status # "running"
  PROVE  WInv'
  <1>1. next \in Places /\ (next \in Executing => next = "join")
    BY DEF Places, Polling, Executing
  <1>2. CASE Go(w, next) /\ NoFault
    BY <1>1, <1>2, CountersStay, Goes
  <1>3. CASE Go(w, OnError[proc[w].pc]) /\ Fault
    BY <1>3, CountersStay, ErrorsGoSomewhere, Goes
  <1> QED
    BY <1>2, <1>3 DEF Replied

\* A call of the queue that committed nothing.
LEMMA CallFailed ==
  ASSUME WInv, NEW w \in Workers, proc[w].pc \in DOMAIN OnError, Refused(w) \/ DatabaseError(w)
  PROVE  [Next]_vars /\ WInv'
  <1>1. UNCHANGED vars /\ Go(w, OnError[proc[w].pc]) /\ (NoFault \/ Fault)
    BY DEF Refused, DatabaseError
  <1>2. NoClaim
    BY <1>1 DEF NoClaim, vars
  <1> QED
    BY <1>1, <1>2, CountersStay, ErrorsGoSomewhere, Goes

\* The two sweeps of run_once.
LEMMA SweepsStep ==
  ASSUME WInv, NEW w \in Workers, Recover(w) \/ Acknowledge(w)
  PROVE  [Next]_vars /\ WInv'
  <1>1. PICK batch \in SUBSET Jobs, next \in Polling :
           /\ proc[w].pc \in {"recover", "acknowledge"} /\ Replied(w, next)
           /\ \/ UNCHANGED vars
              \/ recover_stale(batch) \/ acknowledge_unclaimed_cancellations(batch)
    BY DEF Recover, Acknowledge, Polling
  <1>2. [Next]_vars
    BY <1>1 DEF Next, Sweep
  <1>3. NoClaim
    <2>1. CASE UNCHANGED vars
      BY <2>1 DEF NoClaim, vars
    <2>2. CASE \E j \in Jobs : TRUE
      BY <1>1, <2>2, AttemptNumbersStay DEF WInv
    <2>3. CASE Jobs = {}
      BY <2>3 DEF NoClaim
    <2> QED
      BY <2>2, <2>3
  <1> QED
    BY <1>1, <1>2, <1>3, CallReplied DEF OnError, Polling

\* claim_next, when it finds a job and when it finds none.
LEMMA ClaimStepsIn ==
  ASSUME WInv, NEW w \in Workers, Claim(w)
  PROVE  [Next]_vars /\ WInv'
  <1>1. CASE Go(w, "recover") /\ NoFault /\ UNCHANGED vars
    <2>1. NoClaim /\ "recover" \in Places /\ "recover" \notin Executing
      BY <1>1 DEF NoClaim, vars, Places, Polling, Executing
    <2> QED
      BY <1>1, <2>1, CountersStay, Goes
  <1>2. ASSUME NEW j \in Jobs, claim_next(j, w, Supported, {}), proc[w].pc = "claim",
               \/ proc' = [proc EXCEPT ![w] = Begun(w, j)] /\ NoFault
               \/ Go(w, "stopped") /\ Fault
        PROVE  [Next]_vars /\ WInv'
    <2>1. [Next]_vars
      <3>1. Supported \in SUBSET JobTypes /\ {} \in SUBSET Jobs
        BY WorkerAssumption DEF WorkerAssumption
      <3> QED
        BY <1>2, <3>1 DEF Next, WorkerCall
    <2>2. /\ job[j] \in JobRow /\ attempts[j] \in Log /\ JobOK(job[j], request[j], attempts[j])
          /\ job[j].status = "queued"
          /\ job' = [job EXCEPT ![j] = Claimed(job[j], w)] /\ job \in [Jobs -> JobRow]
          /\ attempts'[j] = WithOpened(attempts[j], job[j].attempt + 1, w)
      BY <1>2 DEF WInv, IInv, Shape, claim_next, Claimable
    <2>3. job[j].attempt + 1 \in 1..AttemptLimit
      BY <2>2, QueueAssumption DEF JobOK, RowOK, BudgetOK, QueueAssumption
    <2>4. OnlyClaimedBy(w)
      BY <2>2 DEF OnlyClaimedBy, Claimed
    <2>5. Counters'
      BY <1>2, CountersStay
    <2>6. CASE proc' = [proc EXCEPT ![w] = Begun(w, j)]
      <3>1. Begun(w, j) \in Process
        BY <2>3, QueueAssumption DEF Begun, Process, Executing, QueueAssumption
      <3>2. /\ Begun(w, j).pc = "handler" /\ Begun(w, j).job = j /\ ~Begun(w, j).seen
            /\ Begun(w, j).attempt = job[j].attempt + 1
        BY DEF Begun
      <3>3. /\ job'[j].attempt = job[j].attempt + 1
            /\ attempts'[j][job[j].attempt + 1].worker = w
        <4>1. job'[j] = Claimed(job[j], w) /\ Claimed(job[j], w).attempt = job[j].attempt + 1
          BY <2>2 DEF Claimed
        <4>2. WithOpened(attempts[j], job[j].attempt + 1, w)[job[j].attempt + 1].worker = w
          BY <2>2, <2>3 DEF WithOpened
        <4> QED
          BY <2>2, <4>1, <4>2
      <3>4. ProcOK(Begun(w, j), job'[j], attempts'[j], w)
        <4> DEFINE p2 == Begun(w, j)
        <4>1. Began(job'[j], attempts'[j], job[j].attempt + 1, w)
          BY <2>2, <2>3, <3>3, QueueAssumption DEF Began, QueueAssumption
        <4> HIDE DEF p2
        <4> QED
          BY <3>2, <4>1 DEF p2, ProcOK, Executing
      <3> QED
        BY <2>1, <2>4, <2>5, <2>6, <3>1, <3>2, <3>4, OneProcessMoves
    <2>7. CASE Go(w, "stopped")
      <3>1. proc' = [proc EXCEPT ![w] = At("stopped")]
        BY <2>7 DEF Go, Executing
      <3>2. At("stopped") \in Process /\ At("stopped").pc = "stopped" /\ "stopped" \notin Executing
        BY QueueAssumption DEF At, Process, Executing, QueueAssumption
      <3>3. ProcOK(At("stopped"), job'[At("stopped").job], attempts'[At("stopped").job], w)
        BY <3>2 DEF ProcOK
      <3> QED
        BY <2>1, <2>4, <2>5, <3>1, <3>2, <3>3, OneProcessMoves
    <2> QED
      BY <1>2, <2>1, <2>6, <2>7
  <1> QED
    BY <1>1, <1>2 DEF Claim

\* The heartbeat task and a handler's progress report.
LEMMA BeatSteps ==
  ASSUME WInv, NEW w \in Workers,
         BeatBegins(w) \/ BeatEnds(w) \/ \E p \in Reports : ReportAccepted(w, p)
  PROVE  [Next]_vars /\ WInv'
  <1>1. proc[w] \in Process /\ ProcOK(proc[w], job[proc[w].job], attempts[proc[w].job], w)
    BY DEF WInv
  <1>2. proc[w].pc \in Executing
    BY <1>1 DEF BeatBegins, BeatEnds, ReportAccepted, ProcOK, At, Executing
  <1>3. PICK j \in Jobs : j = proc[w].job
    BY <1>1, <1>2 DEF ProcOK
  <1> DEFINE seen2 == proc[w].seen \/ job[j].status = "cancel_requested"
  <1>4. ASSUME UNCHANGED vars, NEW beat \in {"off", "asleep", "calling", "dead"},
               proc' = [proc EXCEPT ![w].beat = beat], NoFault \/ Fault
        PROVE  [Next]_vars /\ WInv'
    <2> DEFINE p2 == [proc[w] EXCEPT !.beat = beat]
    <2>1. /\ p2 \in Process /\ p2.pc = proc[w].pc /\ p2.job = proc[w].job
          /\ p2.attempt = proc[w].attempt /\ p2.seen = proc[w].seen
      BY <1>1 DEF Process
    <2>2. proc' = [proc EXCEPT ![w] = p2]
      BY <1>4 DEF WInv
    <2>3. NoClaim /\ Counters'
      BY <1>4, CountersStay DEF NoClaim, vars
    <2> HIDE DEF p2
    <2> QED
      BY <1>2, <1>4, <2>1, <2>2, <2>3, GoesOn
  <1>5. ASSUME NEW p \in Reports \cup {NoReport}, heartbeat(j, w, p), NoFault,
               NEW beat \in {"off", "asleep", "calling", "dead"},
               proc' = [proc EXCEPT ![w] = [proc[w] EXCEPT !.beat = beat, !.seen = seen2]]
        PROVE  [Next]_vars /\ WInv'
    <2> DEFINE p2 == [proc[w] EXCEPT !.beat = beat, !.seen = seen2]
    <2>1. /\ p2 \in Process /\ p2.pc = proc[w].pc /\ p2.job = proc[w].job
          /\ p2.attempt = proc[w].attempt /\ p2.seen = seen2
      BY <1>1 DEF Process
    <2>2. [Next]_vars
      BY <1>5 DEF Next, WorkerCall
    <2>3. NoClaim /\ Counters'
      BY <1>5, CountersStay, AttemptNumbersStay DEF WInv
    <2>4. job'[j].status = job[j].status
      BY <1>5 DEF heartbeat, Beaten, WInv, IInv, Shape
    <2>5. seen2 => proc[w].seen \/ job'[j].status \in Stopping
      BY <2>4 DEF Stopping
    <2> HIDE DEF p2, seen2
    <2> QED
      BY <1>2, <1>3, <1>5, <2>1, <2>2, <2>3, <2>5, GoesOn DEF p2
  <1>6. CASE BeatBegins(w)
    BY <1>4, <1>6 DEF BeatBegins
  <1>7. CASE BeatEnds(w)
    <2>1. CASE /\ heartbeat(j, w, NoReport) /\ NoFault
               /\ proc' = [proc EXCEPT ![w].beat = "asleep", ![w].seen = seen2]
      <3>1. proc' = [proc EXCEPT ![w] = [proc[w] EXCEPT !.beat = "asleep", !.seen = seen2]]
        BY <2>1 DEF WInv, Process
      <3> HIDE DEF seen2
      <3> QED
        BY <1>5, <2>1, <3>1
    <2> QED
      BY <1>3, <1>4, <1>7, <2>1 DEF BeatEnds
  <1>8. CASE \E p \in Reports : ReportAccepted(w, p)
    <2>1. PICK p \in Reports : heartbeat(j, w, p) /\ NoFault
                               /\ proc' = [proc EXCEPT ![w].seen = seen2]
      BY <1>3, <1>8 DEF ReportAccepted
    <2>2. proc' = [proc EXCEPT ![w] = [proc[w] EXCEPT !.beat = proc[w].beat, !.seen = seen2]]
      BY <1>1, <2>1 DEF WInv, Process
    <2>3. proc[w].beat \in {"off", "asleep", "calling", "dead"}
      BY <1>1 DEF Process
    <2> HIDE DEF seen2
    <2> QED
      BY <1>5, <2>1, <2>2, <2>3
  <1> QED
    BY <1>6, <1>7, <1>8

\* The three calls that end an attempt.
LEMMA EndSteps ==
  ASSUME WInv, NEW w \in Workers, Succeed(w) \/ Fail(w) \/ AcknowledgeCancellation(w)
  PROVE  [Next]_vars /\ WInv'
  <1>1. proc[w].pc \in Executing /\ proc[w].pc \in DOMAIN OnError
    BY DEF Succeed, Fail, AcknowledgeCancellation, Executing, OnError
  <1>2. PICK j \in Jobs : j = proc[w].job
    BY <1>1 DEF WInv, ProcOK
  <1>3. CASE Refused(w)
    BY <1>1, <1>3, CallFailed
  <1>4. ASSUME NEW outcome \in {"cancelled", "succeeded", "failed"},
               Owned(j, w), EndAttempt(j, outcome), Replied(w, "join"), [Next]_vars
        PROVE  WInv'
    <2>1. attempts'[j][proc[w].attempt].status # "running" /\ NoClaim
      BY <1>1, <1>2, <1>4, ClosesOwn
    <2> QED
      BY <1>1, <1>2, <1>4, <2>1, CallReplied
  <1>5. CASE succeed(j, w) /\ Replied(w, "join")
    BY <1>4, <1>5 DEF succeed, UnlessCancelled, Next, WorkerCall
  <1>6. CASE fail(j, w) /\ Replied(w, "join")
    BY <1>4, <1>6 DEF fail, UnlessCancelled, Next, WorkerCall
  <1>7. CASE acknowledge_cancellation(j, w) /\ Replied(w, "join")
    BY <1>4, <1>7 DEF acknowledge_cancellation, Next, WorkerCall
  <1> QED
    BY <1>2, <1>3, <1>5, <1>6, <1>7 DEF Succeed, Fail, AcknowledgeCancellation

\* Moves of a process that touch no row.
LEMMA OwnMoves ==
  ASSUME WInv, NEW w \in Workers,
         \/ \E next \in Executing : HandlerEnds(w, next)
         \/ Join(w) \/ Crash(w) \/ Restart(w)
  PROVE  [Next]_vars /\ WInv'
  <1>1. PICK pc \in Places \ {"join"} :
           /\ Go(w, pc) /\ UNCHANGED vars
           /\ pc \in Executing => proc[w].pc \in Executing
    BY DEF HandlerEnds, Join, Crash, Restart, Places, Polling, Executing
  <1>2. Counters'
    BY WorkerAssumption
       DEF HandlerEnds, Join, Crash, Restart, NoFault, WInv, Counters, WorkerAssumption
  <1>3. NoClaim
    BY <1>1 DEF NoClaim, vars
  <1> QED
    BY <1>1, <1>2, <1>3, Goes

-----------------------------------------------------------------------------
\* The system implements the queue.

\* Fresh processes over an empty queue.
LEMMA SystemInitInv == SystemInit => WInv
  <1> SUFFICES ASSUME SystemInit PROVE WInv
    OBVIOUS
  <1>1. IInv
    BY InitInv DEF SystemInit
  <1>2. At("recover") \in Process /\ At("recover").pc = "recover" /\ "recover" \notin Executing
    BY QueueAssumption DEF At, Process, Polling, Executing, QueueAssumption
  <1>3. proc = [w \in Workers |-> At("recover")] /\ Counters
    BY WorkerAssumption DEF SystemInit, Counters, WorkerAssumption
  <1>4. ASSUME NEW w \in Workers PROVE ProcOK(proc[w], job[proc[w].job], attempts[proc[w].job], w)
    BY <1>2, <1>3 DEF ProcOK
  <1> QED
    BY <1>1, <1>2, <1>3, <1>4 DEF WInv

\* Every step of the system is a step of the queue, or no step of it.
LEMMA SystemStep == WInv /\ [SystemNext]_systemVars => [Next]_vars /\ WInv'
  <1> SUFFICES ASSUME WInv, [SystemNext]_systemVars PROVE [Next]_vars /\ WInv'
    OBVIOUS
  <1>1. ASSUME NEW w \in Workers, Shell(w) PROVE [Next]_vars /\ WInv'
    <2>1. CASE DatabaseError(w)
      BY <2>1, CallFailed DEF DatabaseError
    <2> QED
      BY <1>1, <2>1, SweepsStep, ClaimStepsIn, EndSteps, OwnMoves, BeatSteps DEF Shell, MainStep
  <1>2. ASSUME NEW w \in Workers, Handler(w) PROVE [Next]_vars /\ WInv'
    BY <1>2, BeatSteps, OwnMoves DEF Handler
  <1>3. CASE ClientCall /\ UNCHANGED workerVars
    <2>1. NoClaim
      <3>1. CASE \E j \in Jobs : TRUE
        BY <1>3, <3>1, AttemptNumbersStay DEF WInv
      <3>2. CASE Jobs = {}
        BY <3>2 DEF NoClaim
      <3> QED
        BY <3>1, <3>2
    <2> QED
      BY <1>3, <2>1, NobodyMoves DEF Next
  <1>4. ASSUME NEW j \in Jobs, RowExpires(j), UNCHANGED workerVars PROVE [Next]_vars /\ WInv'
    <2>1. HeartbeatExpires(j) /\ NoClaim
      BY <1>4, AttemptNumbersStay DEF RowExpires, WInv
    <2> QED
      BY <1>4, <2>1, NobodyMoves DEF Next, Tick
  <1>5. CASE UNCHANGED systemVars
    <2>1. UNCHANGED vars /\ UNCHANGED workerVars
      BY <1>5 DEF systemVars, vars, workerVars
    <2>2. NoClaim
      BY <2>1 DEF NoClaim, vars
    <2> QED
      BY <2>1, <2>2, NobodyMoves
  <1> QED
    BY <1>1, <1>2, <1>3, <1>4, <1>5 DEF SystemNext

\* In every reachable state a process knows of its attempt what ProcOK says.
THEOREM SystemInvariant == SystemSpec => []WInv
  BY SystemInitInv, SystemStep, PTL DEF SystemSpec

\* Workers that crash, lose replies and come back use the queue as JobQueue allows:
\* everything proved about the queue holds of the system.
THEOREM SystemImplementsQueue == SystemSpec => Spec
  <1>1. SystemInit => Init
    BY DEF SystemInit
  <1> QED
    BY <1>1, SystemInvariant, SystemStep, PTL DEF SystemSpec, Spec

\* A job run by these workers keeps the promise of JobLifecycle.
THEOREM SystemKeepsThePromise == SystemSpec => LifecyclePromise
  BY SystemImplementsQueue, QueueKeepsThePromise

-----------------------------------------------------------------------------
\* The invariants of JobWorker.

\* Rows, ledger, processes and counters keep their types.
THEOREM SystemTypesHold == SystemSpec => []WorkerTypeOK
  <1>1. WInv /\ TypeOK => WorkerTypeOK
    BY DEF WInv, Counters, WorkerTypeOK
  <1> QED
    BY <1>1, SystemInvariant, SystemImplementsQueue, TypesHold, PTL

\* A process that waits for its heartbeat task after an orderly end has a closed
\* attempt row, also when the reply of the call that closed it was lost.
THEOREM JoinedIsClosed == SystemSpec => []JoinedMeansClosed
  <1>1. WInv => JoinedMeansClosed
    BY DEF WInv, ProcOK, JoinedMeansClosed, Executing
  <1> QED
    BY <1>1, SystemInvariant, PTL

\* No handler is stopped for a cancellation that was meant for another attempt.
THEOREM OnlyWantedCancellations == SystemSpec => []CancellationsAreWanted
  <1>1. WInv => CancellationsAreWanted
    <2> SUFFICES ASSUME WInv, NEW w \in Workers, proc[w].seen, Executes(w)
                 PROVE  job[proc[w].job].status \in Stopping
      BY DEF CancellationsAreWanted, Stopping
    <2>1. ProcOK(proc[w], job[proc[w].job], attempts[proc[w].job], w)
      BY DEF WInv
    <2>2. proc[w].pc \in Executing
      BY <2>1 DEF ProcOK, At
    <2> QED
      BY <2>1, <2>2 DEF ProcOK, Executes, Mine, Owned
  <1> QED
    BY <1>1, SystemInvariant, PTL

-----------------------------------------------------------------------------
\* Who writes an outcome.

\* The step neither succeeds nor fails the attempt of job j, nor revives it.
Calm(j) ==
    /\ attempts'[j][job[j].attempt].status \notin {"succeeded", "failed"}
    /\ ~(job[j].heartbeat = "overdue" /\ Active(j)' /\ job'[j].heartbeat = "fresh")

\* Clients, sweeps, time and calls about other jobs are calm.
LEMMA OthersAreCalm ==
  ASSUME IInv, NEW j \in Jobs, Active(j),
         NEW i \in Jobs, NEW w, NEW p, NEW types, NEW outcome, NEW batch \in SUBSET Jobs,
         \/ UNCHANGED vars \/ ClientCall \/ claim_next(i, w, types, {})
         \/ i # j /\ (heartbeat(i, w, p) \/ EndAttempt(i, outcome))
         \/ acknowledge_unclaimed_cancellations(batch) \/ recover_stale(batch)
         \/ HeartbeatExpires(i)
  PROVE  Calm(j)
  <1>1. /\ JobOK(job[j], request[j], attempts[j]) /\ Held(job[j])
        /\ job[j] \in JobRow /\ attempts[j] \in Log
        /\ job \in [Jobs -> JobRow] /\ attempts \in [Jobs -> Log]
    BY DEF IInv, Shape, Active, InProgress, Held
  <1>2. /\ attempts[j][job[j].attempt].status = "running"
        /\ job[j].attempt \in 1..AttemptLimit
    BY <1>1, QueueAssumption DEF JobOK, LastOK, RowOK, Held, QueueAssumption
  <1>3. CASE job'[j] = job[j] /\ attempts'[j] = attempts[j]
    BY <1>2, <1>3 DEF Calm
  <1>4. CASE ClientCall
    <2>1. attempts' = attempts
      BY <1>4 DEF ClientCall, Enqueue, EnqueueReplay, vars, request_cancel, retry
    <2>2. job'[j].heartbeat = job[j].heartbeat
      <3>1. CASE \E m \in Jobs, r \in Requests, k \in Keys \cup {NoKey} : Enqueue(m, r, k)
        BY <1>1, <3>1 DEF Enqueue
      <3>2. CASE \E m \in Jobs, k \in Keys : EnqueueReplay(m, k)
        BY <3>2 DEF EnqueueReplay, vars
      <3>3. CASE \E m \in Jobs : request_cancel(m)
        BY <1>1, <3>3 DEF request_cancel
      <3>4. CASE \E m \in Jobs : retry(m)
        BY <1>1, <3>4 DEF retry, CanRetry, Held
      <3> QED
        BY <1>4, <3>1, <3>2, <3>3, <3>4 DEF ClientCall
    <2> QED
      BY <1>2, <2>1, <2>2 DEF Calm
  <1>5. CASE claim_next(i, w, types, {})
    <2>1. i # j
      BY <1>1, <1>5 DEF claim_next, Claimable, Held
    <2> QED
      BY <1>1, <1>3, <1>5, <2>1 DEF claim_next
  <1>6. CASE i # j /\ (heartbeat(i, w, p) \/ EndAttempt(i, outcome))
    BY <1>1, <1>3, <1>6 DEF heartbeat, EndAttempt
  <1>7. CASE acknowledge_unclaimed_cancellations(batch)
    <2>1. j \notin batch
      BY <1>1, <1>7 DEF acknowledge_unclaimed_cancellations, Unclaimed, Held
    <2> QED
      BY <1>1, <1>3, <1>7, <2>1 DEF acknowledge_unclaimed_cancellations
  <1>8. CASE recover_stale(batch)
    <2>1. CASE j \notin batch
      BY <1>1, <1>3, <1>8, <2>1 DEF recover_stale
    <2>2. CASE j \in batch
      <3>1. /\ job'[j] = Recovered(j)
            /\ attempts'[j] = WithClosed(attempts[j], job[j].attempt, RecoveredOutcome(j))
        BY <1>8, <2>2 DEF recover_stale
      <3>2. attempts'[j][job[j].attempt].status = RecoveredOutcome(j)
        BY <1>1, <1>2, <3>1 DEF WithClosed
      <3>3. job'[j].status \in {"cancelled", "queued", "failed"}
        BY <1>1, <3>1 DEF Recovered, Requeued
      <3> QED
        BY <3>2, <3>3 DEF Calm, RecoveredOutcome, Active, InProgress
    <2> QED
      BY <2>1, <2>2
  <1>9. CASE HeartbeatExpires(i)
    <2>1. attempts' = attempts /\ (i # j => job'[j] = job[j])
          /\ (i = j => job'[j].heartbeat = "overdue")
      BY <1>1, <1>9 DEF HeartbeatExpires
    <2> QED
      BY <1>2, <2>1 DEF Calm
  <1>10. CASE UNCHANGED vars
    BY <1>3, <1>10 DEF vars
  <1> QED
    BY <1>4, <1>5, <1>6, <1>7, <1>8, <1>9, <1>10

\* What WritesComeFromTheAttempt says of one job.
WrittenByExecutor(j) ==
    LET w == job[j].worker
        executes == proc[w].job = j /\ proc[w].attempt = job[j].attempt
        outcome == attempts'[j][job[j].attempt].status
    IN  /\ outcome = "succeeded" => executes /\ proc[w].pc = "succeed"
        /\ outcome = "failed" => executes /\ proc[w].pc = "fail"
        /\ job[j].heartbeat = "overdue" /\ Active(j)' /\ job'[j].heartbeat = "fresh"
              => executes

\* An accepted heartbeat comes from the attempt in progress.
LEMMA HeartbeatIsOwn ==
  ASSUME WInv, NEW j \in Jobs, Active(j), NEW w \in Workers, NEW i \in Jobs, proc[w].job = i,
         proc[w].pc \in Executing, NEW p, heartbeat(i, w, p)
  PROVE  WrittenByExecutor(j)
  <1>1. CASE i # j
    BY <1>1, OthersAreCalm, {} \in SUBSET Jobs DEF WInv, Calm, WrittenByExecutor
  <1>2. CASE i = j
    <2>1. Held(job[j]) /\ job[j].worker = w /\ attempts' = attempts
      BY <1>2, OwnedIsHeld DEF heartbeat, Owned
    <2>2. proc[w].attempt = job[j].attempt
      BY <1>2, <2>1, OwnAttempt DEF Owned
    <2>3. attempts[j][job[j].attempt].status = "running"
      <3>1. LastOK(job[j], attempts[j])
        BY DEF WInv, IInv, JobOK
      <3> QED
        BY <2>1, <3>1 DEF LastOK
    <2> QED
      BY <1>2, <2>1, <2>2, <2>3 DEF WrittenByExecutor
  <1> QED
    BY <1>1, <1>2

\* So does an accepted outcome, and the process is at the call that writes it.
LEMMA OutcomeIsOwn ==
  ASSUME WInv, NEW j \in Jobs, Active(j), NEW w \in Workers, NEW i \in Jobs, proc[w].job = i,
         proc[w].pc \in Executing, NEW outcome \in {"cancelled", "succeeded", "failed"},
         Owned(i, w), EndAttempt(i, outcome),
         outcome = "succeeded" => proc[w].pc = "succeed",
         outcome = "failed" => proc[w].pc = "fail"
  PROVE  WrittenByExecutor(j)
  <1>1. CASE i # j
    BY <1>1, OthersAreCalm, {} \in SUBSET Jobs DEF WInv, Calm, WrittenByExecutor
  <1>2. CASE i = j
    <2>1. /\ proc[w].attempt = job[j].attempt /\ job[j].worker = w
          /\ attempts'[j][job[j].attempt].status = outcome
      BY <1>2, ClosesOwn DEF Owned
    <2>2. job'[j].status = outcome
      BY <1>2 DEF EndAttempt, Ended, WInv, IInv, Shape
    <2>3. ~(Active(j)')
      BY <2>2 DEF Active, InProgress
    <2> QED
      BY <1>2, <2>1, <2>3 DEF WrittenByExecutor
  <1> QED
    BY <1>1, <1>2

\* Whatever ends an attempt well or badly, or keeps it alive, is its own process.
LEMMA WritesAreOwn ==
  ASSUME WInv, [SystemNext]_systemVars, NEW j \in Jobs, Active(j)
  PROVE  WrittenByExecutor(j)
  <1>1. Calm(j) => WrittenByExecutor(j)
    BY DEF Calm, WrittenByExecutor
  <1>2. UNCHANGED vars => Calm(j)
    BY OthersAreCalm, {} \in SUBSET Jobs DEF WInv
  <1>3. ASSUME NEW w \in Workers, Recover(w) \/ Acknowledge(w) \/ Claim(w) PROVE Calm(j)
    <2>1. CASE Recover(w)
      BY <1>2, <2>1, OthersAreCalm DEF Recover, WInv
    <2>2. CASE Acknowledge(w)
      BY <1>2, <2>2, OthersAreCalm DEF Acknowledge, WInv
    <2>3. CASE Claim(w)
      BY <1>2, <2>3, OthersAreCalm, {} \in SUBSET Jobs DEF Claim, WInv
    <2> QED
      BY <1>3, <2>1, <2>2, <2>3
  <1>4. ASSUME NEW w \in Workers, Succeed(w) \/ Fail(w) \/ AcknowledgeCancellation(w)
        PROVE  WrittenByExecutor(j)
    <2>1. proc[w].pc \in Executing
      BY <1>4 DEF Succeed, Fail, AcknowledgeCancellation, Executing
    <2>2. PICK i \in Jobs : i = proc[w].job
      BY <2>1 DEF WInv, ProcOK
    <2>3. CASE Refused(w)
      BY <1>1, <1>2, <2>3 DEF Refused
    <2>4. CASE proc[w].pc = "succeed" /\ succeed(i, w)
      BY <2>1, <2>2, <2>4, OutcomeIsOwn DEF succeed, UnlessCancelled
    <2>5. CASE proc[w].pc = "fail" /\ fail(i, w)
      BY <2>1, <2>2, <2>5, OutcomeIsOwn DEF fail, UnlessCancelled
    <2>6. CASE acknowledge_cancellation(i, w)
      BY <2>1, <2>2, <2>6, OutcomeIsOwn DEF acknowledge_cancellation
    <2> QED
      BY <1>4, <2>2, <2>3, <2>4, <2>5, <2>6 DEF Succeed, Fail, AcknowledgeCancellation
  <1>5. ASSUME NEW w \in Workers, BeatEnds(w) \/ \E p \in Reports : ReportAccepted(w, p)
        PROVE  WrittenByExecutor(j)
    <2>1. proc[w].pc \in Executing
      BY <1>5 DEF WInv, BeatEnds, ReportAccepted, ProcOK, At, Executing
    <2>2. PICK i \in Jobs : i = proc[w].job
      BY <2>1 DEF WInv, ProcOK
    <2>3. ASSUME NEW p, heartbeat(i, w, p) PROVE WrittenByExecutor(j)
      BY <2>1, <2>2, <2>3, HeartbeatIsOwn
    <2> QED
      BY <1>1, <1>2, <1>5, <2>2, <2>3 DEF BeatEnds, ReportAccepted
  <1>6. ASSUME NEW w \in Workers,
               \/ BeatBegins(w) \/ DatabaseError(w) \/ Join(w) \/ Crash(w) \/ Restart(w)
               \/ \E next \in Executing : HandlerEnds(w, next)
        PROVE  Calm(j)
    BY <1>2, <1>6 DEF BeatBegins, DatabaseError, Join, Crash, Restart, HandlerEnds
  <1>7. ClientCall => Calm(j)
    BY OthersAreCalm, {} \in SUBSET Jobs DEF WInv
  <1>8. ASSUME NEW i \in Jobs, RowExpires(i) PROVE Calm(j)
    BY <1>8, OthersAreCalm, {} \in SUBSET Jobs DEF WInv, RowExpires
  <1>9. UNCHANGED systemVars => UNCHANGED vars
    BY DEF systemVars, vars
  <1> QED
    BY <1>1, <1>2, <1>3, <1>4, <1>5, <1>6, <1>7, <1>8, <1>9
       DEF SystemNext, Shell, MainStep, Handler

\* An attempt succeeds, fails or is kept alive only by the process that executes it,
\* though the queue compares nothing but worker ids.
THEOREM OutcomesAreTheAttempts == SystemSpec => WritesComeFromTheAttempt
  <1>1. WInv /\ [SystemNext]_systemVars =>
           \A j \in Jobs : Active(j) => WrittenByExecutor(j)
    BY WritesAreOwn
  <1>2. WInv /\ [SystemNext]_systemVars =>
           [\A j \in Jobs : Active(j) =>
              LET w == job[j].worker
                  executes == proc[w].job = j /\ proc[w].attempt = job[j].attempt
                  outcome == attempts'[j][job[j].attempt].status
              IN  /\ outcome = "succeeded" => executes /\ proc[w].pc = "succeed"
                  /\ outcome = "failed" => executes /\ proc[w].pc = "fail"
                  /\ job[j].heartbeat = "overdue" /\ Active(j)' /\ job'[j].heartbeat = "fresh"
                        => executes]_systemVars
    BY <1>1 DEF WrittenByExecutor
  <1> QED
    BY <1>2, SystemInvariant, PTL DEF SystemSpec, WritesComeFromTheAttempt

-----------------------------------------------------------------------------
\* One handler for a job.

\* A job that worker w holds, with a recent heartbeat.
HeldFast(j, w) == job[j].worker = w /\ InProgress(j) /\ job[j].heartbeat = "fresh"

\* In the handler, or in a call that ends the attempt.
Busy == {"handler", "succeed", "fail", "acknowledge_cancellation"}

\* While nothing pauses and no call fails, the heartbeats of an attempt are heard to its end.
AttemptsAreHeard ==
    ~MayPause /\ faults = 0 =>
        \A w \in Workers : proc[w].pc \in Busy =>
            HeldFast(proc[w].job, w) /\ proc[w].beat \in {"asleep", "calling"}

\* Nobody but its worker and the clock disturbs a job that is held fast.
LEMMA HeldFastStays ==
  ASSUME IInv, NEW j \in Jobs, NEW u \in Workers, HeldFast(j, u),
         NEW i \in Jobs, NEW w, NEW p, NEW types, NEW outcome, NEW batch \in SUBSET Jobs,
         \/ UNCHANGED vars \/ ClientCall \/ claim_next(i, w, types, {}) \/ heartbeat(i, w, p)
         \/ Owned(i, w) /\ w # u /\ EndAttempt(i, outcome)
         \/ acknowledge_unclaimed_cancellations(batch) \/ recover_stale(batch)
         \/ i # j /\ HeartbeatExpires(i)
  PROVE  HeldFast(j, u)'
  <1>1. /\ job[j] \in JobRow /\ job \in [Jobs -> JobRow] /\ job[j].worker = u
        /\ job[j].status \in {"running", "cancel_requested"} /\ job[j].heartbeat = "fresh"
    BY DEF IInv, Shape, HeldFast, InProgress
  <1> SUFFICES /\ job'[j].worker = u /\ job'[j].status \in {"running", "cancel_requested"}
               /\ job'[j].heartbeat = "fresh"
    BY DEF HeldFast, InProgress
  <1>2. CASE job'[j] = job[j]
    BY <1>1, <1>2
  <1>3. CASE ClientCall
    <2>1. CASE \E m \in Jobs, r \in Requests, k \in Keys \cup {NoKey} : Enqueue(m, r, k)
      BY <1>1, <2>1 DEF Enqueue, Exists
    <2>2. CASE \E m \in Jobs, k \in Keys : EnqueueReplay(m, k)
      BY <1>2, <2>2 DEF EnqueueReplay, vars
    <2>3. CASE \E m \in Jobs : request_cancel(m)
      BY <1>1, <2>3 DEF request_cancel
    <2>4. CASE \E m \in Jobs : retry(m)
      BY <1>1, <2>4 DEF retry, CanRetry
    <2> QED
      BY <1>3, <2>1, <2>2, <2>3, <2>4 DEF ClientCall
  <1>4. CASE claim_next(i, w, types, {})
    BY <1>1, <1>4 DEF claim_next, Claimable
  <1>5. CASE heartbeat(i, w, p)
    BY <1>1, <1>5 DEF heartbeat, Beaten
  <1>6. CASE Owned(i, w) /\ w # u /\ EndAttempt(i, outcome)
    BY <1>1, <1>6 DEF Owned, EndAttempt
  <1>7. CASE acknowledge_unclaimed_cancellations(batch)
    BY <1>1, <1>7, QueueAssumption
       DEF acknowledge_unclaimed_cancellations, Unclaimed, QueueAssumption
  <1>8. CASE recover_stale(batch)
    BY <1>1, <1>8 DEF recover_stale, Silent
  <1>9. CASE i # j /\ HeartbeatExpires(i)
    BY <1>1, <1>9 DEF HeartbeatExpires
  <1>10. CASE UNCHANGED vars
    BY <1>2, <1>10 DEF vars
  <1> QED
    BY <1>3, <1>4, <1>5, <1>6, <1>7, <1>8, <1>9, <1>10

\* The one transaction of a process's step, if it has any.
Transaction(w) ==
    \/ UNCHANGED vars
    \/ \E batch \in SUBSET Jobs :
          acknowledge_unclaimed_cancellations(batch) \/ recover_stale(batch)
    \/ \E i \in Jobs : claim_next(i, w, Supported, {})
    \/ \E i \in Jobs, p \in Reports \cup {NoReport} : heartbeat(i, w, p)
    \/ \E i \in Jobs, outcome \in {"cancelled", "succeeded", "failed"} :
          Owned(i, w) /\ EndAttempt(i, outcome)

\* A step of a process is one transaction at most, and moves no other process.
LEMMA ProcessesTransact ==
  ASSUME WInv, NEW w \in Workers, Shell(w) \/ Handler(w)
  PROVE  /\ Transaction(w)
         /\ \A u \in Workers : u # w => proc'[u] = proc[u]
         /\ faults' \in {faults, faults + 1}
  <1>1. CASE Recover(w) \/ Acknowledge(w)
    BY <1>1 DEF Recover, Acknowledge, Replied, Go, NoFault, Fault, Transaction, WInv
  <1>2. CASE Claim(w)
    BY <1>2 DEF Claim, Go, NoFault, Fault, Transaction, WInv
  <1>3. CASE Succeed(w) \/ Fail(w) \/ AcknowledgeCancellation(w)
    <2>1. PICK i \in Jobs : i = proc[w].job
      BY <1>3 DEF WInv, ProcOK, Succeed, Fail, AcknowledgeCancellation, Executing
    <2>2. Transaction(w)
      BY <1>3, <2>1
         DEF Succeed, Fail, AcknowledgeCancellation, Refused, succeed, fail,
             acknowledge_cancellation, UnlessCancelled, Transaction
    <2>3. Replied(w, "join") \/ Refused(w)
      BY <1>3 DEF Succeed, Fail, AcknowledgeCancellation
    <2> QED
      BY <2>2, <2>3 DEF Replied, Refused, Go, NoFault, Fault, WInv
  <1>4. CASE BeatEnds(w) \/ \E p \in Reports : ReportAccepted(w, p)
    <2>1. PICK i \in Jobs : i = proc[w].job
      BY <1>4 DEF WInv, ProcOK, BeatEnds, ReportAccepted, At, Executing
    <2>2. Transaction(w)
      BY <1>4, <2>1 DEF BeatEnds, ReportAccepted, Transaction
    <2> QED
      BY <1>4, <2>2 DEF BeatEnds, ReportAccepted, NoFault, Fault, WInv
  <1>5. CASE BeatBegins(w) \/ DatabaseError(w) \/ Join(w) \/ Crash(w) \/ Restart(w)
    BY <1>5 DEF BeatBegins, DatabaseError, Join, Crash, Restart, Go, NoFault, Fault, Transaction,
                WInv
  <1>6. CASE \E next \in Executing : HandlerEnds(w, next)
    BY <1>6 DEF HandlerEnds, Go, NoFault, Transaction, WInv
  <1> QED
    BY <1>1, <1>2, <1>3, <1>4, <1>5, <1>6 DEF Shell, MainStep, Handler

\* A call that ends an attempt heard to its end is not refused.
LEMMA EndsAreAccepted ==
  ASSUME WInv, NEW u \in Workers, proc[u].pc \in Busy, HeldFast(proc[u].job, u)
  PROVE  /\ CanEnd(u, UnlessCancelled(proc[u].job, "succeeded"))
         /\ CanEnd(u, UnlessCancelled(proc[u].job, "failed"))
         /\ proc[u].seen => CanEnd(u, "cancelled")
  <1>1. PICK j \in Jobs : j = proc[u].job
    BY DEF WInv, ProcOK, Executing, Busy
  <1>2. job[j].worker = u /\ job[j].status \in {"running", "cancel_requested"}
    BY <1>1 DEF HeldFast, InProgress
  <1>3. proc[u].seen => job[j].status = "cancel_requested"
    <2>1. ProcOK(proc[u], job[j], attempts[j], u) /\ proc[u].pc \in Executing
      BY <1>1 DEF WInv, Executing, Busy
    <2>2. job[j].attempt = proc[u].attempt
      <3>1. Held(job[j])
        BY <1>2, QueueAssumption DEF Held, QueueAssumption
      <3> QED
        BY <1>1, <1>2, <2>1, <3>1, OwnAttempt DEF Owned
    <2> QED
      BY <1>2, <2>1, <2>2 DEF ProcOK, Stopping
  <1> QED
    BY <1>1, <1>2, <1>3
       DEF CanEnd, Mine, Owned, UnlessCancelled, validate_transition, AllowedTransitions

\* A worker whose attempt goes on, or begins, holds its job fast.
LEMMA OwnAttemptIsHeard ==
  ASSUME WInv, AttemptsAreHeard, ~MayPause, faults = 0, faults' = 0,
         NEW u \in Workers, Shell(u) \/ Handler(u), proc'[u].pc \in Busy
  PROVE  HeldFast(proc[u].job, u)' /\ proc'[u].beat \in {"asleep", "calling"}
  <1>1. proc[u] \in Process /\ proc \in [Workers -> Process] /\ job \in [Jobs -> JobRow]
    BY DEF WInv, IInv, Shape
  <1>2. ~Fault
    BY DEF Fault
  <1>3. ASSUME NEW pc, Go(u, pc) PROVE pc \in Busy
    <2>1. proc'[u] = IF pc \in Executing THEN [proc[u] EXCEPT !.pc = pc] ELSE At(pc)
      BY <1>1, <1>3 DEF Go
    <2> QED
      BY <1>1, <2>1 DEF At, Process, Busy, Executing
  <1>4. CASE Claim(u)
    <2>1. PICK j \in Jobs :
             claim_next(j, u, Supported, {}) /\ proc' = [proc EXCEPT ![u] = Begun(u, j)]
      BY <1>2, <1>3, <1>4 DEF Claim, Busy
    <2>2. proc'[u].job = j /\ proc'[u].beat = "asleep"
      BY <1>1, <2>1 DEF Begun
    <2>3. job'[j] = Claimed(job[j], u)
      BY <1>1, <2>1 DEF claim_next
    <2> QED
      BY <2>2, <2>3 DEF HeldFast, InProgress, Claimed
  <1>5. CASE BeatBegins(u) \/ BeatEnds(u) \/ \E p \in Reports : ReportAccepted(u, p)
    <2>1. proc[u].pc \in Busy /\ proc'[u].job = proc[u].job
      BY <1>1, <1>5 DEF BeatBegins, BeatEnds, ReportAccepted, Process, Busy, Executing
    <2>2. HeldFast(proc[u].job, u) /\ proc[u].beat \in {"asleep", "calling"}
      BY <2>1 DEF AttemptsAreHeard
    <2>3. PICK j \in Jobs : j = proc[u].job
      BY <2>1 DEF WInv, ProcOK, Executing, Busy
    <2>4. Mine(u) /\ InProgress(proc[u].job)
      BY <2>2 DEF HeldFast, Mine, Owned
    <2>5. \/ UNCHANGED vars
          \/ \E p \in Reports \cup {NoReport} : heartbeat(j, u, p)
      BY <1>5, <2>3 DEF BeatBegins, BeatEnds, ReportAccepted
    <2>6. HeldFast(j, u)'
      BY <2>2, <2>3, <2>5, HeldFastStays, {} \in SUBSET Jobs DEF WInv
    <2>7. proc'[u].beat \in {"asleep", "calling"}
      BY <1>1, <1>2, <1>5, <2>2, <2>4 DEF BeatBegins, BeatEnds, ReportAccepted, Process
    <2> QED
      BY <2>1, <2>3, <2>6, <2>7 DEF HeldFast, InProgress
  <1>6. CASE \E next \in Executing : HandlerEnds(u, next)
    <2>1. PICK next \in Executing : HandlerEnds(u, next)
      BY <1>6
    <2>2. proc[u].pc = "handler" /\ Go(u, next) /\ job' = job
      BY <2>1 DEF HandlerEnds, vars
    <2>3. HeldFast(proc[u].job, u) /\ proc[u].beat \in {"asleep", "calling"}
      BY <2>2 DEF AttemptsAreHeard, Busy
    <2>4. proc'[u].job = proc[u].job /\ proc'[u].beat = proc[u].beat
      BY <1>1, <2>1, <2>2 DEF Go, Process
    <2> QED
      BY <2>2, <2>3, <2>4 DEF HeldFast, InProgress
  <1>7. ~(Recover(u) \/ Acknowledge(u))
    BY <1>2, <1>3 DEF Recover, Acknowledge, Replied, Busy
  <1>8. ~(Succeed(u) \/ Fail(u) \/ AcknowledgeCancellation(u) \/ DatabaseError(u))
    <2>1. ~Go(u, "join") /\ ~Go(u, "unwind")
      BY <1>3 DEF Busy
    <2>2. Succeed(u) => CanEnd(u, UnlessCancelled(proc[u].job, "succeeded"))
      <3>1. Succeed(u) => proc[u].pc \in Busy
        BY DEF Succeed, Busy
      <3> QED
        BY <3>1, EndsAreAccepted DEF AttemptsAreHeard
    <2> QED
      BY <1>2, <2>1, <2>2
         DEF Succeed, Fail, AcknowledgeCancellation, DatabaseError, Replied, Refused, OnError
  <1>9. ~(Join(u) \/ Crash(u) \/ Restart(u))
    BY <1>3 DEF Join, Crash, Restart, Busy
  <1> QED
    BY <1>4, <1>5, <1>6, <1>7, <1>8, <1>9 DEF Shell, MainStep, Handler

\* AttemptsAreHeard is inductive, given WInv.
LEMMA HeardStep ==
  WInv /\ AttemptsAreHeard /\ [SystemNext]_systemVars => AttemptsAreHeard'
  <1> SUFFICES ASSUME WInv, AttemptsAreHeard, [SystemNext]_systemVars, ~MayPause, faults' = 0,
                      NEW u \in Workers, proc'[u].pc \in Busy
               PROVE  HeldFast(proc[u].job, u)' /\ proc'[u].beat \in {"asleep", "calling"}
    BY DEF AttemptsAreHeard
  <1>1. faults = 0
    <2>1. faults' \in {faults, faults + 1}
      BY ProcessesTransact DEF SystemNext, workerVars, systemVars
    <2> QED
      BY <2>1 DEF WInv, Counters
  <1>2. ASSUME proc'[u] = proc[u], NEW w \in Workers, w # u, Transaction(w)
        PROVE  HeldFast(proc[u].job, u)' /\ proc'[u].beat \in {"asleep", "calling"}
    <2>1. HeldFast(proc[u].job, u) /\ proc[u].beat \in {"asleep", "calling"}
      BY <1>1, <1>2 DEF AttemptsAreHeard
    <2>2. PICK j \in Jobs : j = proc[u].job
      BY <1>2 DEF WInv, ProcOK, Executing, Busy
    <2>3. HeldFast(j, u)'
      BY <1>2, <2>1, <2>2, HeldFastStays, {} \in SUBSET Jobs DEF WInv, Transaction
    <2> QED
      BY <1>2, <2>1, <2>2, <2>3 DEF HeldFast, InProgress
  <1>3. ASSUME NEW w \in Workers, Shell(w) \/ Handler(w)
        PROVE  HeldFast(proc[u].job, u)' /\ proc'[u].beat \in {"asleep", "calling"}
    <2>1. CASE w = u
      BY <1>1, <1>3, <2>1, OwnAttemptIsHeard
    <2>2. CASE w # u
      BY <1>2, <1>3, <2>2, ProcessesTransact
    <2> QED
      BY <2>1, <2>2
  <1>4. ASSUME proc' = proc,
               \/ ClientCall \/ UNCHANGED vars
               \/ \E i \in Jobs : RowExpires(i)
        PROVE  HeldFast(proc[u].job, u)' /\ proc'[u].beat \in {"asleep", "calling"}
    <2>1. HeldFast(proc[u].job, u) /\ proc[u].beat \in {"asleep", "calling"}
      BY <1>1, <1>4 DEF AttemptsAreHeard
    <2>2. PICK j \in Jobs : j = proc[u].job
      BY <1>4 DEF WInv, ProcOK, Executing, Busy
    <2>3. Attended(j)
      BY <2>1, <2>2 DEF Attended, HeldFast, Mine, Owned
    <2>4. HeldFast(j, u)'
      BY <1>4, <2>1, <2>2, <2>3, HeldFastStays, {} \in SUBSET Jobs DEF WInv, RowExpires
    <2> QED
      BY <1>4, <2>1, <2>2, <2>4 DEF HeldFast, InProgress
  <1> QED
    BY <1>3, <1>4 DEF SystemNext, systemVars, workerVars, vars

\* While no process pauses and no call fails, two handlers never run the same job.
THEOREM OneHandlerPerJob == SystemSpec => []OneExecutor
  <1>1. SystemInit => AttemptsAreHeard
    BY DEF SystemInit, AttemptsAreHeard, At, Busy
  <1>2. AttemptsAreHeard => OneExecutor
    BY DEF AttemptsAreHeard, HeldFast, OneExecutor, Busy
  <1> QED
    BY <1>1, <1>2, HeardStep, SystemInvariant, PTL DEF SystemSpec

-----------------------------------------------------------------------------
\* What handlers may rely on.

\* A running handler has a job and an attempt of it.
LEMMA HandlersHaveJobs ==
  ASSUME WInv, NEW w \in Workers, proc[w].pc = "handler"
  PROVE  /\ proc[w].job \in Jobs /\ Exists(proc[w].job)
         /\ proc[w].attempt \in 1..AttemptLimit /\ AttemptLimit \in Nat
  <1>1. /\ proc[w].job \in Jobs
        /\ Began(job[proc[w].job], attempts[proc[w].job], proc[w].attempt, w)
    BY DEF WInv, ProcOK, Executing
  <1>2. PICK j \in Jobs : j = proc[w].job
    BY <1>1
  <1>3. JobOK(job[j], request[j], attempts[j]) /\ AttemptLimit \in Nat
    BY QueueAssumption DEF WInv, IInv, QueueAssumption
  <1>4. job[j].attempt \in 0..AttemptLimit /\ proc[w].attempt \in 1..job[j].attempt
    BY <1>1, <1>2, <1>3 DEF JobOK, RowOK, Began
  <1>5. job[j].status # "absent"
    BY <1>3, <1>4 DEF JobOK, RowOK, NoRow
  <1> QED
    BY <1>2, <1>3, <1>4, <1>5 DEF Exists

\* The shell of a process leaves a handler that goes on in its attempt.
LEMMA ShellKeepsHandler ==
  ASSUME WInv, NEW w \in Workers, Shell(w), proc[w].pc = "handler", proc'[w].pc = "handler"
  PROVE  proc'[w].job = proc[w].job /\ proc'[w].attempt = proc[w].attempt
  <1>1. proc \in [Workers -> Process]
    BY DEF WInv
  <1>2. ~MainStep(w) /\ ~DatabaseError(w)
    BY DEF MainStep, Recover, Acknowledge, Claim, Succeed, Fail, AcknowledgeCancellation, Join,
           Restart, DatabaseError, OnError
  <1>3. ~Crash(w)
    BY <1>1 DEF Crash, Go, At, Executing
  <1>4. BeatBegins(w) \/ BeatEnds(w)
    BY <1>2, <1>3 DEF Shell
  <1> QED
    BY <1>1, <1>4 DEF BeatBegins, BeatEnds, Process

\* What was asked for is never rewritten.
LEMMA RequestsStay ==
  ASSUME WInv, [Next]_vars, NEW j \in Jobs, Exists(j)
  PROVE  request'[j] = request[j] /\ Exists(j)'
  <1>1. JobStep(j) /\ IInv
    BY EveryStepIsAJobStep DEF WInv
  <1> QED
    BY <1>1, RowsStay DEF JobStep, Same, RowStep, ClaimStep, EndStep, Exists

\* The handler of an attempt that is acknowledged as cancelled has seen the request.
StopsAreSeen == \A w \in Workers : proc[w].pc = "acknowledge_cancellation" => proc[w].seen

\* StopsAreSeen is inductive.
LEMMA StopsStaySeen ==
  ASSUME WInv, StopsAreSeen, [SystemNext]_systemVars
  PROVE  StopsAreSeen'
  <1> SUFFICES ASSUME NEW u \in Workers, proc'[u].pc = "acknowledge_cancellation"
               PROVE  proc'[u].seen
    BY DEF StopsAreSeen
  <1>1. proc \in [Workers -> Process]
    BY DEF WInv
  <1>2. CASE proc'[u] = proc[u]
    BY <1>2 DEF StopsAreSeen
  <1>3. ASSUME NEW pc, Go(u, pc) PROVE pc = "acknowledge_cancellation" /\ proc'[u].seen = proc[u].seen
    <2>1. proc'[u] = IF pc \in Executing THEN [proc[u] EXCEPT !.pc = pc] ELSE At(pc)
      BY <1>1, <1>3 DEF Go
    <2> QED
      BY <1>1, <2>1 DEF At, Process, Executing
  <1>4. CASE Shell(u)
    <2>1. CASE Claim(u)
      <3>1. ~Go(u, "stopped") /\ ~Go(u, "recover")
        BY <1>3
      <3>2. PICK j \in Jobs : proc' = [proc EXCEPT ![u] = Begun(u, j)]
        BY <2>1, <3>1 DEF Claim
      <3> QED
        BY <1>1, <3>2 DEF Begun
    <2>2. CASE BeatBegins(u) \/ BeatEnds(u)
      BY <1>1, <2>2 DEF BeatBegins, BeatEnds, StopsAreSeen, Process
    <2>3. CASE (MainStep(u) /\ ~Claim(u)) \/ DatabaseError(u) \/ Crash(u)
      <3>1. \A pc \in {"acknowledge", "claim", "join", "unwind", "fail", "stopped", "recover"} :
               ~Go(u, pc)
        BY <1>3
      <3> QED
        BY <2>3, <3>1
           DEF MainStep, Recover, Acknowledge, Succeed, Fail, AcknowledgeCancellation, Join,
               Restart, DatabaseError, Crash, Replied, Refused, OnError
    <2> QED
      BY <1>4, <2>1, <2>2, <2>3 DEF Shell
  <1>5. CASE Handler(u)
    <2>1. CASE \E p \in Reports : ReportAccepted(u, p)
      BY <1>1, <2>1 DEF ReportAccepted, StopsAreSeen, Process
    <2>2. ASSUME NEW next \in Executing, HandlerEnds(u, next) PROVE proc'[u].seen
      BY <1>3, <2>2 DEF HandlerEnds
    <2> QED
      BY <1>5, <2>1, <2>2 DEF Handler
  <1>6. ASSUME NEW w \in Workers, w # u, Shell(w) \/ Handler(w) PROVE proc'[u] = proc[u]
    BY <1>6, ProcessesTransact
  <1> QED
    BY <1>2, <1>4, <1>5, <1>6 DEF SystemNext, workerVars, systemVars

\* What a process does beside its handler while nothing pauses and no call fails: it claims a
\* job, its attempt goes on or is closed, it dies, or it looks after jobs that nobody has.
Claims(w) ==
    /\ proc[w].pc = "claim"
    /\ \E j \in Jobs :
          claim_next(j, w, Supported, {}) /\ proc' = [proc EXCEPT ![w] = Begun(w, j)]

GoesOnWith(w, j) ==
    /\ proc[w].pc \in Executing /\ proc[w].job = j
    /\ proc'[w].pc = proc[w].pc /\ proc'[w].job = j
    /\ UNCHANGED vars \/ heartbeat(j, w, NoReport)

Closes(w, j) ==
    /\ proc[w].pc \in Busy \ {"handler"} /\ proc[w].job = j /\ proc'[w].pc = "join"
    /\ \E outcome \in {"cancelled", "succeeded", "failed"} :
          /\ EndAttempt(j, outcome)
          /\ outcome = "succeeded" => proc[w].pc = "succeed"
          /\ outcome = "failed" => proc[w].pc = "fail"

Dies(w) == Crash(w) /\ proc'[w].pc = "stopped" /\ UNCHANGED vars

LooksAfterOthers(w) ==
    /\ proc[w].pc \notin Busy /\ proc'[w].pc \notin Busy
    /\ \/ UNCHANGED vars
       \/ \E batch \in SUBSET Jobs :
             acknowledge_unclaimed_cancellations(batch) \/ recover_stale(batch)

LEMMA CalmMoves ==
  ASSUME WInv, AttemptsAreHeard, StopsAreSeen, ~MayPause, faults = 0, faults' = 0,
         NEW w \in Workers, Shell(w)
  PROVE  \/ Claims(w) \/ Dies(w) \/ LooksAfterOthers(w)
         \/ \E j \in Jobs : GoesOnWith(w, j) \/ Closes(w, j)
  <1>1. proc[w] \in Process /\ proc \in [Workers -> Process]
    BY DEF WInv
  <1>2. ~Fault
    BY DEF Fault
  <1>3. ASSUME NEW pc, Go(w, pc)
        PROVE  proc'[w] = IF pc \in Executing THEN [proc[w] EXCEPT !.pc = pc] ELSE At(pc)
    BY <1>1, <1>3 DEF Go
  <1> DEFINE Idle == Polling \cup {"stopped"}
  <1>4. ASSUME NEW pc \in Idle, Go(w, pc) PROVE proc'[w].pc = pc
    <2>1. pc \notin Executing
      BY <1>4 DEF Polling, Executing
    <2>2. proc'[w] = At(pc)
      BY <1>1, <1>4, <2>1, Zenon DEF Go
    <2>3. At(pc).pc = pc
      BY DEF At
    <2> QED
      BY <2>2, <2>3
  <1>5. proc[w].pc \in Executing => proc[w].job \in Jobs
    BY DEF WInv, ProcOK
  <1>6. CASE Claim(w)
    <2>1. CASE Go(w, "recover") /\ UNCHANGED vars
      <3>1. proc'[w].pc = "recover" /\ proc[w].pc = "claim"
        BY <1>6, <1>4, <2>1 DEF Claim, Polling
      <3> QED
        BY <2>1, <3>1 DEF Busy, LooksAfterOthers
    <2> QED
      BY <1>2, <1>6, <2>1 DEF Claim, Claims
  <1>7. CASE Recover(w) \/ Acknowledge(w)
    <2>1. proc[w].pc \in Polling /\ \E next \in Polling : Go(w, next)
      BY <1>2, <1>7 DEF Recover, Acknowledge, Replied, Polling
    <2>2. proc'[w].pc \in Polling
      BY <1>4, <2>1
    <2>3. proc[w].pc \notin Busy /\ proc'[w].pc \notin Busy
      BY <2>1, <2>2 DEF Polling, Busy
    <2>4. \/ UNCHANGED vars
          \/ \E batch \in SUBSET Jobs :
                acknowledge_unclaimed_cancellations(batch) \/ recover_stale(batch)
      BY <1>7 DEF Recover, Acknowledge
    <2> QED
      BY <2>3, <2>4 DEF LooksAfterOthers
  <1>8. CASE BeatBegins(w) \/ BeatEnds(w)
    <2>1. proc[w].pc \in Executing
      BY <1>8 DEF WInv, BeatBegins, BeatEnds, ProcOK, At, Executing
    <2>2. proc'[w].pc = proc[w].pc /\ proc'[w].job = proc[w].job
      BY <1>1, <1>8 DEF BeatBegins, BeatEnds, Process
    <2>3. UNCHANGED vars \/ heartbeat(proc[w].job, w, NoReport)
      BY <1>8 DEF BeatBegins, BeatEnds
    <2> QED
      BY <1>5, <2>1, <2>2, <2>3 DEF GoesOnWith
  <1>9. CASE Succeed(w) \/ Fail(w) \/ AcknowledgeCancellation(w)
    <2>1. proc[w].pc \in Busy \ {"handler"} /\ proc[w].pc \in Executing
      BY <1>9 DEF Succeed, Fail, AcknowledgeCancellation, Busy, Executing
    <2>2. HeldFast(proc[w].job, w)
      BY <2>1 DEF AttemptsAreHeard
    <2>3. /\ CanEnd(w, UnlessCancelled(proc[w].job, "succeeded"))
          /\ CanEnd(w, UnlessCancelled(proc[w].job, "failed"))
          /\ proc[w].seen => CanEnd(w, "cancelled")
      BY <2>1, <2>2, EndsAreAccepted
    <2>4. proc[w].pc = "acknowledge_cancellation" => proc[w].seen
      BY DEF StopsAreSeen
    <2>5. /\ Replied(w, "join")
          /\ \/ proc[w].pc = "succeed" /\ succeed(proc[w].job, w)
             \/ proc[w].pc = "fail" /\ fail(proc[w].job, w)
             \/ acknowledge_cancellation(proc[w].job, w)
      BY <1>9, <2>3, <2>4 DEF Succeed, Fail, AcknowledgeCancellation
    <2>6. proc'[w].pc = "join"
      <3>1. Go(w, "join")
        BY <1>2, <2>5 DEF Replied
      <3> QED
        BY <1>1, <1>3, <3>1 DEF Executing, Process
    <2>7. \E outcome \in {"cancelled", "succeeded", "failed"} :
             /\ EndAttempt(proc[w].job, outcome)
             /\ outcome = "succeeded" => proc[w].pc = "succeed"
             /\ outcome = "failed" => proc[w].pc = "fail"
      BY <2>5 DEF succeed, fail, acknowledge_cancellation, UnlessCancelled
    <2> QED
      BY <1>5, <2>1, <2>6, <2>7 DEF Closes
  <1>10. ~DatabaseError(w)
    BY <1>2 DEF DatabaseError
  <1>11. CASE Join(w) \/ Restart(w)
    <2>1. proc[w].pc \notin Busy /\ UNCHANGED vars /\ \E pc \in {"recover", "stopped"} : Go(w, pc)
      BY <1>11 DEF Join, Restart, Busy
    <2>2. proc'[w].pc \in {"recover", "stopped"}
      BY <1>4, <2>1 DEF Polling
    <2> QED
      BY <2>1, <2>2 DEF LooksAfterOthers, Busy
  <1>12. CASE Crash(w)
    <2>1. proc'[w].pc = "stopped"
      BY <1>12, <1>4 DEF Crash
    <2> QED
      BY <1>12, <2>1 DEF Crash, Dies
  <1> QED
    BY <1>6, <1>7, <1>8, <1>9, <1>10, <1>11, <1>12 DEF Shell, MainStep
=============================================================================
