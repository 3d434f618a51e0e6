----------------------------- MODULE JobWorker ------------------------------
(***************************************************************************)
(* Worker processes (jobs/worker.py, worker.py) over the queue of JobQueue: *)
(* the poll loop, the handler, the heartbeat task beside it, and what each  *)
(* does when a call is refused, a call fails, a reply is lost or the        *)
(* process dies.  API clients stay as they are in JobQueue.                 *)
(*                                                                          *)
(* A handler is any code that may report progress and ends in one of three  *)
(* ways; DatasetPipeline and Experiment say what the real ones do in between. *)
(* A restarted process gets a fresh worker id in the code.  Here it keeps   *)
(* its name: it calls owner methods only for jobs it claimed after the      *)
(* restart, so no call can tell the two apart.                              *)
(***************************************************************************)
EXTENDS JobQueue

CONSTANTS
    Supported,    \* job types with a registered handler
    MayPause,     \* whether a process may stand still past worker_stale_after_seconds
    MaxCrashes,   \* bound: processes killed
    MaxFaults     \* bound: queue calls that raise a database error

ASSUME WorkerAssumption ==
    /\ Supported \subseteq JobTypes
    /\ 0 \notin Jobs
    /\ MayPause \in BOOLEAN
    /\ MaxCrashes \in Nat
    /\ MaxFaults \in Nat

VARIABLES
    proc,      \* each worker process
    crashes, faults

workerVars == <<proc, crashes, faults>>
systemVars == <<job, request, key, attempts, proc, crashes, faults>>

Polling == {"recover", "acknowledge", "claim"}

\* Where _execute can be: in the handler, in one of the three calls that end the
\* attempt, or waiting for the heartbeat task, to go on or to let an error out.
Executing == {"handler", "succeed", "fail", "acknowledge_cancellation", "join", "unwind"}

\* beat is the heartbeat task: none, asleep until the next interval, in a call, or
\* ended by an exception; seen is the cancellation event of JobExecutionContext.
Process == [pc : Polling \cup Executing \cup {"stopped"},
            job : Jobs \cup {0}, attempt : 0..AttemptLimit,
            seen : BOOLEAN, beat : {"off", "asleep", "calling", "dead"}]

At(pc) == [pc |-> pc, job |-> 0, attempt |-> 0, seen |-> FALSE, beat |-> "off"]

SystemInit ==
    /\ Init
    /\ proc = [w \in Workers |-> At("recover")]
    /\ crashes = 0
    /\ faults = 0

-----------------------------------------------------------------------------
\* Helpers.

Go(w, pc) == proc' = [proc EXCEPT ![w] = IF pc \in Executing THEN [@ EXCEPT !.pc = pc]
                                                             ELSE At(pc)]

Fault == faults < MaxFaults /\ faults' = faults + 1 /\ UNCHANGED crashes

NoFault == UNCHANGED <<crashes, faults>>

\* Faulty variants: a failed succeed is taken for done, or tried again.
OnError_Swallowed == [recover |-> "stopped", acknowledge |-> "stopped", claim |-> "stopped",
                      succeed |-> "join", fail |-> "unwind",
                      acknowledge_cancellation |-> "unwind"]

OnError_TriedAgain == [recover |-> "stopped", acknowledge |-> "stopped", claim |-> "stopped",
                       succeed |-> "succeed", fail |-> "unwind",
                       acknowledge_cancellation |-> "unwind"]

\* Where an exception out of the call takes the process: out of run_forever, into
\* _execute's except clause, or out of _execute after the heartbeat task is joined.
OnError == [recover |-> "stopped", acknowledge |-> "stopped", claim |-> "stopped",
            succeed |-> "fail", fail |-> "unwind", acknowledge_cancellation |-> "unwind"]

\* A call of the queue: it commits and returns, or commits and the reply is lost.
Replied(w, next) ==
    \/ Go(w, next) /\ NoFault
    \/ Go(w, OnError[proc[w].pc]) /\ Fault

\* The call raises and nothing is committed.
Refused(w) == Go(w, OnError[proc[w].pc]) /\ NoFault /\ UNCHANGED vars

DatabaseError(w) ==
    /\ proc[w].pc \in DOMAIN OnError
    /\ Go(w, OnError[proc[w].pc]) /\ Fault /\ UNCHANGED vars

Mine(w) == Owned(proc[w].job, w)

\* The process is still in the attempt its job row counts as current.
Executes(w) ==
    proc[w].job \in Jobs /\ Mine(w) /\ proc[w].attempt = job[proc[w].job].attempt

\* The batch a sweep takes when no other transaction holds its candidates.
FullBatch(batch, candidates) ==
    /\ batch \subseteq candidates /\ Cardinality(batch) <= BatchLimit
    /\ batch # candidates => Cardinality(batch) = BatchLimit

-----------------------------------------------------------------------------
\* run_once: recover_stale, acknowledge_unclaimed_cancellations, claim_next.

Recover(w) ==
    /\ proc[w].pc = "recover"
    /\ \E batch \in SUBSET Jobs :
          /\ FullBatch(batch, {j \in Jobs : Silent(j)})
          /\ IF batch = {} THEN UNCHANGED vars ELSE recover_stale(batch)
    /\ Replied(w, "acknowledge")

Acknowledge(w) ==
    /\ proc[w].pc = "acknowledge"
    /\ \E batch \in SUBSET Jobs :
          /\ FullBatch(batch, {j \in Jobs : Unclaimed(j)})
          /\ IF batch = {} THEN UNCHANGED vars
             ELSE acknowledge_unclaimed_cancellations(batch)
    /\ Replied(w, "claim")

\* Faulty variants: the attempt is counted twice, or one context serves the
\* process's whole life.
Begun_CountedTwice(w, j) ==
    [pc |-> "handler", job |-> j, attempt |-> job[j].attempt + 2,
     seen |-> FALSE, beat |-> "asleep"]

Begun_SameContext(w, j) ==
    [pc |-> "handler", job |-> j, attempt |-> job[j].attempt + 1,
     seen |-> \E i \in Jobs : job[i].status = "cancelled" /\ job[i].worker = w,
     beat |-> "asleep"]

\* A context of its own and a heartbeat task for the attempt just claimed.
Begun(w, j) == [pc |-> "handler", job |-> j, attempt |-> job[j].attempt + 1,
                seen |-> FALSE, beat |-> "asleep"]

Claim(w) ==
    /\ proc[w].pc = "claim"
    /\ \/ \E j \in Jobs :
             /\ claim_next(j, w, Supported, {})
             /\ \/ proc' = [proc EXCEPT ![w] = Begun(w, j)] /\ NoFault
                \/ Go(w, "stopped") /\ Fault
       \/ /\ \A j \in Jobs : ~Claimable(j, Supported)
          /\ Go(w, "recover") /\ NoFault /\ UNCHANGED vars

-----------------------------------------------------------------------------
\* The heartbeat task.  A call that the interval started is not interrupted by the
\* stop event: it may be answered after the attempt has ended.

BeatBegins(w) ==
    /\ proc[w].pc \in Executing \ {"join", "unwind"} /\ proc[w].beat = "asleep"
    /\ proc' = [proc EXCEPT ![w].beat = "calling"]
    /\ NoFault /\ UNCHANGED vars

BeatEnds(w) ==
    /\ proc[w].beat = "calling"
    /\ \/ /\ heartbeat(proc[w].job, w, NoReport)
          /\ proc' = [proc EXCEPT ![w].beat = "asleep",
                         ![w].seen = @ \/ job[proc[w].job].status = "cancel_requested"]
          /\ NoFault
       \/ /\ ~(Mine(w) /\ InProgress(proc[w].job))
          /\ proc' = [proc EXCEPT ![w].beat = "dead"]
          /\ NoFault /\ UNCHANGED vars
       \/ /\ proc' = [proc EXCEPT ![w].beat = "dead"]
          /\ Fault /\ UNCHANGED vars

-----------------------------------------------------------------------------
\* _execute.

\* context.report_progress, when the queue accepts it.
ReportAccepted(w, p) ==
    /\ proc[w].pc = "handler"
    /\ heartbeat(proc[w].job, w, p)
    /\ proc' = [proc EXCEPT
                  ![w].seen = @ \/ job[proc[w].job].status = "cancel_requested"]
    /\ NoFault

\* It returns, it raises, or it raises JobCancellationRequested at a checkpoint.
HandlerEnds(w, next) ==
    /\ proc[w].pc = "handler"
    /\ \/ next \in {"succeed", "fail"}
       \/ next = "acknowledge_cancellation" /\ proc[w].seen
    /\ Go(w, next) /\ NoFault /\ UNCHANGED vars

CanEnd(w, outcome) ==
    Mine(w) /\ validate_transition(proc[w].job, outcome)

Succeed(w) ==
    /\ proc[w].pc = "succeed"
    /\ \/ succeed(proc[w].job, w) /\ Replied(w, "join")
       \/ ~CanEnd(w, UnlessCancelled(proc[w].job, "succeeded")) /\ Refused(w)

Fail(w) ==
    /\ proc[w].pc = "fail"
    /\ \/ fail(proc[w].job, w) /\ Replied(w, "join")
       \/ ~CanEnd(w, UnlessCancelled(proc[w].job, "failed")) /\ Refused(w)

AcknowledgeCancellation(w) ==
    /\ proc[w].pc = "acknowledge_cancellation"
    /\ \/ acknowledge_cancellation(proc[w].job, w) /\ Replied(w, "join")
       \/ ~CanEnd(w, "cancelled") /\ Refused(w)

\* await heartbeat_task: the task ends once no call is under way.
BeatIsOver(w) == proc[w].beat # "calling"

\* The task's own exception comes out here, and takes the process down.
Join(w) ==
    /\ proc[w].pc \in {"join", "unwind"} /\ BeatIsOver(w)
    /\ IF proc[w].pc = "join" /\ proc[w].beat # "dead" THEN Go(w, "recover")
                                                       ELSE Go(w, "stopped")
    /\ NoFault /\ UNCHANGED vars

Crash(w) ==
    /\ proc[w].pc # "stopped" /\ crashes < MaxCrashes
    /\ Go(w, "stopped")
    /\ crashes' = crashes + 1 /\ UNCHANGED faults /\ UNCHANGED vars

\* restart: unless-stopped
Restart(w) == proc[w].pc = "stopped" /\ Go(w, "recover") /\ NoFault /\ UNCHANGED vars

-----------------------------------------------------------------------------
\* Somebody still sends heartbeats for the job.
Attended(j) == \E w \in Workers : proc[w].job = j /\ Mine(w)
                                 /\ proc[w].beat \in {"asleep", "calling"}

\* The clock.  The heartbeat interval is shorter than worker_stale_after_seconds
\* (config.py insists), so an attended row falls behind only if its process pauses.
RowExpires(j) == (MayPause \/ ~Attended(j)) /\ HeartbeatExpires(j)

MainStep(w) ==
    \/ Recover(w) \/ Acknowledge(w) \/ Claim(w)
    \/ Succeed(w) \/ Fail(w) \/ AcknowledgeCancellation(w)
    \/ Join(w) \/ Restart(w)

\* Everything a process does but its handler's own work.
Shell(w) == MainStep(w) \/ BeatBegins(w) \/ BeatEnds(w) \/ DatabaseError(w) \/ Crash(w)

Handler(w) ==
    \/ \E p \in Reports : ReportAccepted(w, p)
    \/ \E next \in Executing : HandlerEnds(w, next)

SystemNext ==
    \/ \E w \in Workers : Shell(w) \/ Handler(w)
    \/ ClientCall /\ UNCHANGED workerVars
    \/ \E j \in Jobs : RowExpires(j) /\ UNCHANGED workerVars

SystemSpec == SystemInit /\ [][SystemNext]_systemVars

\* Processes run and are restarted, handlers end, calls are answered, and time
\* passes: without heartbeats a row becomes overdue.  Clients, crashes, errors and
\* the expiry of a living worker's heartbeat may or may not happen.
Fairness ==
    /\ \A w \in Workers :
          /\ WF_systemVars(MainStep(w))
          /\ WF_systemVars(\E next \in Executing : HandlerEnds(w, next))
          /\ WF_systemVars(BeatEnds(w))
    /\ \A j \in Jobs :
          WF_systemVars(~Attended(j) /\ HeartbeatExpires(j) /\ UNCHANGED workerVars)

FairSystem == SystemSpec /\ Fairness

-----------------------------------------------------------------------------
\* Properties.

WorkerTypeOK ==
    /\ TypeOK
    /\ proc \in [Workers -> Process]
    /\ crashes \in 0..MaxCrashes /\ faults \in 0..MaxFaults

\* Whatever was lost or delayed, the outcome written for an attempt is the one that
\* its own worker's handler reached in that very attempt, and only the process still
\* executing the attempt keeps it alive: the queue compares worker ids, not attempt
\* numbers, and a worker whose job was taken away can come back to the same job.
WritesComeFromTheAttempt ==
    [][\A j \in Jobs : Active(j) =>
          LET w == job[j].worker
              executes == proc[w].job = j /\ proc[w].attempt = job[j].attempt
              outcome == attempts'[j][job[j].attempt].status
          IN  /\ outcome = "succeeded" => executes /\ proc[w].pc = "succeed"
              /\ outcome = "failed" => executes /\ proc[w].pc = "fail"
              /\ job[j].heartbeat = "overdue" /\ Active(j)' /\ job'[j].heartbeat = "fresh"
                    => executes]_systemVars

\* A handler is stopped for a cancellation only in an attempt a client wanted to stop:
\* while the attempt is the worker's, its row asks for it or already shows it.  The
\* event is never left over from an earlier attempt or another job, and the retry of a
\* cancelled job's neighbour does not begin cancelled.
CancellationsAreWanted ==
    \A w \in Workers :
        LET j == proc[w].job
        IN  proc[w].seen /\ Executes(w) => job[j].status \in {"cancel_requested", "cancelled"}

\* While no process pauses and no call fails, a job is never in two handlers at once,
\* whoever crashes when: recovery hands a job on only after its handler is gone.
OneExecutor ==
    ~MayPause /\ faults = 0 =>
        \A u, w \in Workers :
            proc[u].pc = "handler" /\ proc[w].pc = "handler" /\ u # w
                => proc[u].job # proc[w].job

\* A process that has ended its attempt without an error leaves nothing of it behind:
\* the attempt row is closed, whether this call closed it, a lost reply hid that an
\* earlier call had, or a sweep did.
JoinedMeansClosed ==
    \A w \in Workers :
        proc[w].pc = "join" => attempts[proc[w].job][proc[w].attempt].status # "running"

\* A supported job that was accepted comes to an end although workers die, lose
\* their job or their database connection, and a requested stop is always answered.
JobsSettle ==
    \A j \in Jobs :
        (Exists(j) /\ request[j].type \in Supported)
            ~> job[j].status \in {"succeeded", "failed", "cancelled"}

\* A process whose job was taken away, or whose heartbeat task died, is back at work
\* in the end: no handler, join or refused call holds it for ever.
WorkersComeBack == \A w \in Workers : []<>(proc[w].pc = "recover")
=============================================================================
