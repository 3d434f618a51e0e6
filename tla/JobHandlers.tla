---------------------------- MODULE JobHandlers -----------------------------
(***************************************************************************)
(* What the real handlers have in common: they run step by step between the *)
(* claim and the end of the attempt, report progress at checkpoints, and    *)
(* end by returning or by letting an exception out.  Each step is a         *)
(* transaction of their own repositories; no step looks at the job's row.   *)
(***************************************************************************)
EXTENDS JobWorker

CONSTANTS
    StagedAttempts,  \* max_attempts of the jobs that staging creates: 3
    CallsMayFail     \* whether repository calls may raise database errors

ASSUME HandlerAssumption ==
    /\ StagedAttempts \in 1..AttemptLimit
    /\ CallsMayFail \in BOOLEAN

VARIABLE step  \* where each process's handler is

handlerVars == <<systemVars, step>>

HandlerInit == SystemInit /\ step = [w \in Workers |-> "idle"]

Staged(type, payload) == [type |-> type, payload |-> payload,
                          priority |-> 0, maxAttempts |-> StagedAttempts]

InHandlerAt(w, s) == proc[w].pc = "handler" /\ step[w] = s

Continue(w, s) == step' = [step EXCEPT ![w] = s]

\* A step that leaves the queue and the processes alone.
Local == UNCHANGED systemVars

\* context.report_progress: accepted, accepted with the news of a cancellation, or
\* refused, for the job is no longer this worker's or the number is out of range.
Reported(w, p, next, cancelled, refused) ==
    \/ ReportAccepted(w, p) /\ Continue(w, IF proc'[w].seen THEN cancelled ELSE next)
    \/ /\ ~(Mine(w) /\ InProgress(proc[w].job) /\ p \in RunningProgress)
       /\ Continue(w, refused) /\ Local

\* The handler is over: it returns or lets an exception out.
Finish(w) ==
    /\ \/ InHandlerAt(w, "return") /\ HandlerEnds(w, "succeed")
       \/ InHandlerAt(w, "raise") /\ HandlerEnds(w, "fail")
       \/ InHandlerAt(w, "raise_cancelled") /\ HandlerEnds(w, "acknowledge_cancellation")
    /\ Continue(w, "idle")

\* The rest of the worker.  A claim starts a handler, a crash ends it wherever it is.
ShellStep(w) ==
    /\ Shell(w)
    /\ Continue(w, IF proc'[w].pc # "handler" THEN "idle"
                   ELSE IF proc[w].pc = "handler" THEN step[w] ELSE "prepare")

\* request_cancel and retry through the jobs API.
JobCall ==
    /\ \E j \in Jobs : request_cancel(j) \/ retry(j)
    /\ UNCHANGED <<workerVars, step>>

TimePasses == \E j \in Jobs : RowExpires(j) /\ UNCHANGED <<workerVars, step>>

HandlerTypeOK ==
    /\ WorkerTypeOK
    /\ \A w \in Workers : step[w] = "idle" <=> proc[w].pc # "handler"
=============================================================================
