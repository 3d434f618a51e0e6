-------------------------- MODULE PipelineProofs ---------------------------
(***************************************************************************)
(* Imports and transformations on the workers of JobWorker, for any number  *)
(* of jobs, workers, batches and attempts.  What is shown of every run      *)
(* comes first, then what needs heartbeats that are heard.  Processes crash *)
(* at any step and repository calls fail throughout.                        *)
(***************************************************************************)
EXTENDS DatasetPipeline, JobWorkerProofs, WellFoundedInduction

Shaped ==
    /\ version \in [Jobs -> VersionStatuses] /\ run \in [Jobs -> RunStatuses]
    /\ stored \in [Jobs -> SUBSET Batches] /\ report \in [Jobs -> SUBSET Batches]
    /\ step \in [Workers -> Steps] /\ work \in [Workers -> Work]

\* Jobs are what staging asked for.
Asked(j) ==
    Exists(j) => \/ request[j] = ImportRequest
                 \/ \E s \in Jobs : request[j] = TransformationRequest(s)

\* A handler is somewhere while it runs, and only transformations load a source.
Placed(w) ==
    /\ step[w] = "idle" <=> proc[w].pc # "handler"
    /\ step[w] = "load" => ~IsImport(w)

\* The inductive invariant of every run.
PInv ==
    /\ WInv /\ StopsAreSeen /\ AttemptsAreHeard
    /\ Shaped /\ \A j \in Jobs : Asked(j)
    /\ \A w \in Workers : Placed(w)

-----------------------------------------------------------------------------
\* The handlers are instances of JobWorker's.

\* Only a running handler takes its steps.
LEMMA InHandler ==
  ASSUME NEW w \in Workers, HandlerStep(w)
  PROVE  proc[w].pc = "handler"
BY DEF HandlerStep, InHandlerAt, PrepareImport, PrepareTransformation, Prepare, UnknownInterval,
       Open, Load, Insert, Interrupted, LoopEnds, Report, CompleteImport, CompleteTransformation,
       Complete, Evaluate, SaveReport, Last, MarkFailed, MarkCancelled, CallFails

\* A handler's step is at most a progress report.
LEMMA HandlersReport ==
  ASSUME NEW w \in Workers, HandlerStep(w)
  PROVE  Local \/ \E p \in Reports : ReportAccepted(w, p)
<1>1. 1 \in Reports /\ 99 \in Reports
  BY PipelineAssumption DEF PipelineAssumption
<1>2. CASE Report(w) \/ Last(w)
  BY <1>1, <1>2 DEF Report, Last, Reported
<1>3. CASE ~(Report(w) \/ Last(w))
  BY <1>3
     DEF HandlerStep, PrepareImport, PrepareTransformation, Prepare, UnknownInterval, Open, Load,
         Insert, Interrupted, LoopEnds, CompleteImport, CompleteTransformation, Complete,
         Evaluate, SaveReport, MarkFailed, MarkCancelled, CallFails
<1> QED  BY <1>2, <1>3

\* The rest of what a process does is the shell's, or the end of its handler.
LEMMA AroundIsSystem ==
  ASSUME NEW w \in Workers, Around(w)
  PROVE  Shell(w) \/ Handler(w)
<1>1. {"succeed", "fail", "acknowledge_cancellation"} \subseteq Executing
  BY DEF Executing
<1> QED  BY <1>1 DEF Around, Finish, ShellStep, Handler

\* The handlers' calls of the queue, staging and clients are those JobWorker has.
LEMMA EveryStepIsASystemStep ==
  ASSUME PipelineNext
  PROVE  SystemNext \/ UNCHANGED systemVars
<1>1. ASSUME NEW w \in Workers, HandlerStep(w) PROVE SystemNext \/ UNCHANGED systemVars
  BY <1>1, HandlersReport DEF SystemNext, Handler, Local
<1>2. ASSUME NEW w \in Workers, Around(w) PROVE SystemNext
  BY <1>2, AroundIsSystem DEF SystemNext
<1>3. CASE Stage
  <2>1. ImportRequest \in Requests /\ \A s \in Jobs : TransformationRequest(s) \in Requests
    BY PipelineAssumption DEF PipelineAssumption
  <2> QED
    BY <1>3, <2>1 DEF Stage, StageImport, StageTransformation, SystemNext, ClientCall
<1>4. CASE JobCall \/ TimePasses
  BY <1>4 DEF JobCall, TimePasses, SystemNext, ClientCall
<1> QED  BY <1>1, <1>2, <1>3, <1>4 DEF PipelineNext

\* Imports and transformations use the queue as JobWorker allows: everything proved about the
\* queue and its workers holds of the jobs behind dataset versions.
THEOREM PipelinesImplementSystem == PipelineSpec => SystemSpec
<1>1. PipelineInit => SystemInit
  BY DEF PipelineInit, HandlerInit
<1>2. [PipelineNext]_pipelineVars => [SystemNext]_systemVars
  BY EveryStepIsASystemStep DEF pipelineVars, handlerVars
<1> QED  BY <1>1, <1>2, PTL DEF PipelineSpec, SystemSpec

-----------------------------------------------------------------------------
\* What a handler's step does to its own job and its local variables.

\* It leaves everything of others alone.
OnlyHere(w, j) ==
    /\ version' = [version EXCEPT ![j] = version'[j]]
    /\ run' = [run EXCEPT ![j] = run'[j]]
    /\ stored' = [stored EXCEPT ![j] = stored'[j]]
    /\ report' = [report EXCEPT ![j] = report'[j]]
    /\ step' = [step EXCEPT ![w] = step'[w]]
    /\ work' = [work EXCEPT ![w] = work'[w]]

\* A handler's step writes to its own job's version and its own variables only.
LEMMA Frame ==
  ASSUME Shaped, NEW w \in Workers, NEW j \in Jobs, proc[w].job = j, HandlerStep(w)
  PROVE  OnlyHere(w, j)
<1> USE DEF OnlyHere, Shaped, Continue, SetVersion, SetRun, ToInsert
<1>1. CASE PrepareImport(w) \/ PrepareTransformation(w)
  BY <1>1 DEF PrepareImport, PrepareTransformation, Prepare
<1>2. CASE UnknownInterval(w) \/ Interrupted(w) \/ LoopEnds(w) \/ CallFails(w)
  BY <1>2 DEF UnknownInterval, Interrupted, LoopEnds, CallFails, data
<1>3. CASE Open(w) \/ Load(w)
  BY <1>3 DEF Open, Load, data
<1>4. CASE Insert(w)
  BY <1>4 DEF Insert
<1>5. CASE Report(w) \/ Last(w)
  BY <1>5 DEF Report, Last, Reported, data
<1>6. CASE CompleteImport(w) \/ CompleteTransformation(w)
  BY <1>6 DEF CompleteImport, CompleteTransformation, Complete
<1>7. CASE Evaluate(w) \/ SaveReport(w)
  BY <1>7 DEF Evaluate, SaveReport, data
<1>8. CASE MarkFailed(w) \/ MarkCancelled(w)
  BY <1>8 DEF MarkFailed, MarkCancelled
<1> QED  BY <1>1, <1>2, <1>3, <1>4, <1>5, <1>6, <1>7, <1>8 DEF HandlerStep

\* The steps of a handler, by what they do.
Starts(w, j) ==
    /\ step[w] = "prepare" /\ run'[j] = "running" /\ stored'[j] = {}
    /\ UNCHANGED <<report, work>>
    /\ \/ IsImport(w) /\ version'[j] = "importing" /\ step'[w] = "open"
       \/ ~IsImport(w) /\ version'[j] = "transforming" /\ step'[w] = "load"

Quits(w) ==
    /\ step[w] \in {"prepare", "load", "insert", "report"}
    /\ step'[w] \in {"mark_failed", "mark_cancelled"}
    /\ UNCHANGED <<data, work>>

Stumbles(w) ==
    /\ CallsMayFail /\ step[w] \notin {"return", "raise", "raise_cancelled"}
    /\ step'[w] \in {"mark_failed", "raise"}
    /\ IsImport(w) /\ step[w] = "last" => step'[w] = "raise"
    /\ UNCHANGED <<data, work>>

Reads(w, batches) ==
    /\ step[w] \in {"open", "load"} /\ step'[w] = "insert"
    /\ step[w] = "load" => batches = stored[Source(w)]
    /\ step[w] = "open" => batches = Batches
    /\ work'[w] = [work[w] EXCEPT !.left = batches]
    /\ UNCHANGED data

Inserts(w, j, n) ==
    /\ step[w] = "insert" /\ step'[w] = "report"
    /\ stored'[j] = stored[j] \cup {n}
    /\ work'[w] = [work[w] EXCEPT !.left = work[w].left \ {n}]
    /\ UNCHANGED <<version, run, report>>

Loops(w) ==
    /\ \/ step[w] = "report" /\ step'[w] = "insert"
       \/ /\ step[w] = "insert" /\ work[w].left = {}
          /\ step'[w] = IF IsImport(w) THEN "complete" ELSE "last"
    /\ UNCHANGED <<data, work>>

\* The last report.
Concludes(w, j) ==
    /\ step[w] = "last"
    /\ \/ IsImport(w) /\ step'[w] \in {"return", "raise_cancelled"}
       \/ IsImport(w) /\ step'[w] = "raise" /\ ~(Owned(j, w) /\ InProgress(j))
       \/ ~IsImport(w) /\ step'[w] \in {"complete", "mark_cancelled", "mark_failed"}
    /\ UNCHANGED <<data, work>>

Completes(w, j) ==
    /\ step[w] = "complete" /\ run'[j] = "completed"
    /\ UNCHANGED <<stored, report, work>>
    /\ \/ IsImport(w) /\ version'[j] = "imported" /\ step'[w] = "evaluate"
       \/ ~IsImport(w) /\ version'[j] = "ready" /\ step'[w] = "return"

Evaluates(w, j) ==
    /\ step[w] = "evaluate" /\ step'[w] = "save"
    /\ work'[w] = [work[w] EXCEPT !.loaded = stored[j]]
    /\ UNCHANGED data

Saves(w, j) ==
    /\ step[w] = "save" /\ step'[w] = "last"
    /\ report'[j] = work[w].loaded /\ version'[j] = "ready_for_transformation"
    /\ UNCHANGED <<run, stored, work>>

Marks(w, j) ==
    /\ \/ step'[w] = "raise" /\ step[w] = "mark_failed" /\ run'[j] = "failed"
       \/ step'[w] = "raise_cancelled" /\ step[w] = "mark_cancelled" /\ run'[j] = "cancelled"
    /\ version'[j] = "failed"
    /\ UNCHANGED <<stored, report, work>>

\* The next batch is one of those that are left.
LEMMA FirstBatch ==
  ASSUME NEW w \in Workers, work[w].left \subseteq Batches, work[w].left # {}
  PROVE  NextBatch(w) \in work[w].left
<1> DEFINE S == work[w].left
<1>1. S \subseteq Nat
  BY PipelineAssumption DEF PipelineAssumption
<1>2. IsWellFoundedOn(OpToRel(<, Nat), Nat)
  BY NatLessThanWellFounded
<1>3. PICK n \in S : \A m \in S : ~ (<<m, n>> \in OpToRel(<, Nat))
  <2> HIDE DEF S
  <2>1. S # {}
    BY DEF S
  <2> QED  BY <1>1, <1>2, <2>1, WFMin
<1>4. \A m \in S : ~ (m < n)
  BY <1>1, <1>3 DEF OpToRel
<1>5. \A m \in S : n <= m
  BY <1>1, <1>4
<1> QED  BY <1>5 DEF NextBatch

\* A handler's step is one of these.
LEMMA Effects ==
  ASSUME Shaped, NEW w \in Workers, NEW j \in Jobs, proc[w].job = j, HandlerStep(w)
  PROVE  \/ Starts(w, j) \/ Quits(w) \/ Stumbles(w) \/ Loops(w)
         \/ Concludes(w, j) \/ Completes(w, j) \/ Evaluates(w, j) \/ Saves(w, j) \/ Marks(w, j)
         \/ \E batches : Reads(w, batches)
         \/ \E n \in Batches : Inserts(w, j, n)
<1> USE DEF Shaped, Continue, SetVersion, SetRun, ToInsert, InHandlerAt
<1>1. CASE PrepareImport(w) \/ PrepareTransformation(w)
  BY <1>1 DEF PrepareImport, PrepareTransformation, Prepare, Starts
<1>2. CASE UnknownInterval(w) \/ Interrupted(w)
  BY <1>2 DEF UnknownInterval, Interrupted, Quits
<1>3. CASE CallFails(w)
  <2>1. /\ Except(w) \in {"raise", "mark_failed"}
        /\ IsImport(w) /\ step[w] = "last" => Except(w) = "raise"
    BY DEF Except
  <2> QED  BY <1>3, <2>1 DEF CallFails, Stumbles
<1>4. CASE Open(w)
  BY <1>4 DEF Open, Reads
<1>5. CASE Load(w)
  BY <1>5 DEF Load, Reads, Quits
<1>6. CASE Insert(w)
  <2>1. work[w].left \subseteq Batches /\ work[w].left # {}
    BY <1>6 DEF Insert, Work
  <2>2. NextBatch(w) \in Batches
    BY <2>1, FirstBatch
  <2> QED  BY <1>6, <2>2 DEF Insert, Inserts
<1>7. CASE LoopEnds(w)
  BY <1>7 DEF LoopEnds, AllInserted, Loops
<1>8. CASE Report(w)
  BY <1>8 DEF Report, Reported, Quits, Loops
<1>9. CASE Last(w)
  BY <1>9 DEF Last, Reported, Concludes, Mine, RunningProgress
<1>10. CASE CompleteImport(w) \/ CompleteTransformation(w)
  BY <1>10 DEF CompleteImport, CompleteTransformation, Complete, Completes
<1>11. CASE Evaluate(w)
  BY <1>11 DEF Evaluate, Evaluates
<1>12. CASE SaveReport(w)
  BY <1>12 DEF SaveReport, Saves
<1>13. CASE MarkFailed(w) \/ MarkCancelled(w)
  BY <1>13 DEF MarkFailed, MarkCancelled, StatusAfterFailure, AfterFailure, Marks
<1> QED
  BY <1>1, <1>2, <1>3, <1>4, <1>5, <1>6, <1>7, <1>8, <1>9, <1>10, <1>11, <1>12, <1>13
     DEF HandlerStep

-----------------------------------------------------------------------------
\* What holds in every run.

\* Where the source and the rest of w's job are.
LEMMA HandlersAreAsked ==
  ASSUME PInv, NEW w \in Workers, proc[w].pc = "handler"
  PROVE  proc[w].job \in Jobs /\ Exists(proc[w].job) /\ (IsImport(w) \/ Source(w) \in Jobs)
<1>1. proc[w].job \in Jobs /\ Exists(proc[w].job)
  BY HandlersHaveJobs DEF PInv
<1>2. Asked(proc[w].job)
  BY <1>1 DEF PInv
<1>3. /\ ImportRequest.type = "dataset_import"
      /\ \A s \in Jobs : TransformationRequest(s).payload = s
  BY DEF ImportRequest, TransformationRequest, Staged
<1> QED  BY <1>1, <1>2, <1>3 DEF Asked, IsImport, Source

\* A handler's step keeps the shape of what it writes.
LEMMA HandlersStayShaped ==
  ASSUME PInv, NEW w \in Workers, HandlerStep(w)
  PROVE  Shaped' /\ step'[w] # "idle" /\ (step'[w] = "load" => ~IsImport(w))
<1>1. PICK j \in Jobs : j = proc[w].job
  BY InHandler, HandlersAreAsked
<1>2. /\ Shaped /\ work[w] \in Work /\ stored[j] \subseteq Batches
      /\ (IsImport(w) \/ Source(w) \in Jobs) /\ (step[w] = "load" => ~IsImport(w))
  BY <1>1, InHandler, HandlersAreAsked DEF PInv, Placed, Shaped
<1>3. OnlyHere(w, j)
  BY <1>1, <1>2, Frame
<1> DEFINE Fits == /\ version'[j] \in VersionStatuses /\ run'[j] \in RunStatuses
                   /\ stored'[j] \subseteq Batches /\ report'[j] \subseteq Batches
                   /\ step'[w] \in Steps \ {"idle"} /\ work'[w] \in Work
                   /\ step'[w] = "load" => ~IsImport(w)
<1> SUFFICES Fits
  BY <1>2, <1>3 DEF OnlyHere, Shaped
<1>4. /\ version[j] \in VersionStatuses /\ run[j] \in RunStatuses
      /\ report[j] \subseteq Batches
  BY <1>2 DEF Shaped
<1>5. CASE \E batches : Reads(w, batches)
  <2>1. PICK batches : Reads(w, batches)
    BY <1>5
  <2>2. batches \subseteq Batches
    BY <1>2, <2>1 DEF Reads, Shaped
  <2> QED  BY <1>2, <1>4, <2>1, <2>2 DEF Reads, Work, Steps, data
<1>6. CASE \E n \in Batches : Inserts(w, j, n)
  BY <1>2, <1>4, <1>6 DEF Inserts, Work, Steps
<1>7. CASE Evaluates(w, j) \/ Saves(w, j)
  BY <1>2, <1>4, <1>7 DEF Evaluates, Saves, Work, Steps, VersionStatuses, data
<1>8. CASE Starts(w, j) \/ Completes(w, j) \/ Marks(w, j)
  BY <1>2, <1>4, <1>8 DEF Starts, Completes, Marks, Steps, VersionStatuses, RunStatuses
<1>9. CASE Quits(w) \/ Stumbles(w) \/ Loops(w) \/ Concludes(w, j)
  BY <1>2, <1>4, <1>9 DEF Quits, Stumbles, Loops, Concludes, Steps, data
<1> QED  BY <1>1, <1>2, <1>5, <1>6, <1>7, <1>8, <1>9, Effects

\* No step but staging inserts a job.
LEMMA OnlyStagingInserts ==
  ASSUME WInv, NEW i \in Jobs, ~Exists(i),
         \/ JobCall \/ TimePasses \/ UNCHANGED vars
         \/ \E w \in Workers : Shell(w) \/ Handler(w)
  PROVE  ~Exists(i)'
<1>1. job \in [Jobs -> JobRow] /\ job[i].status = "absent"
  BY DEF WInv, IInv, Shape, Exists
<1> SUFFICES job'[i] = job[i]
  BY <1>1 DEF Exists
<1>2. CASE JobCall \/ TimePasses
  BY <1>1, <1>2
     DEF JobCall, TimePasses, request_cancel, validate_transition, AllowedTransitions, retry,
         CanRetry, RowExpires, HeartbeatExpires, Active, InProgress
<1>3. CASE \E w \in Workers : Shell(w) \/ Handler(w)
  <2>1. PICK w \in Workers : Transaction(w)
    BY <1>3, ProcessesTransact
  <2>2. CASE \E batch \in SUBSET Jobs :
                acknowledge_unclaimed_cancellations(batch) \/ recover_stale(batch)
    BY <1>1, <2>2
       DEF acknowledge_unclaimed_cancellations, Unclaimed, recover_stale, Silent, Active,
           InProgress
  <2>3. CASE \E k \in Jobs : claim_next(k, w, Supported, {})
    BY <1>1, <2>3 DEF claim_next, Claimable
  <2>4. CASE \E k \in Jobs, p \in Reports \cup {NoReport} : heartbeat(k, w, p)
    BY <1>1, <2>4 DEF heartbeat, InProgress
  <2>5. CASE \E k \in Jobs, outcome \in {"cancelled", "succeeded", "failed"} :
                EndAttempt(k, outcome)
    BY <1>1, <2>5 DEF EndAttempt, validate_transition, AllowedTransitions
  <2> QED  BY <2>1, <2>2, <2>3, <2>4, <2>5 DEF Transaction, vars
<1> QED  BY <1>2, <1>3 DEF vars

\* Every step of a process or of a job's client keeps Asked.
LEMMA AskedStays ==
  ASSUME PInv, [PipelineNext]_pipelineVars, NEW i \in Jobs
  PROVE  Asked(i)'
<1>1. [Next]_vars
  BY EveryStepIsASystemStep, SystemStep DEF PInv, pipelineVars, handlerVars
<1>2. CASE Exists(i)
  BY <1>1, <1>2, RequestsStay DEF PInv, Asked
<1>3. CASE ~Exists(i) /\ Stage
  <2>1. PICK j \in Jobs : \/ Enqueue(j, ImportRequest, NoKey)
                          \/ \E s \in Jobs : Enqueue(j, TransformationRequest(s), NoKey)
    BY <1>3 DEF Stage, StageImport, StageTransformation
  <2> QED  BY <1>3, <2>1 DEF Enqueue, Asked, Exists, PInv, WInv, IInv, Shape
<1>4. CASE ~Exists(i) /\ ~Stage
  <2>1. \/ JobCall \/ TimePasses \/ UNCHANGED vars
        \/ \E w \in Workers : Shell(w) \/ Handler(w)
    BY <1>4, AroundIsSystem, HandlersReport
       DEF PipelineNext, pipelineVars, handlerVars, systemVars, vars, Handler, Local
  <2> QED  BY <1>4, <2>1, OnlyStagingInserts DEF PInv, Asked
<1> QED  BY <1>2, <1>3, <1>4

\* The rest of a process's step keeps its handler where it is, starts one or ends it.
LEMMA AroundKeepsPlace ==
  ASSUME PInv, NEW w \in Workers, Around(w)
  PROVE  /\ UNCHANGED data /\ Shaped' /\ Placed(w)'
         /\ step'[w] \in {"idle", "prepare", step[w]}
         /\ proc'[w].pc = "handler" /\ proc[w].pc = "handler" =>
               step'[w] = step[w] /\ work'[w] = work[w] /\ proc'[w].job = proc[w].job
         /\ \A u \in Workers \ {w} :
               proc'[u] = proc[u] /\ step'[u] = step[u] /\ work'[u] = work[u]
<1>1. PICK s \in {"idle", "prepare", step[w]} : Continue(w, s)
  BY DEF Around, Finish, ShellStep
<1>2. work' = [work EXCEPT ![w] = IF step'[w] = "idle" THEN NoWork ELSE @] /\ UNCHANGED data
  BY DEF Around
<1>3. NoWork \in Work /\ Shaped /\ proc \in [Workers -> Process]
  BY DEF NoWork, Work, PInv, WInv
<1>4. Shaped' /\ step'[w] = s
  BY <1>1, <1>2, <1>3 DEF Shaped, Continue, Steps, data
<1>5. \A u \in Workers \ {w} : proc'[u] = proc[u] /\ step'[u] = step[u] /\ work'[u] = work[u]
  <2>1. \A u \in Workers \ {w} : proc'[u] = proc[u]
    BY AroundIsSystem, ProcessesTransact DEF PInv
  <2> QED  BY <1>1, <1>2, <1>3, <2>1 DEF Shaped, Continue
<1>6. CASE Finish(w)
  <2>1. step'[w] = "idle" /\ proc'[w].pc # "handler"
    BY <1>3, <1>6 DEF Finish, HandlerEnds, Go, Executing, Process, Continue, Shaped
  <2> QED  BY <1>1, <1>2, <1>4, <1>5, <2>1 DEF Placed
<1>7. CASE ShellStep(w)
  <2>1. /\ Shell(w)
        /\ step'[w] = IF proc'[w].pc # "handler" THEN "idle"
                      ELSE IF proc[w].pc = "handler" THEN step[w] ELSE "prepare"
    BY <1>3, <1>7 DEF ShellStep, Continue, Shaped
  <2>2. CASE proc'[w].pc = "handler" /\ proc[w].pc = "handler"
    <3>1. step'[w] = step[w] /\ proc'[w].job = proc[w].job
      BY <2>1, <2>2, ShellKeepsHandler DEF PInv
    <3>2. step[w] # "idle" /\ (step[w] = "load" => ~IsImport(w))
      BY <2>2 DEF PInv, Placed
    <3>3. work'[w] = work[w]
      BY <1>2, <1>3, <3>1, <3>2 DEF Shaped
    <3>4. IsImport(w)' = IsImport(w)
      <4>1. PICK j \in Jobs : j = proc[w].job /\ Exists(j)
        BY <2>2, HandlersAreAsked
      <4>2. [Next]_vars
        BY <2>1, SystemStep DEF PInv, SystemNext
      <4> QED  BY <3>1, <4>1, <4>2, RequestsStay DEF IsImport, PInv
    <3> QED  BY <1>1, <1>2, <1>4, <1>5, <2>2, <3>1, <3>2, <3>3, <3>4 DEF Placed
  <2>3. CASE ~(proc'[w].pc = "handler" /\ proc[w].pc = "handler")
    BY <1>1, <1>2, <1>4, <1>5, <2>1, <2>3 DEF Placed
  <2> QED  BY <2>2, <2>3
<1> QED  BY <1>6, <1>7 DEF Around

\* PInv is inductive.
LEMMA PStep ==
  ASSUME PInv, [PipelineNext]_pipelineVars
  PROVE  PInv'
<1>1. [SystemNext]_systemVars
  BY EveryStepIsASystemStep DEF pipelineVars, handlerVars
<1>2. WInv' /\ StopsAreSeen' /\ AttemptsAreHeard'
  BY <1>1, SystemStep, StopsStaySeen, HeardStep DEF PInv
<1>3. \A i \in Jobs : Asked(i)'
  BY AskedStays
<1>4. Shaped' /\ \A u \in Workers : Placed(u)'
  <2>1. ASSUME NEW u \in Workers, proc'[u].pc = proc[u].pc, proc'[u].job = proc[u].job,
               step'[u] = step[u]
        PROVE  Placed(u)'
    <3>1. CASE proc[u].pc # "handler"
      BY <2>1, <3>1 DEF PInv, Placed
    <3>2. CASE proc[u].pc = "handler"
      <4>1. proc[u].job \in Jobs /\ Exists(proc[u].job)
        BY <3>2, HandlersAreAsked
      <4>2. [Next]_vars
        BY <1>1, SystemStep DEF PInv
      <4>3. request'[proc[u].job] = request[proc[u].job]
        BY <4>1, <4>2, RequestsStay DEF PInv
      <4> QED  BY <2>1, <4>3 DEF PInv, Placed, IsImport
    <3> QED  BY <3>1, <3>2
  <2>2. ASSUME NEW w \in Workers, HandlerStep(w) PROVE Shaped' /\ \A u \in Workers : Placed(u)'
    <3>1. PICK j \in Jobs : j = proc[w].job /\ Exists(j) /\ proc[w].pc = "handler"
      BY <2>2, InHandler, HandlersAreAsked
    <3>2. \A u \in Workers : proc'[u].pc = proc[u].pc /\ proc'[u].job = proc[u].job
      BY <2>2, HandlersReport
         DEF Local, systemVars, ReportAccepted, PInv, WInv, Process
    <3>3. \A u \in Workers \ {w} : step'[u] = step[u]
      BY <2>2, <3>1, Frame DEF OnlyHere, PInv, Shaped
    <3>4. Placed(w)'
      <4>1. request'[j] = request[j]
        BY <1>1, <3>1, SystemStep, RequestsStay DEF PInv
      <4>2. IsImport(w)' = IsImport(w)
        BY <3>1, <3>2, <4>1 DEF IsImport
      <4> QED  BY <2>2, <3>1, <3>2, <4>2, HandlersStayShaped DEF Placed
    <3> QED  BY <2>1, <2>2, <3>2, <3>3, <3>4, HandlersStayShaped
  <2>3. ASSUME NEW w \in Workers, Around(w) PROVE Shaped' /\ \A u \in Workers : Placed(u)'
    BY <2>1, <2>3, AroundKeepsPlace
  <2>4. CASE Stage
    <3>1. step' = step /\ proc' = proc /\ Shaped'
      BY <2>4
         DEF Stage, StageImport, StageTransformation, workerVars, PInv, Shaped, VersionStatuses,
             RunStatuses
    <3> QED  BY <2>1, <3>1
  <2>5. CASE UNCHANGED <<proc, step, data, work>>
    BY <2>1, <2>5 DEF PInv, Shaped, data
  <2>6. JobCall \/ TimePasses => proc' = proc /\ step' = step
    BY DEF JobCall, TimePasses, workerVars
  <2> QED
    BY <2>2, <2>3, <2>4, <2>5, <2>6
       DEF PipelineNext, pipelineVars, handlerVars, systemVars
<1> QED  BY <1>2, <1>3, <1>4 DEF PInv

\* PInv holds at first.
LEMMA InitIsShaped == PipelineInit => PInv
<1> SUFFICES ASSUME PipelineInit PROVE PInv
  OBVIOUS
<1>1. WInv
  BY SystemInitInv DEF PipelineInit, HandlerInit
<1>2. NoWork \in Work
  BY DEF NoWork, Work
<1>3. \A w \in Workers : proc[w].pc = "recover" /\ step[w] = "idle"
  BY DEF PipelineInit, HandlerInit, SystemInit, At
<1>4. Shaped
  BY <1>2 DEF PipelineInit, HandlerInit, Shaped, VersionStatuses, RunStatuses, Steps
<1>5. \A j \in Jobs : ~Exists(j)
  BY DEF PipelineInit, HandlerInit, SystemInit, Init, NoRow, Exists
<1> QED
  BY <1>1, <1>3, <1>4, <1>5 DEF PInv, StopsAreSeen, AttemptsAreHeard, Busy, Asked, Placed

\* PInv is an invariant.
LEMMA PipelineInvariant == PipelineSpec => []PInv
<1>1. PInv /\ [PipelineNext]_pipelineVars => PInv'
  BY PStep
<1> QED  BY <1>1, InitIsShaped, PTL DEF PipelineSpec

\* Versions, runs and handlers keep their types, and a handler is somewhere exactly while its
\* process runs it.
THEOREM PipelineTypesHold == PipelineSpec => []PipelineTypeOK
<1>1. PInv => Shaped /\ \A w \in Workers : step[w] = "idle" <=> proc[w].pc # "handler"
  BY DEF PInv, Placed
<1>2. PipelineSpec => []WorkerTypeOK
  BY PipelinesImplementSystem, SystemTypesHold, PTL
<1>3. /\ WorkerTypeOK /\ Shaped /\ \A w \in Workers : step[w] = "idle" <=> proc[w].pc # "handler"
      => PipelineTypeOK
  BY DEF PipelineTypeOK, HandlerTypeOK, Shaped
<1> QED  BY <1>1, <1>2, <1>3, PipelineInvariant, PTL

-----------------------------------------------------------------------------
\* Whole imports, while no process stands still and no queue call fails.

\* A version with its rows and its report, whoever wrote them.
Whole(v, st, rep) ==
    /\ v \in {"imported", "ready_for_transformation"} => st = Batches
    /\ v = "ready_for_transformation" => rep = Batches

IsShown(v, r) == v \in Published /\ r = "completed"

\* What the attempt of a handler at s has done to its version.
Underway(s, k, import, v, r, st) ==
    /\ s \in {"open", "load", "insert", "report"} => v \in {"importing", "transforming"}
    /\ s \in {"evaluate", "save"} => import /\ r = "completed" /\ st = Batches
    /\ s = "save" => k.loaded = Batches
    /\ s = "return" => IsShown(v, r)
    /\ import =>
          /\ s \in {"insert", "report"} => Batches \subseteq st \cup k.left
          /\ s = "complete" => st = Batches
          /\ s = "last" => IsShown(v, r)

\* A handler's step goes on with the attempt.
LEMMA HandlerGoesOn ==
  ASSUME Shaped, NEW w \in Workers, NEW j \in Jobs, proc[w].job = j,
         Placed(w), Whole(version[j], stored[j], report[j]),
         Underway(step[w], work[w], IsImport(w), version[j], run[j], stored[j]),
         HandlerStep(w)
  PROVE  /\ Whole(version'[j], stored'[j], report'[j])
         /\ Underway(step'[w], work'[w], IsImport(w), version'[j], run'[j], stored'[j])
<1>1. work[w] \in Work /\ stored[j] \subseteq Batches
  BY DEF Shaped
<1>2. CASE Starts(w, j) \/ Completes(w, j) \/ Marks(w, j)
  BY <1>1, <1>2 DEF Starts, Completes, Marks, Whole, Underway, IsShown, Published
<1>3. CASE Quits(w) \/ Stumbles(w) \/ Loops(w) \/ Concludes(w, j)
  BY <1>1, <1>3 DEF Quits, Stumbles, Loops, Concludes, Underway, data
<1>4. CASE \E batches : Reads(w, batches)
  <2>1. PICK batches : Reads(w, batches)
    BY <1>4
  <2>2. work'[w].left = batches
    BY <1>1, <2>1 DEF Reads, Work
  <2> QED  BY <2>1, <2>2 DEF Reads, Placed, Underway, data
<1>5. CASE \E n \in Batches : Inserts(w, j, n)
  <2>1. PICK n \in Batches : Inserts(w, j, n)
    BY <1>5
  <2>2. work'[w].left = work[w].left \ {n}
    BY <1>1, <2>1 DEF Inserts, Work
  <2> QED  BY <1>1, <2>1, <2>2 DEF Inserts, Whole, Underway
<1>6. CASE Evaluates(w, j)
  <2>1. work'[w].loaded = stored[j]
    BY <1>1, <1>6 DEF Evaluates, Work
  <2> QED  BY <1>6, <2>1 DEF Evaluates, Underway, data
<1>7. CASE Saves(w, j)
  BY <1>7 DEF Saves, Whole, Underway, IsShown, Published
<1> QED  BY <1>2, <1>3, <1>4, <1>5, <1>6, <1>7, Effects

\* What the attempt in w's hands has done.
Progress(w) ==
    /\ proc[w].pc = "handler" =>
          Underway(step[w], work[w], IsImport(w), version[proc[w].job], run[proc[w].job],
                   stored[proc[w].job])
    /\ proc[w].pc = "succeed" => IsShown(version[proc[w].job], run[proc[w].job])

\* What a job and its version show together.
Shows(j) ==
    /\ Whole(version[j], stored[j], report[j])
    /\ job[j].status = "succeeded" => IsShown(version[j], run[j])

\* The inductive invariant.
BInv == PInv /\ (\A j \in Jobs : Shows(j)) /\ (\A w \in Workers : Progress(w))

\* What a step leaves of a job's row.
RowKept(i) ==
    /\ job'[i].status = job[i].status /\ job'[i].attempt = job[i].attempt
    /\ job'[i].worker = job[i].worker

\* Reports and heartbeats change no status, owner or attempt.
LEMMA HeartbeatsKeepRows ==
  ASSUME WInv, NEW j, NEW w, NEW p, heartbeat(j, w, p)
  PROVE  request' = request /\ \A i \in Jobs : RowKept(i)
BY DEF heartbeat, Beaten, RowKept, WInv, IInv, Shape

\* A handler's step keeps rows and processes.
LEMMA HandlersKeepRows ==
  ASSUME PInv, NEW w \in Workers, HandlerStep(w)
  PROVE  /\ request' = request /\ \A i \in Jobs : RowKept(i)
         /\ \A u \in Workers : proc'[u].pc = proc[u].pc /\ proc'[u].job = proc[u].job
<1>1. CASE Local
  BY <1>1 DEF Local, systemVars, RowKept
<1>2. CASE \E p \in Reports : ReportAccepted(w, p)
  <2>1. PICK p \in Reports : ReportAccepted(w, p)
    BY <1>2
  <2>2. request' = request /\ \A i \in Jobs : RowKept(i)
    BY <2>1, HeartbeatsKeepRows DEF ReportAccepted, PInv
  <2> QED  BY <2>1, <2>2 DEF ReportAccepted, PInv, WInv, Process
<1> QED  BY <1>1, <1>2, HandlersReport

\* The job of a process that is busy is in its hands alone.
LEMMA BusyIsAlone ==
  ASSUME PInv, ~MayPause, faults = 0, NEW u \in Workers, proc[u].pc \in Busy
  PROVE  /\ proc[u].job \in Jobs /\ Exists(proc[u].job) /\ InProgress(proc[u].job)
         /\ Owned(proc[u].job, u)
         /\ \A w \in Workers : proc[w].pc \in Busy /\ proc[w].job = proc[u].job => w = u
<1>1. \A w \in Workers : proc[w].pc \in Busy => HeldFast(proc[w].job, w)
  BY DEF PInv, AttemptsAreHeard
<1>2. proc[u].job \in Jobs
  BY DEF PInv, WInv, ProcOK, Executing, Busy
<1> QED  BY <1>1, <1>2 DEF HeldFast, InProgress, Exists, Owned

\* A handler's step touches no other job: nobody else runs its own.
LEMMA HandlersStayWhole ==
  ASSUME BInv, ~MayPause, faults = 0, NEW w \in Workers, HandlerStep(w)
  PROVE  (\A i \in Jobs : Shows(i)') /\ (\A u \in Workers : Progress(u)')
<1>1. PICK j \in Jobs : j = proc[w].job /\ proc[w].pc = "handler" /\ InProgress(j)
  BY InHandler, BusyIsAlone DEF BInv, Busy
<1>2. OnlyHere(w, j) /\ Shaped
  BY <1>1, Frame DEF BInv, PInv
<1>3. /\ Whole(version'[j], stored'[j], report'[j])
      /\ Underway(step'[w], work'[w], IsImport(w), version'[j], run'[j], stored'[j])
  BY <1>1, <1>2, HandlerGoesOn DEF BInv, PInv, Progress, Shows
<1>4. /\ \A i \in Jobs \ {j} : /\ version'[i] = version[i] /\ run'[i] = run[i]
                               /\ stored'[i] = stored[i] /\ report'[i] = report[i]
      /\ \A u \in Workers \ {w} : step'[u] = step[u] /\ work'[u] = work[u]
  BY <1>2 DEF OnlyHere, Shaped
<1>5. /\ request' = request /\ \A i \in Jobs : RowKept(i)
      /\ \A u \in Workers : proc'[u].pc = proc[u].pc /\ proc'[u].job = proc[u].job
  BY HandlersKeepRows DEF BInv
<1>6. ASSUME NEW i \in Jobs PROVE Shows(i)'
  BY <1>1, <1>3, <1>4, <1>5 DEF BInv, Shows, RowKept, InProgress
<1>7. ASSUME NEW u \in Workers PROVE Progress(u)'
  <2>1. IsImport(u)' = IsImport(u)
    BY <1>5 DEF IsImport
  <2>2. CASE u = w
    BY <1>1, <1>3, <1>5, <2>1, <2>2 DEF Progress
  <2>3. CASE u # w /\ proc[u].pc \in Busy
    <3>1. proc[u].job \in Jobs \ {j}
      BY <1>1, <2>3, BusyIsAlone DEF BInv, Busy
    <3> QED  BY <1>4, <1>5, <2>1, <2>3, <3>1 DEF BInv, Progress
  <2>4. CASE proc[u].pc \notin Busy
    BY <1>5, <2>4 DEF Progress, Busy
  <2> QED  BY <2>2, <2>3, <2>4
<1> QED  BY <1>6, <1>7

\* A process that goes on around its handler, or ends its attempt.
LEMMA OthersStayWhole ==
  ASSUME BInv, ~MayPause, faults = 0, faults' = 0, NEW w \in Workers, Around(w)
  PROVE  (\A i \in Jobs : Shows(i)') /\ (\A u \in Workers : Progress(u)')
<1>1. /\ UNCHANGED data
      /\ step'[w] \in {"idle", "prepare", step[w]} /\ Placed(w)'
      /\ proc'[w].pc = "handler" /\ proc[w].pc = "handler" =>
            step'[w] = step[w] /\ work'[w] = work[w] /\ proc'[w].job = proc[w].job
      /\ \A u \in Workers \ {w} :
            proc'[u] = proc[u] /\ step'[u] = step[u] /\ work'[u] = work[u]
  BY AroundKeepsPlace DEF BInv
<1>2. \A u \in Workers : proc[u].pc = "handler" => request'[proc[u].job] = request[proc[u].job]
  <2>1. [Next]_vars
    BY AroundIsSystem, SystemStep DEF BInv, PInv, SystemNext
  <2> QED  BY <2>1, HandlersAreAsked, RequestsStay DEF BInv, PInv
<1>3. ASSUME NEW u \in Workers \ {w} PROVE Progress(u)'
  BY <1>1, <1>2 DEF BInv, Progress, IsImport, data
<1>4. job \in [Jobs -> JobRow] /\ proc \in [Workers -> Process]
  BY DEF BInv, PInv, WInv, IInv, Shape
<1>5. CASE Finish(w)
  <2>1. UNCHANGED vars
    BY <1>5 DEF Finish, HandlerEnds
  <2>2. Progress(w)'
    <3>1. /\ proc[w].pc = "handler" /\ proc'[w].job = proc[w].job
          /\ proc'[w].pc = IF step[w] = "return" THEN "succeed"
                           ELSE IF step[w] = "raise" THEN "fail" ELSE "acknowledge_cancellation"
      BY <1>4, <1>5 DEF Finish, InHandlerAt, HandlerEnds, Go, Executing, Process
    <3> QED  BY <1>1, <3>1 DEF BInv, Progress, Underway, data
  <2> QED  BY <1>1, <1>3, <2>1, <2>2 DEF BInv, Shows, data, vars
<1>6. CASE ShellStep(w)
  <2>1. Shell(w)
    BY <1>6 DEF ShellStep
  <2>2. CASE Claims(w)
    <3>1. PICK j \in Jobs : /\ claim_next(j, w, Supported, {})
                           /\ proc' = [proc EXCEPT ![w] = Begun(w, j)]
      BY <2>2 DEF Claims
    <3>2. proc'[w].pc = "handler" /\ proc[w].pc # "handler"
      BY <1>4, <2>2, <3>1 DEF Claims, Begun
    <3>3. step'[w] = "prepare"
      BY <1>6, <3>2 DEF ShellStep, Continue, BInv, PInv, Shaped
    <3>4. \A i \in Jobs : job'[i].status = "succeeded" => job[i].status = "succeeded"
      BY <1>4, <3>1 DEF claim_next, Claimed
    <3> QED  BY <1>1, <1>3, <3>2, <3>3, <3>4 DEF BInv, Shows, Progress, Underway, data
  <2>3. CASE \E j \in Jobs : GoesOnWith(w, j)
    <3>1. PICK j \in Jobs : GoesOnWith(w, j)
      BY <2>3
    <3>2. \A i \in Jobs : job'[i].status = job[i].status
      BY <3>1, HeartbeatsKeepRows DEF GoesOnWith, vars, BInv, PInv, RowKept
    <3>3. Progress(w)'
      BY <1>1, <1>2, <3>1 DEF GoesOnWith, BInv, Progress, IsImport, data
    <3> QED  BY <1>1, <1>3, <3>2, <3>3 DEF BInv, Shows, data
  <2>4. CASE \E j \in Jobs : Closes(w, j)
    <3>1. PICK j \in Jobs : Closes(w, j)
      BY <2>4
    <3>2. \A i \in Jobs : job'[i].status = "succeeded" =>
             job[i].status = "succeeded" \/ (i = j /\ proc[w].pc = "succeed")
      <4>1. PICK outcome \in {"cancelled", "succeeded", "failed"} :
               EndAttempt(j, outcome) /\ (outcome = "succeeded" => proc[w].pc = "succeed")
        BY <3>1 DEF Closes
      <4>2. job'[j].status = outcome /\ \A i \in Jobs \ {j} : job'[i] = job[i]
        BY <1>4, <4>1 DEF EndAttempt, Ended
      <4> QED  BY <1>4, <4>1, <4>2
    <3>3. Progress(w)'
      BY <3>1 DEF Closes, Progress
    <3>4. proc[w].pc = "succeed" => IsShown(version[j], run[j])
      BY <3>1 DEF Closes, BInv, Progress
    <3>5. UNCHANGED <<version, run, stored, report>> /\ \A i \in Jobs : Shows(i)
      BY <1>1 DEF data, BInv
    <3>6. ASSUME NEW i \in Jobs PROVE Shows(i)'
      <4>1. Whole(version[i], stored[i], report[i])
        BY <3>5 DEF Shows
      <4>2. job'[i].status = "succeeded" => IsShown(version[i], run[i])
        BY <3>2, <3>4, <3>5 DEF Shows
      <4> QED  BY <3>5, <4>1, <4>2 DEF Shows
    <3> QED  BY <1>3, <3>3, <3>6
  <2>5. CASE Dies(w) \/ LooksAfterOthers(w)
    <3>1. Progress(w)'
      BY <2>5 DEF Dies, LooksAfterOthers, Progress, Busy
    <3>2. \A i \in Jobs : job'[i].status = "succeeded" => job[i].status = "succeeded"
      <4>1. CASE UNCHANGED vars
        BY <4>1 DEF vars
      <4>2. ASSUME NEW batch \in SUBSET Jobs, acknowledge_unclaimed_cancellations(batch)
            PROVE  <3>2!:
        BY <1>4, <4>2 DEF acknowledge_unclaimed_cancellations
      <4>3. ASSUME NEW batch \in SUBSET Jobs, recover_stale(batch)
            PROVE  <3>2!:
        BY <1>4, <4>3 DEF recover_stale, Recovered, Requeued
      <4> QED  BY <2>5, <4>1, <4>2, <4>3 DEF Dies, LooksAfterOthers
    <3> QED  BY <1>1, <1>3, <3>1, <3>2 DEF BInv, Shows, data
  <2> QED  BY <2>1, <2>2, <2>3, <2>4, <2>5, CalmMoves DEF BInv, PInv
<1> QED  BY <1>5, <1>6 DEF Around

\* A job is inserted with a new version, which may have a source that is ready.
Stages(j, v, r) ==
    /\ Enqueue(j, r, NoKey) /\ UNCHANGED <<proc, stored, report, step, work>>
    /\ version' = [version EXCEPT ![j] = v] /\ run' = [run EXCEPT ![j] = "queued"]
    /\ \/ r = ImportRequest
       \/ \E s \in Jobs : r = TransformationRequest(s) /\ CanTransform(s)

\* Staging an import or a transformation.
LEMMA StagingStages ==
  ASSUME Stage
  PROVE  \E j \in Jobs, v \in {"uploaded", "transforming"}, r \in Requests : Stages(j, v, r)
<1>1. ImportRequest \in Requests /\ \A s \in Jobs : TransformationRequest(s) \in Requests
  BY PipelineAssumption DEF PipelineAssumption
<1>2. ASSUME NEW j \in Jobs, StageImport(j) PROVE Stages(j, "uploaded", ImportRequest)
  BY <1>2 DEF StageImport, workerVars, Stages
<1>3. ASSUME NEW j \in Jobs, NEW s \in Jobs, StageTransformation(j, s)
      PROVE  Stages(j, "transforming", TransformationRequest(s))
  BY <1>3 DEF StageTransformation, workerVars, Stages
<1> QED  BY <1>1, <1>2, <1>3 DEF Stage

\* Staging inserts a job that nobody runs.
LEMMA StagingStaysWhole ==
  ASSUME BInv, ~MayPause, faults = 0, Stage
  PROVE  (\A i \in Jobs : Shows(i)') /\ (\A u \in Workers : Progress(u)')
<1>1. PICK j \in Jobs, v \in {"uploaded", "transforming"}, r \in Requests : Stages(j, v, r)
  BY StagingStages
<1> USE DEF Stages
<1>2. /\ ~Exists(j) /\ job'[j].status = "queued"
      /\ \A i \in Jobs \ {j} : job'[i] = job[i] /\ request'[i] = request[i]
  BY <1>1 DEF Enqueue, BInv, PInv, WInv, IInv, Shape
<1>3. /\ version'[j] \in {"uploaded", "transforming"}
      /\ \A i \in Jobs \ {j} : version'[i] = version[i] /\ run'[i] = run[i]
  BY <1>1 DEF BInv, PInv, Shaped
<1>4. ASSUME NEW i \in Jobs PROVE Shows(i)'
  BY <1>1, <1>2, <1>3 DEF BInv, Shows, Whole
<1>5. ASSUME NEW u \in Workers PROVE Progress(u)'
  <2>1. CASE proc[u].pc \in Busy
    <3>1. proc[u].job \in Jobs \ {j}
      BY <1>2, <2>1, BusyIsAlone DEF BInv
    <3> QED  BY <1>1, <1>2, <1>3, <3>1 DEF BInv, Progress, IsImport
  <2>2. CASE proc[u].pc \notin Busy
    BY <1>1, <2>2 DEF Progress, Busy
  <2> QED  BY <2>1, <2>2
<1> QED  BY <1>4, <1>5

\* The clock, and the calls of a job's client, touch no version and succeed nothing.
LEMMA CallsStayWhole ==
  ASSUME BInv, JobCall \/ TimePasses, UNCHANGED <<data, work>>
  PROVE  (\A i \in Jobs : Shows(i)') /\ (\A u \in Workers : Progress(u)')
<1>1. UNCHANGED <<proc, step, request, data, work>>
  BY DEF JobCall, TimePasses, workerVars, request_cancel, retry, RowExpires, HeartbeatExpires
<1>2. \A i \in Jobs : job'[i].status = "succeeded" => job[i].status = "succeeded"
  <2>1. job \in [Jobs -> JobRow]
    BY DEF BInv, PInv, WInv, IInv, Shape
  <2>2. ASSUME NEW j \in Jobs, request_cancel(j) PROVE <1>2!:
    BY <2>1, <2>2 DEF request_cancel
  <2>4. ASSUME NEW j \in Jobs, HeartbeatExpires(j) PROVE <1>2!:
    BY <2>1, <2>4 DEF HeartbeatExpires
  <2>3. ASSUME NEW j \in Jobs, retry(j) PROVE <1>2!:
    BY <2>1, <2>3 DEF retry, Requeued
  <2> QED  BY <2>2, <2>3, <2>4 DEF JobCall, TimePasses, RowExpires
<1> QED  BY <1>1, <1>2 DEF BInv, Shows, Progress, IsImport, data

\* BInv is inductive.
LEMMA BStep ==
  ASSUME ~MayPause, MaxFaults = 0, BInv, [PipelineNext]_pipelineVars
  PROVE  BInv'
<1>1. PInv'
  BY PStep DEF BInv
<1>2. faults = 0 /\ faults' = 0
  <2>1. WInv /\ WInv'
    BY <1>1 DEF BInv, PInv
  <2>2. Counters /\ Counters'
    BY <2>1 DEF WInv
  <2> QED  BY <2>2 DEF Counters
<1> DEFINE Good == (\A i \in Jobs : Shows(i)') /\ (\A u \in Workers : Progress(u)')
<1>3. CASE UNCHANGED pipelineVars
  <2>1. UNCHANGED <<job, request, proc, step, version, run, stored, report, work>>
    BY <1>3 DEF pipelineVars, handlerVars, systemVars, data
  <2> QED  BY <1>1, <2>1 DEF BInv, Shows, Progress, IsImport
<1>4. ASSUME NEW w \in Workers, HandlerStep(w) PROVE Good
  BY <1>2, <1>4, HandlersStayWhole
<1>5. ASSUME NEW w \in Workers, Around(w) PROVE Good
  BY <1>2, <1>5, OthersStayWhole
<1>6. Stage => Good
  BY <1>2, StagingStaysWhole
<1>7. (JobCall \/ TimePasses) /\ UNCHANGED <<data, work>> => Good
  BY CallsStayWhole
<1> QED  BY <1>1, <1>3, <1>4, <1>5, <1>6, <1>7 DEF PipelineNext, BInv

\* BInv holds at first.
LEMMA InitIsWhole == PipelineInit => BInv
<1> SUFFICES ASSUME PipelineInit PROVE BInv
  OBVIOUS
<1>1. \A w \in Workers : proc[w].pc = "recover"
  BY DEF PipelineInit, HandlerInit, SystemInit, At
<1>2. \A j \in Jobs : job[j].status = "absent" /\ version[j] = "none"
  BY DEF PipelineInit, HandlerInit, SystemInit, Init, NoRow
<1> QED  BY <1>1, <1>2, InitIsShaped DEF BInv, Shows, Whole, Progress

\* BInv is an invariant, while heartbeats are heard.
LEMMA WholeInvariant ==
  ASSUME ~MayPause, MaxFaults = 0
  PROVE  PipelineSpec => []BInv
<1>1. BInv /\ [PipelineNext]_pipelineVars => BInv'
  BY BStep
<1> QED  BY <1>1, InitIsWhole, PTL DEF PipelineSpec

\* An imported version holds its whole file and a report that has seen all of it, whatever
\* attempts crashed, failed or were cancelled on the way.
THEOREM ImportsHoldTheirFiles ==
  ASSUME ~MayPause, MaxFaults = 0
  PROVE  PipelineSpec => []ImportsAreWhole
<1>1. BInv => ImportsAreWhole
  BY DEF BInv, Shows, Whole, ImportsAreWhole
<1> QED  BY <1>1, WholeInvariant, PTL

\* A job that succeeded shows its version and its completed run.
THEOREM SuccessesArePublished ==
  ASSUME ~MayPause, MaxFaults = 0
  PROVE  PipelineSpec => []SuccessIsPublished
<1>1. BInv => SuccessIsPublished
  BY DEF BInv, Shows, IsShown, Published, SuccessIsPublished
<1> QED  BY <1>1, WholeInvariant, PTL

-----------------------------------------------------------------------------
\* Published versions, whatever crashes, fails or is cancelled while heartbeats are heard.

\* What a handler writes down that does not publish.
Marked(r) == r \in {"failed", "cancelled"}

\* The import behind transformation j was repeated.
Moved(j) == \E s \in Jobs : request[j] = TransformationRequest(s) /\ Repeated(s)

\* What the attempt of a handler at s has published, loaded and marked; again and moved tell
\* whether its own job and its source were repeated.
Certain(s, k, import, v, r, st, again, moved) ==
    /\ v \in Published =>
          \/ s \in {"return", "raise_cancelled"}
          \/ import /\ s = "last"
          \/ CallsMayFail /\ s = "raise"
          \/ again
    /\ ~import /\ s \in {"insert", "report"} => Batches \subseteq st \cup k.left \/ moved
    /\ ~import /\ s \in {"last", "complete"} => st = Batches \/ moved
    /\ s = "raise" => Marked(r) \/ CallsMayFail
    /\ s = "raise_cancelled" => Marked(r) \/ r = "completed"

\* The same, of the attempt in w's hands.
Leaves(w) ==
    LET j == proc[w].job
    IN  /\ proc[w].pc = "handler" =>
              Certain(step[w], work[w], IsImport(w), version[j], run[j], stored[j],
                      Repeated(j), Moved(j))
        /\ proc[w].pc = "fail" => Marked(run[j]) \/ CallsMayFail
        /\ proc[w].pc = "acknowledge_cancellation" => Marked(run[j]) \/ run[j] = "completed"

Waiting(row) == row.status = "queued" \/ (row.status = "cancel_requested" /\ row.worker = NoWorker)

\* How the version of a job that its worker ended can look.
Explained(j) ==
    \/ Marked(run[j])
    \/ job[j].status = "cancelled" /\ run[j] = "completed"
    \/ CallsMayFail

\* What a job row tells of its version while nobody works on it.
Settled(j) ==
    /\ ~Exists(j) => version[j] = "none"
    /\ Waiting(job[j]) \/ job[j].status = "failed" => version[j] \notin Published \/ Repeated(j)
    /\ EndedByWorker(j) => Explained(j)

\* The source of a transformation is as it was when the transformation was staged, or was
\* imported again since.
SourceKept(j) ==
    \A s \in Jobs : request[j] = TransformationRequest(s) =>
                       version[s] = "ready_for_transformation" \/ Repeated(s)

\* A run's mark is its version's, and ready hours are whole or their source was repeated.
VersionOK(j) ==
    /\ Marked(run[j]) => version[j] = "failed"
    /\ version[j] = "ready" => stored[j] = Batches \/ Moved(j)

Lasting(j) == Settled(j) /\ SourceKept(j) /\ VersionOK(j)

\* The inductive invariant.
CInv == BInv /\ (\A w \in Workers : Leaves(w)) /\ (\A j \in Jobs : Lasting(j))

\* A published version keeps its status and its rows, or its job is in progress once more.
Stays(j) ==
    version[j] \in Published =>
        \/ version'[j] = version[j] /\ stored'[j] = stored[j]
        \/ Repeated(j) /\ Active(j)

\* Repetitions are never forgotten.
Grows(j) == (Repeated(j) => Repeated(j)') /\ (Moved(j) => Moved(j)')

\* A closed attempt row stays as it is.
LEMMA RepeatedStays ==
  ASSUME IInv, [Next]_vars, NEW j \in Jobs, Repeated(j)
  PROVE  Repeated(j)'
<1> USE DEF Log, AttemptRow, JobRow
<1>1. PICK n \in 1..AttemptLimit :
         \/ attempts[j][n].status = "stale"
         \/ CallsMayFail /\ attempts[j][n].status = "failed"
  BY DEF Repeated
<1>2. JobOK(job[j], request[j], attempts[j]) /\ JobStep(j)
  BY EveryStepIsAJobStep DEF IInv
<1>3. attempts'[j][n] = attempts[j][n]
  <2>1. CASE ClaimStep(j)
    <3>1. n # job[j].attempt + 1
      BY <1>1, <1>2 DEF JobOK, LogOK, RowOK
    <3> QED  BY <1>2, <2>1, <3>1 DEF ClaimStep, WithOpened, JobOK, LogOK
  <2>2. CASE EndStep(j)
    <3>1. n # job[j].attempt
      BY <1>1, <1>2, <2>2 DEF EndStep, JobOK, LastOK
    <3> QED  BY <1>2, <2>2, <3>1 DEF EndStep, WithClosed, JobOK, LogOK
  <2> QED  BY <1>2, <2>1, <2>2 DEF JobStep, Same, RowStep
<1> QED  BY <1>1, <1>3 DEF Repeated

\* So are repeated sources, for a transformation keeps its source.
LEMMA JobsGrow ==
  ASSUME WInv, [Next]_vars, NEW j \in Jobs
  PROVE  Grows(j)
<1>1. \A s \in Jobs : Repeated(s) => Repeated(s)'
  BY RepeatedStays DEF WInv
<1>2. ASSUME NEW s \in Jobs, request[j] = TransformationRequest(s)
      PROVE  request'[j] = TransformationRequest(s)
  <2>1. TransformationRequest(s) \in Requests
    BY PipelineAssumption DEF PipelineAssumption
  <2>2. Exists(j)
    BY <1>2, <2>1 DEF WInv, IInv, JobOK, RowOK, Exists
  <2> QED  BY <1>2, <2>2, RequestsStay
<1> QED  BY <1>1, <1>2 DEF Grows, Moved

\* A job's own worker and nobody else ends it with a fresh heartbeat.
LEMMA OnlyWorkersEnd ==
  ASSUME IInv, NEW i \in Jobs, EndedByWorker(i)',
         NEW j \in Jobs, NEW w \in Workers, NEW p, NEW r, NEW batch \in SUBSET Jobs,
         \/ UNCHANGED vars \/ claim_next(j, w, Supported, {}) \/ heartbeat(j, w, p)
         \/ acknowledge_unclaimed_cancellations(batch) \/ recover_stale(batch)
         \/ Enqueue(j, r, NoKey) \/ request_cancel(j) \/ retry(j) \/ HeartbeatExpires(j)
  PROVE  EndedByWorker(i)
<1>1. job \in [Jobs -> JobRow] /\ SweepOK(job[i])
  BY DEF IInv, Shape, JobOK
<1> USE DEF EndedByWorker, JobRow, Statuses, Heartbeats
<1>2. CASE UNCHANGED vars
  BY <1>2 DEF vars
<1>3. CASE claim_next(j, w, Supported, {}) \/ heartbeat(j, w, p)
  <2>1. job'[j].status \in {"running", "cancel_requested"}
    <3>1. CASE claim_next(j, w, Supported, {})
      BY <1>1, <3>1 DEF claim_next, Claimed
    <3>2. CASE heartbeat(j, w, p)
      <4>1. job'[j] = Beaten(job[j], p) /\ InProgress(j)
        BY <1>1, <3>2 DEF heartbeat
      <4>2. Beaten(job[j], p).status = job[j].status
        BY <1>1 DEF Beaten
      <4> QED  BY <4>1, <4>2 DEF InProgress
    <3> QED  BY <1>3, <3>1, <3>2
  <2>2. i # j => job'[i] = job[i]
    BY <1>1, <1>3 DEF claim_next, heartbeat
  <2> QED  BY <2>1, <2>2
<1>4. CASE acknowledge_unclaimed_cancellations(batch)
  BY <1>1, <1>4 DEF acknowledge_unclaimed_cancellations, Unclaimed, SweepOK
<1>5. CASE recover_stale(batch)
  BY <1>1, <1>5 DEF recover_stale, Silent, Recovered, Requeued
<1>6. CASE Enqueue(j, r, NoKey) \/ request_cancel(j) \/ retry(j) \/ HeartbeatExpires(j)
  BY <1>1, <1>6 DEF Enqueue, request_cancel, retry, Requeued, HeartbeatExpires
<1> QED  BY <1>2, <1>3, <1>4, <1>5, <1>6

\* A job row that tells of its version goes on telling, if the end it gets is explained.
LEMMA RowsStaySettled ==
  ASSUME IInv, [Next]_vars, NEW i \in Jobs, Settled(i), VersionOK(i),
         version'[i] = version[i], run'[i] = run[i], Exists(i) \/ ~Exists(i)',
         EndedByWorker(i)' => EndedByWorker(i) \/ Explained(i)'
  PROVE  Settled(i)'
<1>1. /\ job[i] \in JobRow /\ JobOK(job[i], request[i], attempts[i])
      /\ JobStep(i) /\ attempts[i] \in Log
  BY EveryStepIsAJobStep DEF IInv, Shape
<1>2. Repeated(i) => Repeated(i)'
  BY RepeatedStays
<1> USE DEF Settled, Exists, JobRow, Statuses, Heartbeats, Log, AttemptRow
<1>3. CASE Same(i)
  BY <1>2, <1>3 DEF Same, Explained, EndedByWorker
<1>4. CASE RowStep(i)
  <2>1. \/ ~Exists(i) /\ job'[i].status = "queued"
        \/ /\ job[i].status \in {"queued", "running"} /\ job'[i].status = "cancel_requested"
           /\ job'[i].worker = job[i].worker
        \/ job[i].status = "failed" /\ job'[i].status = "queued"
        \/ Held(job[i]) /\ job'[i].status = job[i].status /\ job'[i].worker = job[i].worker
        \/ Unclaimed(i) /\ job'[i].status = "cancelled" /\ job'[i].heartbeat = job[i].heartbeat
    <3>1. \A p : /\ Beaten(job[i], p).status = job[i].status
                 /\ Beaten(job[i], p).worker = job[i].worker
      BY <1>1 DEF Beaten
    <3>2. \A s : LET row == [job[i] EXCEPT !.status = s]
                 IN  /\ row.status = s /\ row.worker = job[i].worker
                     /\ row.heartbeat = job[i].heartbeat
      BY <1>1
    <3>3. LET row == [job[i] EXCEPT !.heartbeat = "overdue"]
          IN  row.status = job[i].status /\ row.worker = job[i].worker
      BY <1>1
    <3>4. Requeued(job[i]).status = "queued"
      BY DEF Requeued
    <3>5. CASE /\ Held(job[i])
               /\ \E p \in RunningProgress \cup {NoReport} : job'[i] = Beaten(job[i], p)
      BY <3>1, <3>5
    <3>6. CASE Held(job[i]) /\ job'[i] = [job[i] EXCEPT !.heartbeat = "overdue"]
      BY <3>3, <3>6
    <3>7. CASE Unclaimed(i) /\ job'[i] = [job[i] EXCEPT !.status = "cancelled"]
      BY <3>2, <3>7
    <3>8. CASE \/ job[i].status = "absent" /\ job'[i] = [job[i] EXCEPT !.status = "queued"]
               \/ /\ job[i].status \in {"queued", "running"}
                  /\ job'[i] = [job[i] EXCEPT !.status = "cancel_requested"]
               \/ job[i].status = "failed" /\ job'[i] = Requeued(job[i])
      BY <1>1, <3>4, <3>8 DEF Exists
    <3> QED  BY <1>4, <3>5, <3>6, <3>7, <3>8, Zenon DEF RowStep
  <2>2. SweepOK(job[i])
    BY <1>1 DEF JobOK
  <2> QED
    BY <1>2, <2>1, <2>2 DEF SweepOK, Waiting, EndedByWorker, Held, Unclaimed
<1>5. CASE ClaimStep(i)
  <2>1. job'[i].status = "running"
    BY <1>5 DEF ClaimStep, Claimed
  <2> QED  BY <2>1 DEF Waiting, EndedByWorker
<1>6. CASE EndStep(i)
  <2>1. PICK outcome \in {"cancelled", "succeeded", "failed", "stale"} :
           /\ attempts'[i] = WithClosed(attempts[i], job[i].attempt, outcome)
           /\ \/ job'[i] = Ended(job[i], outcome)
              \/ outcome = "cancelled" /\ job'[i] = [job[i] EXCEPT !.status = "cancelled"]
              \/ outcome = "stale"
           /\ outcome = "stale" =>
                 job'[i] \in {Requeued(job[i]), [job[i] EXCEPT !.status = "failed"]}
    BY <1>6 DEF EndStep
  <2>2. attempts'[i][job[i].attempt].status = outcome /\ job[i].attempt \in 1..AttemptLimit
    BY <1>1, <1>6, <2>1, QueueAssumption
       DEF EndStep, WithClosed, Held, JobOK, LastOK, QueueAssumption
  <2>3. /\ outcome = "stale" => Repeated(i)'
        /\ outcome = "failed" /\ CallsMayFail => Repeated(i)'
    BY <2>2 DEF Repeated
  <2>4. ~EndedByWorker(i) /\ Exists(i)'
    <3>1. /\ Ended(job[i], outcome).status = outcome
          /\ \A s : [job[i] EXCEPT !.status = s].status = s
          /\ Requeued(job[i]).status = "queued"
      BY <1>1 DEF Ended, Requeued
    <3> QED  BY <1>6, <2>1, <3>1 DEF EndStep, Held, EndedByWorker
  <2>5. CASE outcome = "stale"
    BY <2>3, <2>4, <2>5
  <2>6. CASE outcome # "stale"
    <3>1. /\ job'[i].status = outcome
          /\ outcome = "failed" => job'[i].heartbeat = "fresh"
      BY <1>1, <2>1, <2>6 DEF Ended
    <3>2. outcome = "failed" => version[i] \notin Published \/ Repeated(i)'
      BY <2>3, <2>4, <3>1 DEF EndedByWorker, Explained, VersionOK, Published
    <3> QED  BY <2>4, <2>6, <3>1, <3>2 DEF Waiting
  <2> QED  BY <2>5, <2>6
<1> QED  BY <1>1, <1>3, <1>4, <1>5, <1>6 DEF JobStep

\* A handler's step keeps what its attempt leaves, and disturbs a published version only if
\* an attempt of its job was lost.
LEMMA HandlerIsCertain ==
  ASSUME Shaped, NEW w \in Workers, NEW j \in Jobs, proc[w].job = j,
         Owned(j, w), InProgress(j), Placed(w),
         Underway(step[w], work[w], IsImport(w), version[j], run[j], stored[j]),
         Certain(step[w], work[w], IsImport(w), version[j], run[j], stored[j],
                 Repeated(j), Moved(j)),
         VersionOK(j),
         ~IsImport(w) => stored[Source(w)] = Batches \/ Moved(j),
         HandlerStep(w)
  PROVE  /\ Certain(step'[w], work'[w], IsImport(w), version'[j], run'[j], stored'[j],
                    Repeated(j), Moved(j))
         /\ Marked(run'[j]) => version'[j] = "failed"
         /\ version'[j] = "ready" => stored'[j] = Batches \/ Moved(j)
         /\ Stays(j)
<1>1. work[w] \in Work /\ stored[j] \subseteq Batches /\ Active(j)
  BY QueueAssumption DEF Shaped, Active, Owned, QueueAssumption
<1> USE DEF Certain, Published, Marked, VersionOK, Stays
<1>2. CASE Starts(w, j)
  BY <1>1, <1>2 DEF Starts
<1>3. CASE Completes(w, j)
  BY <1>1, <1>3 DEF Completes
<1>4. CASE Marks(w, j)
  BY <1>1, <1>4 DEF Marks
<1>5. CASE Quits(w) \/ Loops(w)
  BY <1>1, <1>5 DEF Quits, Loops, data
<1>6. CASE Concludes(w, j)
  BY <1>6 DEF Concludes, Underway, IsShown, data
<1>7. CASE Stumbles(w)
  BY <1>7 DEF Stumbles, data
<1>8. CASE \E batches : Reads(w, batches)
  <2>1. PICK batches : Reads(w, batches)
    BY <1>8
  <2>2. work'[w].left = batches
    BY <1>1, <2>1 DEF Reads, Work
  <2> QED  BY <2>1, <2>2 DEF Reads, Placed, Underway, data
<1>9. CASE \E n \in Batches : Inserts(w, j, n)
  <2>1. PICK n \in Batches : Inserts(w, j, n)
    BY <1>9
  <2>2. work'[w].left = work[w].left \ {n}
    BY <1>1, <2>1 DEF Inserts, Work
  <2>3. version[j] \in {"importing", "transforming"}
    BY <2>1 DEF Inserts, Underway
  <2> QED  BY <1>1, <2>1, <2>2, <2>3 DEF Inserts
<1>10. CASE Evaluates(w, j) \/ Saves(w, j)
  BY <1>1, <1>10 DEF Evaluates, Saves, Underway, data
<1> QED  BY <1>2, <1>3, <1>4, <1>5, <1>6, <1>7, <1>8, <1>9, <1>10, Effects

\* What a transformation reads is a whole import, or one that was repeated.
LEMMA SourcesAreWhole ==
  ASSUME CInv, NEW w \in Workers, proc[w].pc = "handler", ~IsImport(w)
  PROVE  stored[Source(w)] = Batches \/ Moved(proc[w].job)
<1>1. PICK j \in Jobs : j = proc[w].job /\ Exists(j)
  BY HandlersAreAsked DEF CInv, BInv
<1>2. ImportRequest.type = "dataset_import"
  BY DEF ImportRequest, Staged
<1>3. PICK s \in Jobs : request[j] = TransformationRequest(s)
  BY <1>1, <1>2 DEF CInv, BInv, PInv, Asked, IsImport
<1>4. Source(w) = s
  BY <1>1, <1>3 DEF Source, TransformationRequest, Staged
<1>5. version[s] = "ready_for_transformation" \/ Repeated(s)
  BY <1>1, <1>3 DEF CInv, Lasting, SourceKept
<1> QED  BY <1>1, <1>3, <1>4, <1>5 DEF CInv, BInv, Shows, Whole, Moved

\* What an attempt leaves stands while its job's data and its process do.
LEMMA LeavesStay ==
  ASSUME CInv, NEW u \in Workers, \A i \in Jobs : Grows(i),
         proc'[u] = proc[u], step'[u] = step[u], work'[u] = work[u],
         LET j == proc[u].job
         IN  /\ version'[j] = version[j] /\ run'[j] = run[j] /\ stored'[j] = stored[j]
             /\ j \in Jobs => request'[j] = request[j]
  PROVE  Leaves(u)'
<1>1. CASE proc[u].pc = "handler"
  <2>1. proc[u].job \in Jobs
    BY <1>1, HandlersAreAsked DEF CInv, BInv
  <2>2. IsImport(u)' = IsImport(u)
    BY <2>1 DEF IsImport
  <2> QED  BY <1>1, <2>1, <2>2 DEF CInv, Leaves, Certain, Grows
<1>2. CASE proc[u].pc # "handler"
  BY <1>2 DEF CInv, Leaves
<1> QED  BY <1>1, <1>2

\* A handler's step keeps what other jobs and processes rely on.
LEMMA HandlersAreCalm ==
  ASSUME CInv, ~MayPause, faults = 0, NEW w \in Workers, HandlerStep(w),
         [Next]_vars, \A i \in Jobs : Grows(i)
  PROVE  /\ \A u \in Workers : Leaves(u)'
         /\ \A i \in Jobs : Lasting(i)' /\ Stays(i)
<1>1. PInv /\ BInv
  BY DEF CInv, BInv
<1>2. PICK j \in Jobs : /\ j = proc[w].job /\ proc[w].pc = "handler"
                        /\ Owned(j, w) /\ InProgress(j)
  BY <1>1, InHandler, BusyIsAlone DEF Busy
<1>3. OnlyHere(w, j) /\ Shaped /\ Placed(w)
  BY <1>1, <1>2, Frame DEF PInv
<1>4. /\ Certain(step'[w], work'[w], IsImport(w), version'[j], run'[j], stored'[j],
                 Repeated(j), Moved(j))
      /\ Marked(run'[j]) => version'[j] = "failed"
      /\ version'[j] = "ready" => stored'[j] = Batches \/ Moved(j)
      /\ Stays(j)
  <2>1. /\ Underway(step[w], work[w], IsImport(w), version[j], run[j], stored[j])
        /\ Certain(step[w], work[w], IsImport(w), version[j], run[j], stored[j],
                   Repeated(j), Moved(j))
        /\ VersionOK(j)
    BY <1>1, <1>2 DEF BInv, Progress, CInv, Leaves, Lasting
  <2>2. ~IsImport(w) => stored[Source(w)] = Batches \/ Moved(j)
    BY <1>2, SourcesAreWhole
  <2> QED  BY <1>2, <1>3, <2>1, <2>2, HandlerIsCertain
<1>5. /\ \A i \in Jobs \ {j} :
            version'[i] = version[i] /\ run'[i] = run[i] /\ stored'[i] = stored[i]
      /\ \A u \in Workers \ {w} : step'[u] = step[u] /\ work'[u] = work[u]
  BY <1>3 DEF OnlyHere, Shaped
<1>6. /\ request' = request /\ \A i \in Jobs : RowKept(i)
      /\ \A u \in Workers : proc'[u].pc = proc[u].pc /\ proc'[u].job = proc[u].job
  BY <1>1, HandlersKeepRows
<1>7. \A i \in Jobs : Stays(i)
  BY <1>4, <1>5 DEF Stays
<1>8. ASSUME NEW i \in Jobs PROVE Lasting(i)'
  <2>1. Settled(i)'
    <3>1. CASE i = j
      <4>1. job'[j].status \in {"running", "cancel_requested"} /\ job'[j].worker # NoWorker
        BY <1>2, <1>6, QueueAssumption DEF RowKept, InProgress, Owned, QueueAssumption
      <4> QED  BY <3>1, <4>1 DEF Settled, Waiting, Exists, EndedByWorker
    <3>2. CASE i # j
      <4>1. EndedByWorker(i)' => EndedByWorker(i)
        <5>1. UNCHANGED vars \/ \E p \in Reports : heartbeat(j, w, p)
          BY <1>2, HandlersReport DEF Local, systemVars, vars, ReportAccepted
        <5>2. {} \in SUBSET Jobs
          OBVIOUS
        <5> QED  BY <1>1, <5>1, <5>2, OnlyWorkersEnd DEF PInv, WInv
      <4>2. Exists(i) \/ ~Exists(i)'
        BY <1>6 DEF RowKept, Exists
      <4> QED
        BY <1>1, <1>5, <3>2, <4>1, <4>2, RowsStaySettled DEF CInv, Lasting, PInv, WInv
    <3> QED  BY <3>1, <3>2
  <2>2. SourceKept(i)'
    BY <1>6, <1>7 DEF CInv, Lasting, SourceKept, Stays, Published, Grows
  <2>3. VersionOK(i)'
    BY <1>4, <1>5 DEF CInv, Lasting, VersionOK, Grows
  <2> QED  BY <2>1, <2>2, <2>3 DEF Lasting
<1>9. ASSUME NEW u \in Workers PROVE Leaves(u)'
  <2>1. IsImport(u)' = IsImport(u)
    BY <1>6 DEF IsImport
  <2>2. CASE u = w
    BY <1>2, <1>4, <1>6, <2>1, <2>2 DEF Leaves, Certain, Grows
  <2>3. CASE u # w /\ proc[u].pc \in Busy
    <3>1. proc[u].job \in Jobs \ {j}
      BY <1>1, <1>2, <2>3, BusyIsAlone DEF Busy
    <3> QED  BY <1>5, <1>6, <2>1, <2>3, <3>1 DEF CInv, Leaves, Certain, Grows
  <2>4. CASE proc[u].pc \notin Busy
    BY <1>6, <2>4 DEF Leaves, Busy
  <2> QED  BY <2>2, <2>3, <2>4
<1> QED  BY <1>7, <1>8, <1>9

\* If a step ends a job by its worker, the job's version explains it.
Ends(i) == EndedByWorker(i)' => EndedByWorker(i) \/ Explained(i)'

\* A process that claims a job finds nothing published but what a lost attempt left.
LEMMA ClaimingIsCalm ==
  ASSUME CInv, NEW w \in Workers, Claims(w), step'[w] = "prepare", UNCHANGED data,
         \A i \in Jobs : Grows(i)
  PROVE  Leaves(w)' /\ \A i \in Jobs : Ends(i)
<1>1. PICK j \in Jobs : /\ claim_next(j, w, Supported, {})
                       /\ proc' = [proc EXCEPT ![w] = Begun(w, j)]
  BY DEF Claims
<1>2. proc \in [Workers -> Process] /\ IInv /\ {} \in SUBSET Jobs
  BY DEF CInv, BInv, PInv, WInv
<1>3. job[j].status = "queued" /\ proc'[w].pc = "handler" /\ proc'[w].job = j
  BY <1>1, <1>2 DEF claim_next, Claimable, Begun
<1>4. version[j] \notin Published \/ Repeated(j)
  BY <1>3 DEF CInv, Lasting, Settled, Waiting
<1>5. Leaves(w)'
  BY <1>3, <1>4 DEF Leaves, Certain, data, Grows
<1>6. ASSUME NEW i \in Jobs PROVE Ends(i)
  BY <1>1, <1>2, OnlyWorkersEnd DEF Ends
<1> QED  BY <1>5, <1>6

\* An attempt that ends shows how.
LEMMA ClosingIsCalm ==
  ASSUME CInv, NEW w \in Workers, NEW j \in Jobs, Closes(w, j), UNCHANGED data
  PROVE  Leaves(w)' /\ \A i \in Jobs : Ends(i)
<1>1. PICK outcome \in {"cancelled", "succeeded", "failed"} :
         /\ EndAttempt(j, outcome)
         /\ outcome = "succeeded" => proc[w].pc = "succeed"
         /\ outcome = "failed" => proc[w].pc = "fail"
  BY DEF Closes
<1>2. job \in [Jobs -> JobRow]
  BY DEF CInv, BInv, PInv, WInv, IInv, Shape
<1>3. job'[j].status = outcome /\ \A i \in Jobs \ {j} : job'[i] = job[i]
  BY <1>1, <1>2 DEF EndAttempt, Ended, JobRow
<1>4. proc[w].pc \in {"succeed", "fail", "acknowledge_cancellation"} /\ proc[w].job = j
  BY DEF Closes, Busy
<1>5. /\ proc[w].pc = "succeed" => run[j] = "completed"
      /\ proc[w].pc = "fail" => Marked(run[j]) \/ CallsMayFail
      /\ proc[w].pc = "acknowledge_cancellation" => Marked(run[j]) \/ run[j] = "completed"
  BY <1>4 DEF CInv, BInv, Progress, IsShown, Leaves
<1>6. Leaves(w)'
  BY DEF Closes, Leaves
<1>7. ASSUME NEW i \in Jobs PROVE Ends(i)
  BY <1>1, <1>3, <1>4, <1>5 DEF Ends, EndedByWorker, Explained, data
<1> QED  BY <1>6, <1>7

\* A process that goes on with its attempt, at most with a heartbeat.
LEMMA GoingOnIsCalm ==
  ASSUME CInv, NEW w \in Workers, NEW j \in Jobs, GoesOnWith(w, j),
         UNCHANGED data, request' = request, \A i \in Jobs : Grows(i),
         proc[w].pc = "handler" => step'[w] = step[w] /\ work'[w] = work[w]
  PROVE  Leaves(w)' /\ \A i \in Jobs : Ends(i)
<1>1. proc'[w].pc = proc[w].pc /\ proc'[w].job = proc[w].job /\ proc[w].job = j
  BY DEF GoesOnWith
<1>2. Leaves(w)'
  BY <1>1 DEF CInv, Leaves, Certain, IsImport, data, Grows
<1>3. IInv /\ {} \in SUBSET Jobs
  BY DEF CInv, BInv, PInv, WInv
<1>4. ASSUME NEW i \in Jobs PROVE Ends(i)
  BY <1>3, OnlyWorkersEnd DEF GoesOnWith, Ends
<1> QED  BY <1>2, <1>4

\* A process that polls, sweeps or dies.
LEMMA LeavingIsCalm ==
  ASSUME CInv, NEW w \in Workers, LooksAfterOthers(w) \/ Dies(w)
  PROVE  Leaves(w)' /\ \A i \in Jobs : Ends(i)
<1>1. Leaves(w)'
  BY DEF LooksAfterOthers, Dies, Leaves, Busy
<1>2. PICK batch \in SUBSET Jobs :
         \/ UNCHANGED vars
         \/ acknowledge_unclaimed_cancellations(batch) \/ recover_stale(batch)
  BY DEF LooksAfterOthers, Dies
<1>3. IInv
  BY DEF CInv, BInv, PInv, WInv
<1>4. ASSUME NEW i \in Jobs PROVE Ends(i)
  BY <1>2, <1>3, OnlyWorkersEnd DEF Ends
<1> QED  BY <1>1, <1>4

\* A handler that is over.
LEMMA EndingIsCalm ==
  ASSUME CInv, NEW w \in Workers, Finish(w), UNCHANGED data, \A i \in Jobs : Grows(i)
  PROVE  Leaves(w)' /\ \A i \in Jobs : Ends(i)
<1>1. proc \in [Workers -> Process]
  BY DEF CInv, BInv, PInv, WInv
<1>2. /\ proc[w].pc = "handler" /\ proc'[w].job = proc[w].job /\ UNCHANGED vars
      /\ proc'[w].pc = IF step[w] = "return" THEN "succeed"
                       ELSE IF step[w] = "raise" THEN "fail" ELSE "acknowledge_cancellation"
      /\ step[w] \in {"return", "raise", "raise_cancelled"}
  BY <1>1 DEF Finish, InHandlerAt, HandlerEnds, Go, Executing, Process
<1>3. Leaves(w)'
  BY <1>2 DEF CInv, Leaves, Certain, data
<1>4. ASSUME NEW i \in Jobs PROVE Ends(i)
  BY <1>2 DEF vars, Ends, EndedByWorker
<1> QED  BY <1>3, <1>4

\* So does the rest of a process's step.
LEMMA AroundIsCalm ==
  ASSUME CInv, ~MayPause, faults = 0, faults' = 0, NEW w \in Workers, Around(w),
         [Next]_vars, \A i \in Jobs : Grows(i)
  PROVE  /\ \A u \in Workers : Leaves(u)'
         /\ \A i \in Jobs : Lasting(i)' /\ Stays(i)
<1>1. PInv /\ BInv /\ IInv
  BY DEF CInv, BInv, PInv, WInv
<1>2. /\ UNCHANGED data
      /\ step'[w] \in {"idle", "prepare", step[w]} /\ Placed(w)'
      /\ proc'[w].pc = "handler" /\ proc[w].pc = "handler" =>
            step'[w] = step[w] /\ work'[w] = work[w] /\ proc'[w].job = proc[w].job
      /\ \A u \in Workers \ {w} :
            proc'[u] = proc[u] /\ step'[u] = step[u] /\ work'[u] = work[u]
  BY <1>1, AroundKeepsPlace
<1>3. request' = request
  BY <1>1, AroundIsSystem, ProcessesTransact
     DEF Transaction, vars, acknowledge_unclaimed_cancellations, recover_stale, claim_next,
         heartbeat, EndAttempt, PInv
<1>4. Leaves(w)' /\ \A i \in Jobs : Ends(i)
  <2>1. CASE Finish(w)
    BY <1>2, <2>1, EndingIsCalm
  <2>2. CASE ShellStep(w)
    <3>1. Shell(w)
      BY <2>2 DEF ShellStep
    <3>2. CASE Claims(w)
      <4>1. proc'[w].pc = "handler" /\ proc[w].pc # "handler"
        BY <1>1, <3>2 DEF Claims, Begun, PInv, WInv
      <4>2. step'[w] = "prepare"
        BY <1>1, <2>2, <4>1 DEF ShellStep, Continue, PInv, Shaped
      <4> QED  BY <1>2, <3>2, <4>2, ClaimingIsCalm
    <3>3. ASSUME NEW j \in Jobs, GoesOnWith(w, j) PROVE <1>4!:
      <4>1. proc'[w].pc = proc[w].pc
        BY <3>3 DEF GoesOnWith
      <4> QED  BY <1>2, <1>3, <3>3, <4>1, GoingOnIsCalm
    <3>4. ASSUME NEW j \in Jobs, Closes(w, j) PROVE <1>4!:
      BY <1>2, <3>4, ClosingIsCalm
    <3>5. CASE LooksAfterOthers(w) \/ Dies(w)
      BY <3>5, LeavingIsCalm
    <3> QED  BY <1>1, <3>1, <3>2, <3>3, <3>4, <3>5, CalmMoves DEF PInv
  <2> QED  BY <2>1, <2>2 DEF Around
<1>5. ASSUME NEW i \in Jobs PROVE Lasting(i)' /\ Stays(i)
  <2>1. Exists(i) \/ ~Exists(i)'
    BY <1>1, AroundIsSystem, OnlyStagingInserts DEF PInv
  <2>2. Settled(i)'
    BY <1>1, <1>2, <1>4, <2>1, RowsStaySettled DEF CInv, Lasting, Ends, data
  <2> QED
    BY <1>2, <1>3, <2>2 DEF CInv, Lasting, SourceKept, VersionOK, Stays, Grows, data
<1>6. ASSUME NEW u \in Workers \ {w} PROVE Leaves(u)'
  BY <1>2, <1>3, LeavesStay DEF data
<1> QED  BY <1>4, <1>5, <1>6

\* The clock, and a client that cancels or retries.
LEMMA CallsAreCalm ==
  ASSUME CInv, JobCall \/ TimePasses, UNCHANGED <<data, work>>,
         [Next]_vars, \A i \in Jobs : Grows(i)
  PROVE  /\ \A u \in Workers : Leaves(u)'
         /\ \A i \in Jobs : Lasting(i)' /\ Stays(i)
<1>1. UNCHANGED <<proc, step, request, version, run, stored, work>> /\ IInv
  BY DEF JobCall, TimePasses, workerVars, request_cancel, retry, RowExpires, HeartbeatExpires,
         data, CInv, BInv, PInv, WInv
<1>2. ASSUME NEW u \in Workers PROVE Leaves(u)'
  BY <1>1, LeavesStay
<1>3. ASSUME NEW i \in Jobs PROVE Lasting(i)' /\ Stays(i)
  <2>1. Exists(i) \/ ~Exists(i)'
    BY OnlyStagingInserts DEF CInv, BInv, PInv
  <2>2. EndedByWorker(i)' => EndedByWorker(i)
    <3>1. PICK j \in Jobs : request_cancel(j) \/ retry(j) \/ HeartbeatExpires(j)
      BY DEF JobCall, TimePasses, RowExpires
    <3> SUFFICES ASSUME EndedByWorker(i)' PROVE EndedByWorker(i)
      OBVIOUS
    <3>2. job \in [Jobs -> JobRow]
      BY <1>1 DEF IInv, Shape
    <3> QED
      BY <3>1, <3>2
         DEF EndedByWorker, request_cancel, retry, Requeued, HeartbeatExpires, JobRow
  <2>3. Settled(i)'
    BY <1>1, <2>1, <2>2, RowsStaySettled DEF CInv, Lasting
  <2> QED
    BY <1>1, <2>3 DEF CInv, Lasting, SourceKept, VersionOK, Stays, Grows
<1> QED  BY <1>2, <1>3

\* A transformation is staged on a version that is ready for it.
LEMMA StagingIsCalm ==
  ASSUME CInv, ~MayPause, faults = 0, Stage, [Next]_vars, \A i \in Jobs : Grows(i)
  PROVE  /\ \A u \in Workers : Leaves(u)'
         /\ \A i \in Jobs : Lasting(i)' /\ Stays(i)
<1>1. PICK j \in Jobs, v \in {"uploaded", "transforming"}, r \in Requests : Stages(j, v, r)
  BY StagingStages
<1> USE DEF Stages
<1>2. IInv /\ Shape /\ job[j] = NoRow /\ ~Exists(j)
  BY <1>1 DEF CInv, BInv, PInv, WInv, IInv, JobOK, RowOK, Enqueue, Exists
<1>3. /\ job'[j].status = "queued" /\ request'[j] = r
      /\ \A i \in Jobs \ {j} : job'[i] = job[i] /\ request'[i] = request[i]
  BY <1>1, <1>2 DEF Enqueue, Shape, NoRow
<1>4. /\ version'[j] = v /\ version[j] = "none" /\ run'[j] = "queued"
      /\ \A i \in Jobs \ {j} : version'[i] = version[i] /\ run'[i] = run[i]
  BY <1>1, <1>2 DEF CInv, BInv, PInv, Shaped, Lasting, Settled
<1>5. ASSUME NEW i \in Jobs PROVE Stays(i)
  BY <1>1, <1>4 DEF Stays, Published
<1>6. ASSUME NEW i \in Jobs PROVE SourceKept(i)'
  <2>1. CASE i # j
    BY <1>3, <1>4, <2>1 DEF CInv, Lasting, SourceKept, Grows
  <2>2. ASSUME i = j, NEW s \in Jobs, r = TransformationRequest(s)
        PROVE  version'[s] = "ready_for_transformation"
    <3>1. ImportRequest.type = "dataset_import" /\ r.type = "data_transformation" /\ r.payload = s
      BY <2>2 DEF ImportRequest, TransformationRequest, Staged
    <3>2. PICK t \in Jobs : r = TransformationRequest(t) /\ CanTransform(t)
      BY <1>1, <3>1
    <3>3. t = s
      BY <3>1, <3>2 DEF TransformationRequest, Staged
    <3> QED  BY <1>4, <3>2, <3>3 DEF CanTransform
  <2> QED  BY <1>3, <2>1, <2>2 DEF SourceKept
<1>7. ASSUME NEW i \in Jobs PROVE Lasting(i)'
  <2>1. CASE i = j
    BY <1>3, <1>4, <1>6, <2>1
       DEF Lasting, Settled, Waiting, EndedByWorker, Exists, VersionOK, Published, Marked
  <2>2. CASE i # j
    <3>1. Settled(i)' /\ VersionOK(i)'
      BY <1>1, <1>3, <1>4, <2>2
         DEF CInv, Lasting, Settled, Exists, EndedByWorker, Explained, VersionOK, Grows
    <3> QED  BY <1>6, <3>1 DEF Lasting
  <2> QED  BY <2>1, <2>2
<1>8. ASSUME NEW u \in Workers PROVE Leaves(u)'
  <2>1. CASE proc[u].pc \in Busy
    <3>1. proc[u].job \in Jobs \ {j}
      BY <1>2, <2>1, BusyIsAlone DEF CInv, BInv
    <3> QED  BY <1>1, <1>3, <1>4, <3>1, LeavesStay
  <2>2. CASE proc[u].pc \notin Busy
    BY <1>1, <2>2 DEF Leaves, Busy
  <2> QED  BY <2>1, <2>2
<1> QED  BY <1>5, <1>7, <1>8

\* CInv is inductive, and published versions stay.
LEMMA CStep ==
  ASSUME ~MayPause, MaxFaults = 0, CInv, [PipelineNext]_pipelineVars
  PROVE  CInv' /\ \A i \in Jobs : Stays(i)
<1>1. BInv'
  BY BStep DEF CInv
<1>2. faults = 0 /\ faults' = 0
  <2>1. WInv /\ WInv'
    BY <1>1 DEF CInv, BInv, PInv
  <2>2. Counters /\ Counters'
    BY <2>1 DEF WInv
  <2> QED  BY <2>2 DEF Counters
<1>3. [Next]_vars /\ \A i \in Jobs : Grows(i)
  <2>1. WInv /\ [Next]_vars
    BY EveryStepIsASystemStep, SystemStep DEF CInv, BInv, PInv, pipelineVars, handlerVars
  <2> QED  BY <2>1, JobsGrow
<1> DEFINE Good == (\A u \in Workers : Leaves(u)') /\ \A i \in Jobs : Lasting(i)' /\ Stays(i)
<1>4. CASE UNCHANGED pipelineVars
  <2>1. UNCHANGED <<job, request, proc, step, version, run, stored, work>>
    BY <1>4 DEF pipelineVars, handlerVars, systemVars, data
  <2>2. \A u \in Workers : Leaves(u)'
    BY <1>3, <2>1, LeavesStay
  <2>3. \A i \in Jobs : Lasting(i)' /\ Stays(i)
    BY <1>3, <2>1
       DEF CInv, Lasting, Settled, Exists, EndedByWorker, Explained, SourceKept, VersionOK,
           Stays, Grows
  <2> QED  BY <1>1, <2>2, <2>3 DEF CInv
<1>5. ASSUME NEW w \in Workers, HandlerStep(w) PROVE Good
  BY <1>2, <1>3, <1>5, HandlersAreCalm
<1>6. ASSUME NEW w \in Workers, Around(w) PROVE Good
  BY <1>2, <1>3, <1>6, AroundIsCalm
<1>7. Stage => Good
  BY <1>2, <1>3, StagingIsCalm
<1>8. (JobCall \/ TimePasses) /\ UNCHANGED <<data, work>> => Good
  BY <1>3, CallsAreCalm
<1> QED  BY <1>1, <1>4, <1>5, <1>6, <1>7, <1>8 DEF PipelineNext, CInv

\* CInv holds at first.
LEMMA InitIsCalm == PipelineInit => CInv
<1> SUFFICES ASSUME PipelineInit PROVE CInv
  OBVIOUS
<1>1. \A w \in Workers : proc[w].pc = "recover"
  BY DEF PipelineInit, HandlerInit, SystemInit, At
<1>2. \A j \in Jobs : /\ job[j].status = "absent" /\ version[j] = "none" /\ run[j] = "none"
                      /\ request[j] = NoRequest
  BY DEF PipelineInit, HandlerInit, SystemInit, Init, NoRow
<1>3. \A s \in Jobs : TransformationRequest(s) # NoRequest
  BY PipelineAssumption, QueueAssumption DEF PipelineAssumption, QueueAssumption
<1> QED
  BY <1>1, <1>2, <1>3, InitIsWhole
     DEF CInv, Leaves, Lasting, Settled, Waiting, EndedByWorker, SourceKept, VersionOK, Marked

\* CInv is an invariant, while heartbeats are heard.
LEMMA CalmInvariant ==
  ASSUME ~MayPause, MaxFaults = 0
  PROVE  PipelineSpec => []CInv
<1>1. CInv /\ [PipelineNext]_pipelineVars => CInv'
  BY CStep
<1> QED  BY <1>1, InitIsCalm, PTL DEF PipelineSpec

\* A version that transformations and experiments are staged on keeps its status and rows,
\* until its own job is in progress again after an attempt was lost; a job that is over never
\* disturbs it.  Crashes, failing repository calls, cancellations and retries are allowed.
THEOREM PublishedStays ==
  ASSUME ~MayPause, MaxFaults = 0
  PROVE  PipelineSpec => PublishedVersionsStay
<1>1. CInv /\ [PipelineNext]_pipelineVars =>
         [\A j \in Jobs : version[j] \in Published =>
             \/ version'[j] = version[j] /\ stored'[j] = stored[j]
             \/ Repeated(j) /\ Active(j)]_pipelineVars
  BY CStep DEF Stays
<1> QED  BY <1>1, CalmInvariant, PTL DEF PipelineSpec, PublishedVersionsStay

\* A ready hourly version was computed from every row of its source, unless the import of
\* that source was repeated, whatever else crashed, failed, was cancelled or tried again.
THEOREM HourlyVersionsAreWhole ==
  ASSUME ~MayPause, MaxFaults = 0
  PROVE  PipelineSpec => []TransformationsFollowTheirSource
<1>1. CInv => TransformationsFollowTheirSource
  <2> SUFFICES ASSUME CInv, NEW j \in Jobs, NEW s \in Jobs,
                      request[j] = TransformationRequest(s),
                      version[j] = "ready", stored[j] # Batches
               PROVE  Repeated(s)
    BY DEF TransformationsFollowTheirSource
  <2>1. PICK t \in Jobs : request[j] = TransformationRequest(t) /\ Repeated(t)
    BY DEF CInv, Lasting, VersionOK, Moved
  <2>2. t = s
    BY <2>1 DEF TransformationRequest, Staged
  <2> QED  BY <2>1, <2>2
<1> QED  BY <1>1, CalmInvariant, PTL

\* A job that a worker ended without success shows it: a run marked failed or cancelled has
\* taken its version back, after whatever lost attempts, and the run is so marked unless its
\* cancellation came after the version was published or a repository call failed.
THEOREM EndingsAreVisible ==
  ASSUME ~MayPause, MaxFaults = 0
  PROVE  PipelineSpec => []OtherEndingsAreVisible
<1>1. CInv => OtherEndingsAreVisible
  BY DEF CInv, Lasting, Settled, VersionOK, Explained, Marked, OtherEndingsAreVisible
<1> QED  BY <1>1, CalmInvariant, PTL
=============================================================================
