-------------------------- MODULE DatasetPipeline ---------------------------
(***************************************************************************)
(* Dataset imports and hourly transformations: the two job handlers that    *)
(* write dataset versions (datasets/importing.py, transformations/          *)
(* service.py), their repositories and the calls that stage them, run by    *)
(* the workers of JobWorker.                                                *)
(*                                                                          *)
(* Staging creates one dataset version and one import row or transformation *)
(* run per job, in the job's transaction; so everything here is indexed by  *)
(* the job.  A payload is the job of the source version, 0 for an import.   *)
(* Rows are counted in the batches of the source file: a transformation's   *)
(* hourly rows are known by the source batches they were computed from.     *)
(***************************************************************************)
EXTENDS JobHandlers

CONSTANT Batches  \* the batches of a source file, in order

ImportRequest == Staged("dataset_import", 0)

TransformationRequest(source) == Staged("data_transformation", source)

ASSUME PipelineAssumption ==
    /\ Batches \subseteq Nat \ {0}
    /\ {1, 99} \subseteq Reports
    /\ {ImportRequest} \cup {TransformationRequest(s) : s \in Jobs} \subseteq Requests

VARIABLES
    version,  \* dataset_versions.status
    run,      \* status of the dataset_imports row or the transformation_runs row
    stored,   \* rows in raw_measurements or hourly_observations
    report,   \* the rows the latest quality report was computed from
    work      \* the local variables of each process's handler

data == <<version, run, stored, report>>

pipelineVars == <<handlerVars, data, work>>

VersionStatuses == {"none", "uploaded", "importing", "imported", "ready_for_transformation",
                    "transforming", "ready", "failed"}

RunStatuses == {"none", "queued", "running", "completed", "failed", "cancelled"}

Steps == {"idle", "prepare", "open", "load", "insert", "report", "complete", "evaluate",
          "save", "last", "mark_failed", "mark_cancelled", "return", "raise", "raise_cancelled"}

\* left: batches not inserted yet; loaded: the rows the quality engine has read.
Work == [left : SUBSET Batches, loaded : SUBSET Batches]

NoWork == [left |-> {}, loaded |-> {}]

PipelineInit ==
    /\ HandlerInit
    /\ version = [j \in Jobs |-> "none"]
    /\ run = [j \in Jobs |-> "none"]
    /\ stored = [j \in Jobs |-> {}]
    /\ report = [j \in Jobs |-> {}]
    /\ work = [w \in Workers |-> NoWork]

-----------------------------------------------------------------------------
\* Staging (dataset_repository.py, transformation_repository.py).

StageImport(j) ==
    /\ Enqueue(j, ImportRequest, NoKey)
    /\ version' = [version EXCEPT ![j] = "uploaded"]
    /\ run' = [run EXCEPT ![j] = "queued"]
    /\ UNCHANGED <<workerVars, stored, report, step, work>>

\* Faulty variant: any version that is getting rows will do.
CanTransform_HasRows(source) ==
    version[source] \in {"importing", "imported", "ready_for_transformation"}

CanTransform(source) == version[source] = "ready_for_transformation"

StageTransformation(j, source) ==
    /\ CanTransform(source)
    /\ Enqueue(j, TransformationRequest(source), NoKey)
    /\ version' = [version EXCEPT ![j] = "transforming"]
    /\ run' = [run EXCEPT ![j] = "queued"]
    /\ UNCHANGED <<workerVars, stored, report, step, work>>

-----------------------------------------------------------------------------
\* Helpers of the handlers.

IsImport(w) == request[proc[w].job].type = "dataset_import"

Source(w) == request[proc[w].job].payload

ToInsert(w, batches) == work' = [work EXCEPT ![w].left = batches]

SetVersion(w, status) == version' = [version EXCEPT ![proc[w].job] = status]

SetRun(w, status) == run' = [run EXCEPT ![proc[w].job] = status]

-----------------------------------------------------------------------------
\* The handlers.

\* repository.prepare: one transaction, whatever the version's status was.
Prepare(w, status, next) ==
    /\ InHandlerAt(w, "prepare")
    /\ stored' = [stored EXCEPT ![proc[w].job] = {}]
    /\ SetRun(w, "running") /\ SetVersion(w, status)
    /\ Continue(w, next)
    /\ UNCHANGED <<report, work>> /\ Local

PrepareImport(w) == Prepare(w, "importing", "open") /\ IsImport(w)

\* The source's status is not looked at again.
PrepareTransformation(w) == Prepare(w, "transforming", "load") /\ ~IsImport(w)

\* The sampling interval of the source can be neither read nor inferred.
UnknownInterval(w) ==
    /\ InHandlerAt(w, "prepare") /\ ~IsImport(w)
    /\ Continue(w, "mark_failed")
    /\ UNCHANGED <<data, work>> /\ Local

\* An import opens its artifact and starts to parse it.
Open(w) ==
    /\ InHandlerAt(w, "open")
    /\ Continue(w, "insert") /\ ToInsert(w, Batches)
    /\ UNCHANGED data /\ Local

\* A transformation loads its source rows and computes its hours; the engine may refuse
\* them, for conflicting duplicates.
Load(w) ==
    /\ InHandlerAt(w, "load")
    /\ \/ proc[w].seen /\ Continue(w, "mark_cancelled") /\ UNCHANGED work
       \/ ~proc[w].seen /\ Continue(w, "insert") /\ ToInsert(w, stored[Source(w)])
       \/ ~proc[w].seen /\ Continue(w, "mark_failed") /\ UNCHANGED work
    /\ UNCHANGED data /\ Local

NextBatch(w) == CHOOSE n \in work[w].left : \A m \in work[w].left : n <= m

\* One turn of the batch loop: look at the cancellation event, insert the next batch in
\* a transaction of its own.
Insert(w) ==
    /\ InHandlerAt(w, "insert") /\ work[w].left # {} /\ ~proc[w].seen
    /\ NextBatch(w) \notin stored[proc[w].job]
    /\ stored' = [stored EXCEPT ![proc[w].job] = @ \cup {NextBatch(w)}]
    /\ ToInsert(w, work[w].left \ {NextBatch(w)})
    /\ Continue(w, "report")
    /\ UNCHANGED <<version, run, report>> /\ Local

\* The other ways out of that turn: cancelled, refused by the primary key because
\* another process has put the rows there, or stopped by a file that does not parse.
Interrupted(w) ==
    /\ InHandlerAt(w, "insert") /\ work[w].left # {}
    /\ \/ proc[w].seen /\ Continue(w, "mark_cancelled")
       \/ /\ ~proc[w].seen /\ NextBatch(w) \in stored[proc[w].job]
          /\ Continue(w, "mark_failed")
       \/ IsImport(w) /\ Continue(w, "mark_failed")
    /\ UNCHANGED <<data, work>> /\ Local

\* Faulty variant: the last, incomplete batch is not flushed.
AllInserted_ButOne(w) == Cardinality(work[w].left) <= 1

AllInserted(w) == work[w].left = {}

LoopEnds(w) ==
    /\ InHandlerAt(w, "insert") /\ AllInserted(w)
    /\ Continue(w, IF IsImport(w) THEN "complete" ELSE "last")
    /\ UNCHANGED <<data, work>> /\ Local

Report(w) ==
    /\ InHandlerAt(w, "report")
    /\ Reported(w, 1, "insert", "mark_cancelled", "mark_failed")
    /\ UNCHANGED <<data, work>>

\* The report of 99 percent comes last in an import, outside its try block, and before
\* completion in a transformation.
Last(w) ==
    /\ InHandlerAt(w, "last")
    /\ IF IsImport(w) THEN Reported(w, 99, "return", "raise_cancelled", "raise")
                      ELSE Reported(w, 99, "complete", "mark_cancelled", "mark_failed")
    /\ UNCHANGED <<data, work>>

\* repository.complete: the statistics and the status.
Complete(w, status, next) ==
    /\ InHandlerAt(w, "complete")
    /\ SetRun(w, "completed") /\ SetVersion(w, status)
    /\ Continue(w, next)
    /\ UNCHANGED <<stored, report, work>> /\ Local

CompleteImport(w) == Complete(w, "imported", "evaluate") /\ IsImport(w)

CompleteTransformation(w) == Complete(w, "ready", "return") /\ ~IsImport(w)

\* QualityService.evaluate reads in one transaction and saves in another.
Evaluate(w) ==
    /\ InHandlerAt(w, "evaluate")
    /\ Continue(w, "save")
    /\ work' = [work EXCEPT ![w].loaded = stored[proc[w].job]]
    /\ UNCHANGED data /\ Local

SaveReport(w) ==
    /\ InHandlerAt(w, "save")
    /\ report' = [report EXCEPT ![proc[w].job] = work[w].loaded]
    /\ SetVersion(w, "ready_for_transformation")
    /\ Continue(w, "last")
    /\ UNCHANGED <<run, stored, work>> /\ Local

\* Faulty variant: only the run is marked.
StatusAfterFailure_Kept(w) == version[proc[w].job]

StatusAfterFailure(w) == "failed"

\* Faulty variant: the exception is not raised again.
AfterFailure_Swallowed == "return"

AfterFailure == "raise"

\* repository.fail, then the exception goes on.
MarkFailed(w) ==
    /\ InHandlerAt(w, "mark_failed")
    /\ SetRun(w, "failed") /\ SetVersion(w, StatusAfterFailure(w))
    /\ Continue(w, AfterFailure)
    /\ UNCHANGED <<stored, report, work>> /\ Local

MarkCancelled(w) ==
    /\ InHandlerAt(w, "mark_cancelled")
    /\ SetRun(w, "cancelled") /\ SetVersion(w, StatusAfterFailure(w))
    /\ Continue(w, "raise_cancelled")
    /\ UNCHANGED <<stored, report, work>> /\ Local

\* Where an exception out of a repository call takes each handler: an import has
\* nothing around prepare, open, complete and its last report.
Except(w) ==
    CASE step[w] \in {"mark_failed", "mark_cancelled"} -> "raise"
      [] IsImport(w) /\ step[w] \in {"prepare", "open", "complete", "last"} -> "raise"
      [] OTHER -> "mark_failed"

\* A repository call raises and nothing is committed.
CallFails(w) ==
    /\ CallsMayFail
    /\ proc[w].pc = "handler" /\ step[w] \notin {"return", "raise", "raise_cancelled"}
    /\ Continue(w, Except(w))
    /\ UNCHANGED <<data, work>> /\ Local

HandlerStep(w) ==
    \/ PrepareImport(w) \/ PrepareTransformation(w) \/ UnknownInterval(w)
    \/ Open(w) \/ Load(w) \/ Insert(w) \/ Interrupted(w) \/ LoopEnds(w) \/ Report(w)
    \/ CompleteImport(w) \/ CompleteTransformation(w)
    \/ Evaluate(w) \/ SaveReport(w) \/ Last(w)
    \/ MarkFailed(w) \/ MarkCancelled(w) \/ CallFails(w)

\* The handler ends, or its process does something else; its local variables end with it.
Around(w) == (Finish(w) \/ ShellStep(w)) /\ UNCHANGED data
                  /\ work' = [work EXCEPT ![w] = IF step'[w] = "idle" THEN NoWork ELSE @]

-----------------------------------------------------------------------------
Stage ==
    \/ \E j \in Jobs : StageImport(j)
    \/ \E j, source \in Jobs : StageTransformation(j, source)

PipelineNext ==
    \/ \E w \in Workers : HandlerStep(w) \/ Around(w)
    \/ Stage
    \/ (JobCall \/ TimePasses) /\ UNCHANGED <<data, work>>

PipelineSpec == PipelineInit /\ [][PipelineNext]_pipelineVars

-----------------------------------------------------------------------------
\* Properties.

PipelineTypeOK ==
    /\ HandlerTypeOK
    /\ version \in [Jobs -> VersionStatuses] /\ run \in [Jobs -> RunStatuses]
    /\ stored \in [Jobs -> SUBSET Batches] /\ report \in [Jobs -> SUBSET Batches]
    /\ step \in [Workers -> Steps] /\ work \in [Workers -> Work]

\* The versions that others may be staged on.
Published == {"ready_for_transformation", "ready"}

\* ADR-015: "partial rows are never advertised as valid".  An imported version holds
\* every row of its file and the quality report it is shown with has seen all of them,
\* however often the import was interrupted, restarted or handed to another worker.
ImportsAreWhole ==
    \A j \in Jobs :
        /\ version[j] \in {"imported", "ready_for_transformation"} => stored[j] = Batches
        /\ version[j] = "ready_for_transformation" => report[j] = Batches

\* The same for hourly versions, as ADR-015 has it: a version that is ready was computed
\* from every row of its source.  With a crash it does not hold, see below.
TransformationsAreWhole ==
    \A j \in Jobs : version[j] = "ready" => stored[j] = Batches

\* An attempt of the job was lost by its worker, or a failing call ended it: the only
\* attempts that may have published the version and that another attempt follows.
Repeated(j) ==
    \E n \in 1..AttemptLimit :
        \/ attempts[j][n].status = "stale"
        \/ CallsMayFail /\ attempts[j][n].status = "failed"

\* A ready hourly version lacks rows of its source only if the import of that source was
\* repeated.  Nothing else makes hours incomplete: not the check when staging and the much
\* later read by another process, no cancellation or retry, no other crash, and not a
\* lost attempt of the transformation itself.
TransformationsFollowTheirSource ==
    \A j, s \in Jobs :
        /\ request[j] = TransformationRequest(s)
        /\ version[j] = "ready" /\ stored[j] # Batches
        => Repeated(s)

\* A job that succeeded has published its version and completed its run; nothing the
\* handler's error paths or another attempt did shows through.
SuccessIsPublished ==
    \A j \in Jobs : job[j].status = "succeeded" =>
        /\ run[j] = "completed"
        /\ version[j] \in Published

\* Its own call ended the job: a sweep would have left the heartbeat overdue or null.
EndedByWorker(j) ==
    job[j].status \in {"failed", "cancelled"} /\ job[j].heartbeat = "fresh"

\* A job that a worker ended without success shows it: a run that failed or was cancelled
\* has taken its version back, whatever earlier attempts published, and any other run was
\* completed before its cancellation came, or a call that fails kept the handler from
\* writing down how it ended.
OtherEndingsAreVisible ==
    \A j \in Jobs : EndedByWorker(j) =>
        /\ run[j] \in {"failed", "cancelled"} => version[j] = "failed"
        /\ \/ run[j] \in {"failed", "cancelled"}
           \/ job[j].status = "cancelled" /\ run[j] = "completed"
           \/ CallsMayFail

\* A published version keeps its status and its rows: transformations and experiments
\* that were staged on it read them later, without a lock and without looking again.
\* Only its own job disturbs it, while it is in progress once more after an attempt that
\* was lost or that a failing call ended; the version of a job that is over stays for good.
PublishedVersionsStay ==
    [][\A j \in Jobs : version[j] \in Published =>
          \/ version'[j] = version[j] /\ stored'[j] = stored[j]
          \/ Repeated(j) /\ Active(j)]_pipelineVars
=============================================================================
