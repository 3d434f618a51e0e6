---------------------------- MODULE Experiment ------------------------------
(***************************************************************************)
(* Forecasting experiments: staging and cancelling (experiments/service.py), *)
(* the worker's handler (experiments/handler.py) and the repository's       *)
(* transactions (database/experiment_repository.py), run by the workers of  *)
(* JobWorker.  Staging creates one experiment per job and one model run per *)
(* algorithm, so experiments are indexed by their jobs and model runs by    *)
(* job and algorithm.                                                       *)
(***************************************************************************)
EXTENDS JobHandlers, Selection

CONSTANT Metrics   \* bound: the metrics that a cross-validation can have

ASSUME ExperimentAssumption ==
    /\ Algorithms # {} /\ Metrics \subseteq Metric /\ {75, 100} \subseteq Reports
    /\ Staged("experiment", "experiment") \in Requests

VARIABLES
    experiment,  \* rows of app.experiments
    models,      \* rows of app.model_runs, with their metric rows
    cancelling,  \* cancel requests between their two transactions
    work         \* the local variables of each process's handler

data == <<experiment, models, cancelling>>

experimentVars == <<handlerVars, data, work>>

ExperimentStatuses == {"none", "queued", "running", "cancelling", "completed", "failed",
                       "cancelled"}

\* opened: final_test_opened_at is set; manifest: the attempt whose bundle result_manifest
\* names, 0 when there is none.
ExperimentRow == [status : ExperimentStatuses, opened : BOOLEAN, manifest : 0..AttemptLimit]

\* scored: mean_cv_mae is set; tested: the final metrics and horizon rows are there; bundle:
\* the attempt that stored the artifact referred to, which nothing takes away again.
ModelRow == [status : {"none", "pending", "selected_parameters", "fitting_final",
                       "completed", "failed"},
             scored : BOOLEAN, recommended : BOOLEAN, tested : BOOLEAN, bundle : 0..AttemptLimit]

NoModel == [status |-> "none", scored |-> FALSE, recommended |-> FALSE, tested |-> FALSE,
            bundle |-> 0]

Steps == {"idle", "prepare", "load", "evaluate", "save_cv", "fail_model", "report",
          "open_final_test", "save_bundle", "save_final", "complete", "report_full",
          "mark_failed", "mark_cancelled", "return", "raise", "raise_cancelled"}

\* left: algorithms still to evaluate; successful: those whose result was saved;
\* current: the one in hand, in the end the recommended one.
Work == [left : SUBSET Algorithms, successful : SUBSET Algorithms,
         current : SUBSET Algorithms]

NoWork == [left |-> {}, successful |-> {}, current |-> {}]

ExperimentInit ==
    /\ HandlerInit
    /\ experiment = [j \in Jobs |-> [status |-> "none", opened |-> FALSE, manifest |-> 0]]
    /\ models = [j \in Jobs |-> [a \in Algorithms |-> NoModel]]
    /\ cancelling = {}
    /\ work = [w \in Workers |-> NoWork]

-----------------------------------------------------------------------------
\* Client calls.

\* The dataset version is ready when it is staged on; the handler reads it later.
Stage(j) ==
    /\ Enqueue(j, Staged("experiment", "experiment"), NoKey)
    /\ experiment' = [experiment EXCEPT ![j].status = "queued"]
    /\ models' = [models EXCEPT ![j] = [a \in Algorithms |->
                                          [NoModel EXCEPT !.status = "pending"]]]
    /\ UNCHANGED <<workerVars, step, cancelling, work>>

\* ExperimentService.cancel marks the experiment, and then asks for the job's stop: two
\* transactions, and the second may be refused, or never come.
MarkCancelling(j) ==
    /\ experiment[j].status \in {"queued", "running"}
    /\ experiment' = [experiment EXCEPT ![j].status = "cancelling"]
    /\ cancelling' = cancelling \cup {j}
    /\ UNCHANGED <<models, work, step>> /\ Local

CancelJob(j) ==
    /\ j \in cancelling
    /\ \/ request_cancel(j)
       \/ ~validate_transition(j, "cancel_requested") /\ UNCHANGED vars
    /\ cancelling' = cancelling \ {j}
    /\ UNCHANGED <<experiment, models, work, step, workerVars>>

-----------------------------------------------------------------------------
\* The handler.

Row(w) == experiment[proc[w].job]

Models(w) == models[proc[w].job]

\* Rewrites the model run in hand, or all the others too.
SetModels(w, current(_), other(_)) ==
    models' = [models EXCEPT ![proc[w].job] =
                 [a \in Algorithms |-> IF a \in work[w].current THEN current(Models(w)[a])
                                                               ELSE other(Models(w)[a])]]

AsItIs(row) == row

SetStatus(w, status) == experiment' = [experiment EXCEPT ![proc[w].job].status = status]

\* repository.prepare takes an experiment that waits or that a lost attempt left running.
Preparable(w) == Row(w).status \in {"queued", "running"}

Prepare(w) ==
    /\ InHandlerAt(w, "prepare") /\ Preparable(w)
    /\ SetStatus(w, "running")
    /\ work' = [work EXCEPT ![w].left = Algorithms]
    /\ Continue(w, "load")
    /\ UNCHANGED <<models, cancelling>> /\ Local

NotPreparable(w) ==
    /\ InHandlerAt(w, "prepare") /\ ~Preparable(w)
    /\ Continue(w, "mark_failed")
    /\ UNCHANGED <<data, work>> /\ Local

\* The hourly rows, the feature matrix and the folds; too little history is refused.
Load(w) ==
    /\ InHandlerAt(w, "load")
    /\ Continue(w, "evaluate") \/ Continue(w, "mark_failed")
    /\ UNCHANGED <<data, work>> /\ Local

\* One turn of the loop: cross-validate the next algorithm, which may raise.
Evaluate(w) ==
    /\ InHandlerAt(w, "evaluate") /\ work[w].left # {}
    /\ IF proc[w].seen THEN Continue(w, "mark_cancelled") /\ UNCHANGED work
       ELSE /\ \E a \in work[w].left :
                  work' = [work EXCEPT ![w].left = @ \ {a}, ![w].current = {a}]
            /\ Continue(w, "save_cv") \/ Continue(w, "fail_model")
    /\ UNCHANGED data /\ Local

\* Faulty variant: a new score takes the recommendation away.
Scored_Reset(row) == [NoModel EXCEPT !.status = "selected_parameters", !.scored = TRUE]

\* Faulty variant: a new score takes the bundle away.
Scored_WithoutBundle(row) == [row EXCEPT !.status = "selected_parameters", !.scored = TRUE,
                                         !.tested = FALSE, !.bundle = 0]

\* Metric rows of every scope are replaced.
Scored(row) == [row EXCEPT !.status = "selected_parameters", !.scored = TRUE,
                           !.tested = FALSE]

SaveCvResult(w) ==
    /\ InHandlerAt(w, "save_cv")
    /\ SetModels(w, Scored, AsItIs)
    /\ work' = [work EXCEPT ![w].successful = @ \cup work[w].current]
    /\ Continue(w, "report")
    /\ UNCHANGED <<experiment, cancelling>> /\ Local

WithStatus(row, status) == [row EXCEPT !.status = status]

FailModel(w) ==
    /\ InHandlerAt(w, "fail_model")
    /\ SetModels(w, LAMBDA row : WithStatus(row, "failed"), AsItIs)
    /\ Continue(w, "report")
    /\ UNCHANGED <<experiment, cancelling, work>> /\ Local

\* int((position + 1) / n * 75): how far exactly is of no consequence.
Report(w) ==
    /\ InHandlerAt(w, "report")
    /\ Reported(w, 75, "evaluate", "mark_cancelled", "mark_failed")
    /\ UNCHANGED <<data, work>>

\* The metrics include measured times: another attempt may have others and recommend
\* another algorithm.  Then the final model is fitted.
Select(w) ==
    /\ InHandlerAt(w, "evaluate") /\ work[w].left = {}
    /\ \/ /\ work[w].successful = {}
          /\ Continue(w, "mark_failed") /\ UNCHANGED work
       \/ /\ work[w].successful # {} /\ proc[w].seen
          /\ Continue(w, "mark_cancelled") /\ UNCHANGED work
       \/ /\ work[w].successful # {} /\ ~proc[w].seen
          /\ \E metrics \in [work[w].successful -> Metrics] :
                work' = [work EXCEPT ![w].current = Recommended(metrics)]
          /\ Continue(w, "open_final_test")
    /\ UNCHANGED data /\ Local

\* Faulty variant: without the unique index.
MayRecommend_Anyone(w) == \A a \in work[w].current : Models(w)[a].scored

\* The partial unique index lets one model run of an experiment be recommended.
MayRecommend(w) ==
    /\ \A a \in work[w].current : Models(w)[a].scored
    /\ \A a \in Algorithms \ work[w].current : ~Models(w)[a].recommended

\* Faulty variant: only the recommended model run is looked after.
PassedOver_Kept(row) == row

PassedOver(row) ==
    IF row.status = "selected_parameters" THEN WithStatus(row, "completed") ELSE row

OpenFinalTest(w) ==
    /\ InHandlerAt(w, "open_final_test") /\ MayRecommend(w)
    /\ SetModels(w, LAMBDA row : [row EXCEPT !.status = "fitting_final",
                                             !.recommended = TRUE], PassedOver)
    /\ experiment' = [experiment EXCEPT ![proc[w].job].opened = TRUE]
    /\ Continue(w, "save_bundle")
    /\ UNCHANGED <<cancelling, work>> /\ Local

OpeningRefused(w) ==
    /\ InHandlerAt(w, "open_final_test") /\ ~MayRecommend(w)
    /\ Continue(w, "mark_failed")
    /\ UNCHANGED <<data, work>> /\ Local

\* The final test is evaluated, if it has any origins, and the bundle stored.
SaveBundle(w) ==
    /\ InHandlerAt(w, "save_bundle")
    /\ Continue(w, "save_final") \/ Continue(w, "mark_failed")
    /\ UNCHANGED <<data, work>> /\ Local

\* The horizon rows' primary key refuses a second set.
SaveFinalResult(w) ==
    /\ InHandlerAt(w, "save_final")
    /\ IF \A a \in work[w].current : Models(w)[a].recommended /\ ~Models(w)[a].tested
       THEN /\ SetModels(w, LAMBDA row : [row EXCEPT !.status = "completed",
                                                     !.tested = TRUE,
                                                     !.bundle = proc[w].attempt], AsItIs)
            /\ Continue(w, "complete")
       ELSE Continue(w, "mark_failed") /\ UNCHANGED models
    /\ UNCHANGED <<experiment, cancelling, work>> /\ Local

Complete(w) ==
    /\ InHandlerAt(w, "complete") /\ Row(w).opened
    /\ experiment' = [experiment EXCEPT ![proc[w].job].status = "completed",
                                        ![proc[w].job].manifest = proc[w].attempt]
    /\ Continue(w, "report_full")
    /\ UNCHANGED <<models, cancelling, work>> /\ Local

ReportFull(w) ==
    /\ InHandlerAt(w, "report_full")
    /\ Reported(w, 100, "return", "mark_cancelled", "mark_failed")
    /\ UNCHANGED <<data, work>>

\* Faulty variant: the outcome of a completed experiment is overwritten.
MayFail_Always(w) == TRUE

MayFail(w) == Row(w).status # "completed"

\* repository.fail_experiment, then the exception goes on.
Mark(w, status, next) ==
    /\ IF MayFail(w) THEN SetStatus(w, status) ELSE UNCHANGED experiment
    /\ Continue(w, next)
    /\ UNCHANGED <<models, cancelling, work>> /\ Local

MarkFailed(w) == InHandlerAt(w, "mark_failed") /\ Mark(w, "failed", "raise")

MarkCancelled(w) ==
    InHandlerAt(w, "mark_cancelled") /\ Mark(w, "cancelled", "raise_cancelled")

\* A repository call raises and nothing is committed: a model's result that cannot be
\* saved fails the model, everything else the experiment.
CallFails(w) ==
    /\ CallsMayFail
    /\ proc[w].pc = "handler"
    /\ step[w] \notin {"evaluate", "return", "raise", "raise_cancelled"}
    /\ Continue(w, CASE step[w] \in {"mark_failed", "mark_cancelled"} -> "raise"
                     [] step[w] = "save_cv" -> "fail_model"
                     [] OTHER -> "mark_failed")
    /\ UNCHANGED <<data, work>> /\ Local

HandlerStep(w) ==
    \/ Prepare(w) \/ NotPreparable(w) \/ Load(w) \/ Evaluate(w) \/ SaveCvResult(w)
    \/ FailModel(w) \/ Report(w) \/ Select(w) \/ OpenFinalTest(w) \/ OpeningRefused(w)
    \/ SaveBundle(w) \/ SaveFinalResult(w) \/ Complete(w) \/ ReportFull(w)
    \/ MarkFailed(w) \/ MarkCancelled(w) \/ CallFails(w)

Around(w) ==
    /\ Finish(w) \/ ShellStep(w)
    /\ work' = [work EXCEPT ![w] = IF step'[w] = "idle" THEN NoWork ELSE @]
    /\ UNCHANGED data

ExperimentNext ==
    \/ \E w \in Workers : HandlerStep(w) \/ Around(w)
    \/ \E j \in Jobs : Stage(j) \/ MarkCancelling(j) \/ CancelJob(j)
    \/ (JobCall \/ TimePasses) /\ UNCHANGED <<data, work>>

ExperimentSpec == ExperimentInit /\ [][ExperimentNext]_experimentVars

-----------------------------------------------------------------------------
\* Properties.

ExperimentTypeOK ==
    /\ HandlerTypeOK
    /\ experiment \in [Jobs -> ExperimentRow]
    /\ models \in [Jobs -> [Algorithms -> ModelRow]]
    /\ cancelling \subseteq Jobs
    /\ step \in [Workers -> Steps] /\ work \in [Workers -> Work]

\* A completed experiment shows a whole result: the final test was opened, one model is
\* recommended, has its final metrics and refers to the bundle that the manifest names,
\* every other one has been scored or has failed, none of them halfway, whatever earlier
\* attempts left behind.
CompletedIsWhole ==
    \A j \in Jobs : experiment[j].status = "completed" =>
        /\ experiment[j].opened
        /\ \E a \in Algorithms :
              /\ models[j][a].recommended /\ models[j][a].tested
              /\ models[j][a].status = "completed"
              /\ models[j][a].bundle = experiment[j].manifest /\ experiment[j].manifest # 0
        /\ \A a \in Algorithms : models[j][a].status \in {"completed", "failed"}

\* ADR-022: "Only that model receives final-test metrics".
OnlyTheRecommendedIsTested ==
    \A j \in Jobs : \A a, b \in Algorithms :
        /\ models[j][a].tested => models[j][a].recommended /\ experiment[j].opened
        /\ models[j][a].recommended /\ models[j][b].recommended => a = b

\* ADR-022: "The final test cannot influence tuning or recommendation".  Once the final
\* test has been opened the recommendation stands, also when a later attempt evaluates
\* every algorithm again and would now choose another one.
RecommendationIsFinal ==
    [][\A j \in Jobs : experiment[j].opened =>
          \A a \in Algorithms : models'[j][a].recommended = models[j][a].recommended
      ]_experimentVars

\* A completed experiment is not touched again, neither by the retry of its job nor by a
\* cancellation that comes late.
CompletedStays ==
    [][\A j \in Jobs : experiment[j].status = "completed" =>
          experiment'[j] = experiment[j] /\ models'[j] = models[j]]_experimentVars

\* docs/diagrams/11-job-state.mmd: "running --> succeeded: complete".  When the handler
\* has completed its experiment, the job does not end as failed or cancelled.
CompletedExperimentsSucceed ==
    \A j \in Jobs : experiment[j].status = "completed" =>
        job[j].status \notin {"failed", "cancelled"}

\* ADR-022: "Retrying a job can reuse the immutable definition": an attempt that a client
\* asked for finds an experiment it may prepare, unless it is being cancelled.
RetriesArePrepared ==
    \A w \in Workers : InHandlerAt(w, "prepare") /\ Executes(w) =>
        Preparable(w) \/ Row(w).status = "cancelling"
=============================================================================
