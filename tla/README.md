# Formal model of the energy consumption forecasting system

TLA+ modules for the backend in `src/backend/src/energy_forecast` (paths below are relative to
it, unless they begin with `scripts` or `docs`): the PostgreSQL job queue, the worker processes, the
job handlers that import datasets, transform them and run experiments, the forecasts made from their
results, the catalogue of datasets and artifacts, the way from raw measurements to training and test
data, and the scripts of the Point 5 study with the workflow that runs them. TLC checks the modules
on small instances; TLAPS proves most of what the runs check for every instance.

## 1. The system

A FastAPI service and one or more worker processes share a PostgreSQL database and a directory of
artifact files. The API stages work (a resource row and a job row in one transaction) and clients
poll it. Workers claim jobs, run a handler, send heartbeats and report progress. There is no lock
over a job's execution and no broker: every interaction is a short transaction on a row. Beside the
service, a study is made with scripts: they prepare a dataset through the same service classes in a
database of their own, fetch weather, bind both in a handoff, and run a campaign of experiments whose
evidence a workflow commits to the branch.

| Part | State it keeps | Operations | Talks to | What makes it hard | What makes it correct |
|---|---|---|---|---|---|
| Job queue `database/job_queue.py`, `jobs/domain.py` | `app.jobs`, `app.job_attempts` | enqueue, request_cancel, retry, claim_next, heartbeat, succeed, fail, acknowledge_cancellation, two sweeps | called by API and workers | any caller at any time, lost workers that still answer, cancellation racing claim and completion | status, owner and attempt rows agree; budgets and keys hold; no job is out of the sweeps' reach |
| Worker `jobs/worker.py`, `worker.py` | process position, cancellation event, heartbeat task | run_once, _execute, _heartbeat_loop | queue, handlers | two tasks on one row, lost replies, errors in three places, crash and restart, pauses | outcomes come from the attempt they are written for; jobs end; processes come back |
| Imports `datasets/importing.py`, `database/import_repository.py` | version status, import row, raw rows | prepare, insert_batch, complete, fail | artifacts, quality, queue | many transactions per job, restarts in between, no ownership check | published versions are whole |
| Quality `quality/` | quality reports, version status | evaluate (load, compute, save) | raw rows | load and save are two transactions | the report saw every row |
| Transformations `transformations/`, `database/transformation_repository.py` | run row, target version, hourly rows | stage, prepare, load_source, insert_batch, complete, fail | source version of another job | the source is checked at staging and read later | ready versions come from whole sources |
| Experiments `experiments/`, `database/experiment_repository.py` | experiment, model runs, metric rows | stage, cancel (two transactions), prepare, save_cv_result, fail_model, open_final_test, save_final_result, complete, fail_experiment | bundles, hourly rows, queue | retries after the final test was opened, partial model failure, late cancellation | one recommendation, chosen before the final test; completed is whole and final |
| Forecasts `forecasting/`, `database/forecast_repository.py` | forecasts and their points | create, list | model runs and bundles of experiments | prepare, compute and save are separate while the experiment's worker goes on; the row names the model run, not the bundle | a forecast is shown with the bundle it comes from |
| Dataset catalogue, uploads `datasets/`, `database/dataset_repository.py` | datasets, versions | create, update, delete_if_empty, stage_import | artifacts | delete against stage, version numbers, compensation after a failed upload | no version without dataset or artifact |
| Artifact store `artifacts/`, `database/artifact_repository.py` | files, metadata rows | create, open, delete | all of the above | file system and database without a common transaction | every row has its bytes |
| ML `ml/` | none | splits, features, baselines, metrics, bundles | experiments, forecasts | boundaries in time, missing hours, bundle policy | no leakage from validation or test; training and forecasting see the same features |
| Exports `exports/` | export rows | create | artifacts | as artifacts | as artifacts |
| Study `scripts/*point5*`, `.github/workflows/point5-study.yml` | files of one directory, a database, a branch | prepare, fetch, bind, verify, run, the workflow's steps | importer, transformer, `ml/`, git | files written one by one and in place, kills, power failures, repeated calls, overlapping runs | recorded evidence is whole and of one campaign; the test is opened after a decision that lasts |
| Analytics `analytics/` | none | bounded reads | hourly rows | gaps and limits | bounded responses |
| HTTP shell `main.py`, `api/` | none | routing, errors, probes | all services | | |
| Web client `frontend/` | polling state | useJobPolling | API | stops and restarts of polling | ends when the job does |
| Other scripts `scripts/` | none | benchmarks, checks of documents | a running installation | | |

## 2. Modules

| Module | Models | Correspondence |
|---|---|---|
| `JobLifecycle` | what one job promises to a client | abstract specification: phase, number of runs, budget |
| `JobQueue` | `SqlAlchemyJobQueue` | one action per method, named as in the code; a committed transaction is a step, a call that raises changes nothing. `job` holds the mutable columns, `attempts` the ledger. Callers are arbitrary |
| `JobQueueProofs` | | theorems about `JobQueue` |
| `JobWorker` | `JobWorker`, `run_worker` | extends the queue by the processes: `proc[w].pc` is the call the main task is at, `beat` the heartbeat task, `seen` the cancellation event. A queue call may commit with its reply lost, or fail. `OnError` says where an exception out of a call goes |
| `JobWorkerProofs` | | theorems about `JobWorker`, among them that it implements `JobQueue`, and what handlers may rely on |
| `JobHandlers` | what real handlers share | replaces the arbitrary handler of `JobWorker` by one that moves in steps; progress reports and their three outcomes |
| `DatasetPipeline` | import and transformation handlers, their repositories, staging, the quality service's transactions | one action per repository transaction; rows are counted in batches of the source file |
| `PipelineProofs` | | theorems about `DatasetPipeline` |
| `Experiment` | experiment staging, cancellation, handler, repository | one action per repository transaction; a bundle is known by the attempt that stored it |
| `Forecasts` | `ForecastService.create`, its repository | a call is a record that reads the model run in one step and saves in another; extends `Experiment`, whose workers go on in between |
| `ExperimentProofs` | | theorems about `Experiment` and `Forecasts` |
| `Selection` | `select_recommended` | pools and tie-breaks as sets of candidates; `Experiment` asks it for any metrics |
| `SelectionProofs` | | theorems about `Selection` |
| `DatasetCatalog` | dataset catalogue, uploads and their compensation, artifact store, exports as artifacts | a request is a record that moves from call to call; one action per file operation and transaction, transactions that lock a dataset row are two steps |
| `DatasetCatalogProofs` | | theorems about `DatasetCatalog` |
| `HourlyTransform` | `TransformationEngine.transform` | operators: duplicates, target values, short gaps, the status and energy of an hour; a file is a function from sample instants to rows |
| `QualityEngine` | `DataQualityEngine.evaluate` | operators over the same files: expected interval, gaps, duplicates, missing and invalid values, parse errors, each with the severity and the range of its issue |
| `TrainingData` | `_parse_row` of the parsers, quality views, `FeaturePipeline`, `ChronologicalSplitProtocol`, `_fit_final_model`, `SeasonalNaive`, the origins of `ForecastEngine`, and the campaign's own features and origins | a meter measures on, well or badly; the newest version is the transformation of all of its file; origins, folds and baselines are operators on its hours |
| `TrainingDataProofs` | | theorems about `TrainingData` |
| `Campaign` | the scripts of the study in one place: `prepare_point5_dataset.py`, `fetch_point5_weather.py`, `generate_point5_handoff.py`, `verify_point5_handoff.py`, `run_point5_campaign.py`, `run_point5_campaign_fast.py` | one action per file that a script writes and per job it has executed; a file holds the number of the try that wrote it; kills leave the file at hand torn, power failures also those that were not synced |
| `Study` | `point5-study.yml`: pushes, runs, commits of evidence; the rows of `final-results.csv` | each run is a place of `Campaign`; the branch is a sequence of commits |
| `StudyProofs` | | theorems about `Campaign` and `Study` |
| `MCJobQueue`, `MCJobWorker`, `MCDatasetPipeline`, `MCExperiment`, `MCDatasetCatalog`, `MCTrainingData`, `MCStudy` | | instances for TLC |

`JobWorker` is the composition of processes and queue; `DatasetPipeline` and `Experiment` compose
their repositories with both, and `Forecasts` adds the API's calls. Every queue step in them is an
action of `JobQueue`, so a change of the queue's code has one place in the models. `DatasetCatalog`
stands beside them: what it shares with `DatasetPipeline` is staging, which it looks at from the side
of the request (file, artifact row, lock, version number), the pipeline from the side of the job.
`TrainingData` is about what the handlers compute: its step is a whole transformation of
`DatasetPipeline`, and what it calls origins and folds is what `Experiment` takes as the outcome of a
fold. `Study` composes places of `Campaign` over one branch; the worker that a preparation runs in its
own process is a queue of jobs there, of which `run_once` takes the oldest.

Abstractions. A heartbeat timestamp is null, fresh or overdue, and time passes by a step from fresh to
overdue. Error texts, timestamps and results are left out. Staging creates one resource per job, so
resources are indexed by jobs; jobs that clients enqueue through `POST /jobs` with a payload naming
another job's import are left out of the handler modules. A restarted process keeps its name, though
the code draws a fresh one: `JobWorker` says why no call can tell. Several faulty variants of
operators (`Recovered_Unbounded`, `OnError_Swallowed`, ...) stand before the operator they distort;
they are used by no action and show that the properties can fail.

## 3. What TLC checks

| Run | Instance | Checks |
|---|---|---|
| `queue` | 2 jobs, 2 workers, 2 attempts, 1 key, reports 40, 99 and 100 | `TypeOK`, `WithinBudget`, `OneOpenAttempt`, `LedgerExplainsStatus`, `SweepsCoverEveryJob`, `LedgerIsAppendOnly`, `AttemptsKeepTheirOwner`, `LifecyclePromise` |
| `workers` | 1 job of a supported or an unsupported type, 2 workers, 3 attempts, pauses, 1 crash, 1 database error, fairness | `WritesComeFromTheAttempt`, `JoinedMeansClosed`, `JobsSettle`, `WorkersComeBack` |
| `imports` | 1 job, 2 workers, 2 attempts, 2 batches, 1 crash, failing repository calls, no pauses | `ImportsAreWhole`, `SuccessIsPublished`, `OneExecutor` |
| `pipeline` | 2 jobs (an import and a transformation of it), 2 workers, 2 attempts, 2 batches, 1 crash, no pauses | `CancellationsAreWanted`, `TransformationsFollowTheirSource`, `OtherEndingsAreVisible`, `PublishedVersionsStay` |
| `experiments` | 1 experiment, 2 algorithms, metrics on either side of each tolerance, 2 workers, 2 attempts, 1 crash, failing calls, no pauses, 1 call for a forecast at any time | `CompletedIsWhole`, `OnlyTheRecommendedIsTested`, `ForecastsShowTheirBundle`, `RecommendationIsFinal`, `CompletedStays` |
| `catalog` | 2 datasets, 3 requests of any kind, 2 file contents, 2 failing calls or lost replies, 1 crash of the API | `VersionsKeepTheirBytes`, `VersionsKeepTheirDataset`, `NumbersAndSourcesAreUnique`, `AnswersAreKept`, `UndoneLeavesNothing` |
| `training` | 6 hours of 4 samples, gaps of up to 2 samples filled, features of 2 hours and a target of 1, 1 fold, 2 defects, outages of 1 and 3 samples | `ReadyHoursAreBacked`, `PartsShareNoSample`, `BaselinesAnswerForecasts`, `ReportExplainsHours`, `FeaturesAreFinal`, `CampaignAgreesWithProduct` |
| `study` | 2 runs of the workflow and 2 commits of code, or 1 directory in which every script is called twice; 2 interruptions | `OpenedTestsHaveTheirSelection`, `NoMixedEvidence`, `PreparationsAreReady`, `RecordedEvidenceIsWhole`, `PushesAreStudied` |
| `reimported`, `experiment_ends`, `baseline_history`, `study_results` | see section 5 | what the documents say and the code does not do |

`pipeline` is about one job that uses what another one made: `ImportThenTransformation` of
`MCDatasetPipeline`, a state constraint, keeps a second import out, which meets the first only in the
queue and in the process that may run both, as the transformation does. Failing calls, which multiply its
million states, are in `imports`; the theorems of section 4 allow both, and any number of jobs.

Why the bounds are enough. Queue rows interact only through claim order, unique keys and batches, so
two jobs show every interaction. A job that is lost, requeued and claimed by the other worker, and
comes back to the first, needs two workers and three attempts (`workers`); the invariants of the
queue itself are proved for every number. Two batches make a version partial; two algorithms make
one fail, or make a second attempt prefer the other. One crash is enough to interrupt each handler at
every step once, and the recovery of a paused process can be repeated without it. Calls for forecasts
do not see each other, so one is enough. Runs of the workflow meet only at the branch, where a third
run adds another push of the same kind; in a directory the second try of each script meets what the
first one left, and two interruptions break a try twice or two tries once.

The code's staging gives jobs three attempts; the handler runs use two (`StagedAttempts`), one that is
interrupted and one that follows. `BatchLimit` is 1 or 2 where the code defaults to 100, so that a
sweep does leave candidates behind.

`MayPause = FALSE` says that no process stands still for longer than `worker_stale_after_seconds`
(30 s against a heartbeat of 5 s). The runs `imports`, `pipeline` and `experiments` need it; section 5 shows what happens
without it. `workers` and `queue` do without.

Symmetry. Worker names are symmetric where the cfg says so; those runs check safety only. Algorithms
are symmetric in `experiments`: simplicity orders them, but metrics are given to them in every way, so that any
of them may be chosen. `SelectionExample` of `MCExperiment` has TLC evaluate what `SelectionProofs` proves.

Three requests show a staging that races another one or a deletion, while the third builds on what
was staged or is compensated; two faults lose the reply of a commit and fail its compensation.

In `training` a gap of the limit, a longer one and one over an hour boundary occur, alone and next to
another defect; the fold has a training origin, a validation origin and an origin that is purged, and
so has the final test. The real numbers (60 samples, gaps of 5, 168 hours, a horizon of 24) differ in
size only: the proofs hold for all that satisfy the assumptions. The policy for duplicates is
`reject`, the default, in the run; the others differ in what a sample's value is, and the proofs hold
for all four. The precondition of `ReportExplainsHours`, that the interval the report infers is that of
the samples, fails only for files with hardly a row. It speaks of the issues about instants and about the columns that
hours are made of. The code's report always has one more, a `missing` warning from the first row to the
last about whichever of `energy_kwh` and `active_power_kw` the file does not give; were it counted,
the warnings could not fail to cover an hour. `MinObserved` is 3 of 4 samples: the code's share of 0.8
would be all of them, and no hour could be imputed; `Eighty` and `Ninety` are coverages and not
affected. `Behind` is not stored by the code: it says which
measurements an hour is made from.

Deadlock is checked everywhere but in `catalog`, whose requests all end, in `training`, whose file
ends, in `study`, whose scripts are called a bounded number of times, and in `queue`, where a queue
whose jobs have all ended without retry budget has no step left but the replay of a known key;
processes always have one.

`WorkerTypeOK`, `CatalogTypeOK`, `CompleteMeansSucceeded`, `KeysIdentifyOneJob`,
`EvidenceFollowsItsCode`, `ReadyHoursStay`, `PipelineTypeOK`, `ExperimentTypeOK`, `NothingIsLeftOver`
(what a catalogue without faults leaves behind) and `EnergyIsMeasured` (what an hour's energy is made
of) are proved (section 4) and in no run.

### Fairness

`FairSystem` assumes weak fairness of a process's next call (`MainStep`), of its restart
(`restart: unless-stopped` in `docker-compose.yml`), of the end of its handler, of the answer to a
heartbeat call, and of time: a row nobody sends heartbeats for becomes overdue. That is what the poll
loop, the container policy and the clock give. Weak fairness is enough, for a claim that is enabled
stays enabled until some worker takes the job. Nothing is assumed of clients, crashes, database
errors, the heartbeat timer or the expiry of a living process's heartbeat. Handlers are assumed to
end; the code has no timeout for them.

## 4. What is proved

`JobQueueProofs` proves, for every set of jobs, workers, requests and keys and every attempt and batch
limit allowed by `QueueAssumption` (ids are numbers, `NULL` values differ from the others, requests ask
for 1 to `AttemptLimit` attempts):

| Theorem | Property |
|---|---|
| `QueueInvariant` | `Spec => []IInv` |
| `TypesHold` | `TypeOK` |
| `BudgetHolds` | `WithinBudget` |
| `OneAttemptIsOpen` | `OneOpenAttempt` |
| `LedgerHolds` | `LedgerExplainsStatus` |
| `SweepsReach` | `SweepsCoverEveryJob` |
| `CompletionIsSuccess` | `CompleteMeansSucceeded` |
| `KeysAreUnique` | `KeysIdentifyOneJob` |
| `LedgerOnlyGrows` | `LedgerIsAppendOnly` |
| `OwnersStay` | `AttemptsKeepTheirOwner` |
| `QueueKeepsThePromise` | `LifecyclePromise`: each job implements `JobLifecycle` |

The argument. None of the invariants is inductive alone. That an attempt row is open exactly for the
job in hand needs the current attempt number to lie within the ledger, hence the budget; the budget of
a queued job needs every way back into the queue to test it; a retried job is `failed`, and that its
last attempt ended badly needs the ledger; that a queued row has no worker is what makes an
unclaimed cancellation different from a lost worker's. Their conjunction `JobOK` is a predicate of one
job's row, request and attempt rows, so each transaction becomes a lemma about three values
(`OpenedOK`, `EndedOK`, `LostOK`, ...), and the sweeps over batches follow pointwise.
`EveryStepIsAJobStep` lists what a step can be for one job; the action properties and the refinement
are read off it.

`JobWorkerProofs` proves, for any number of jobs, workers, attempts, crashes and faults
(`QueueAssumption`, and `WorkerAssumption`: 0 is no job id, bounds are numbers), about `SystemSpec`,
the processes with an arbitrary handler:

| Theorem | Property |
|---|---|
| `SystemInvariant` | `SystemSpec => []WInv` |
| `SystemImplementsQueue` | `SystemSpec => Spec`: the processes use the queue as `JobQueue` allows |
| `SystemKeepsThePromise` | `LifecyclePromise`, and so for every theorem above |
| `SystemTypesHold` | `WorkerTypeOK` |
| `JoinedIsClosed` | `JoinedMeansClosed` |
| `OutcomesAreTheAttempts` | `WritesComeFromTheAttempt` |
| `OnlyWantedCancellations` | `CancellationsAreWanted` |
| `OneHandlerPerJob` | `OneExecutor` |

The argument. The queue checks a caller's worker id and nothing else, so that a worker which lost its
job, or comes back to it, could be mistaken for the owner of another attempt. `Began` is what
excludes it: the ledger row of the attempt a process executes names the process, and no later row of
the job does, because a process claims only from polling. With the queue's invariant (a held job's
current row names its worker) a process that the queue accepts executes the current attempt
(`OwnAttempt`). `Kept` says what a step of anybody else leaves of this knowledge (`StepKeeps`), so
that each action is examined for the moving process only (`OneProcessMoves`). `OneHandlerPerJob` adds
`AttemptsAreHeard`: without pauses and failing calls the heartbeat of an attempt is recent from its
claim until the queue has its outcome, so neither the clock nor the sweep touches its job.

`PipelineProofs` proves of `PipelineSpec`, for any number of jobs, workers, batches and attempts
(`PipelineAssumption`: batches are numbered, handlers report 1 and 99 percent, and clients may submit
what staging submits; and the assumptions of the modules it extends):

| Theorem | Property | Also assumes |
|---|---|---|
| `PipelinesImplementSystem` | `PipelineSpec => SystemSpec`: the handlers are instances of the arbitrary one | |
| `PipelineTypesHold` | `PipelineTypeOK` | |
| `ImportsHoldTheirFiles` | `ImportsAreWhole` | no pauses, no queue faults |
| `SuccessesArePublished` | `SuccessIsPublished` | no pauses, no queue faults |
| `PublishedStays` | `PublishedVersionsStay` | no pauses, no queue faults |
| `HourlyVersionsAreWhole` | `TransformationsFollowTheirSource` | no pauses, no queue faults |
| `EndingsAreVisible` | `OtherEndingsAreVisible` | no pauses, no queue faults |

The argument. `Effects` names the eleven things a handler's step can do to its own job, and `Frame`
that it does nothing to others'. What the attempt has written when its handler is at a step is
`Underway`: the rows inserted and those left are the file from `prepare` to the end of the loop, and
`prepare` starts from nothing whatever an earlier attempt left. As with experiments this needs that nobody
else has the job (`BusyIsAlone`, from `AttemptsAreHeard`); crashes and failing calls are arbitrary.

The last three properties relate two jobs, or a job to what its earlier attempts published, and allow
crashes and failing calls at every step like the others. A crash after the publication does disturb a
published version (section 5, `reimported`), so they say how far the damage goes. The attempt ledger
tells: `Repeated(j)` holds once an attempt of `j` was lost (`stale`), or ended by a call that failed, and
as a closed row is never rewritten (`RepeatedStays`, from the queue's invariant) it holds for good.
Whatever else happens, a job that waits in the queue or has failed has published nothing (`Settled`),
and no handler stands before a published version but behind its own publication (`Certain`), or the
job is repeated; hence only a repeated job's `prepare` meets a version that others may read
(`PublishedStays`). A transformation was staged on a version that was ready for it, which still is or
whose import is repeated (`SourceKept`); it loads all rows of the former, inserts all it has loaded
and completes with all it has inserted, in whichever of its own attempts, so that ready hours that
lack rows have a repeated import behind them (`HourlyVersionsAreWhole`). And a handler reaches
its last step with its run marked failed or cancelled, and its version with it, or completed before
the cancellation, unless a repository call failed on the way: with `CallsMayFail` the theorem says only
that marked runs and versions agree, for a failed call does leave a version open that nothing closes.

`ExperimentProofs` proves of `ForecastsSpec`, for any number of jobs, workers, algorithms, attempts
and calls and any metrics (`ExperimentAssumption`, and the assumptions of the modules it extends):

| Theorem | Property | Also assumes |
|---|---|---|
| `ExperimentInvariant` | `ForecastsSpec => []XInv` | |
| `ExperimentsImplementSystem` | `ForecastsSpec => SystemSpec`: the handlers are instances of the arbitrary one | |
| `OneModelIsTested` | `OnlyTheRecommendedIsTested` | |
| `RecommendationsStand` | `RecommendationIsFinal` | |
| `CompletedExperimentsAreWhole` | `CompletedIsWhole` | no pauses, no queue faults |
| `CompletedExperimentsStay` | `CompletedStays` | no pauses, no queue faults |
| `ForecastsAreShown` | `ForecastsShowTheirBundle` | no pauses, no queue faults |
| `ExperimentTypesHold` | `ExperimentTypeOK` | |

The argument. What must hold of a row whoever writes it, two processes at once included, is `Sound`:
at most one model run is recommended, one is exactly when the test has been opened, and only it is
tested. The partial unique index and the guard of `save_final_result` give it, with the fact that the
selection rule chooses one (`SelectionProofs`). That a completed experiment is whole needs to know
what its attempt has done so far (`Underway`), and so that nobody else does anything in between:
without pauses and faults, an attempt's job is held by its process until it ends
(`AttemptsAreHeard` of `JobWorkerProofs`), and two processes never execute one job. Crashes and
failing repository calls are arbitrary in all of them: an attempt that follows scores every algorithm
again or fails it, and what an earlier one recommended decides whether it may open the test.
A forecast keeps its bundle because the experiment it is settled from is completed, and that stays.

`SelectionProofs` proves, for all algorithms, metrics and nonempty sets of candidates
(`SelectionAssumption`: no two algorithms are equally simple):

| Theorem | What it says |
|---|---|
| `OneIsRecommended` | exactly one candidate is recommended |
| `NoneIsBetter` | no candidate is as good in both errors and faster |

The argument. A nonempty set has a least error, deviation, time and simplicity (`LeastExists`, from the
well-foundedness of the natural numbers), so no pool is empty. A candidate as good as the recommended
one is in the pools the recommended one is in, and there the time decides. Which of two candidates wins may
depend on a third one that moves the best value of a pool.

`DatasetCatalogProofs` proves, for any number of datasets, requests, failing calls and crashes
(`CatalogAssumption`: there is a dataset, requests are finitely many, `NULL` values differ from the
others):

| Theorem | Property |
|---|---|
| `CatalogInvariant` | `CatalogSpec => []CatalogInv` |
| `CatalogTypesHold` | `CatalogTypeOK` |
| `BytesAreKept` | `VersionsKeepTheirBytes` |
| `DatasetsAreKept` | `VersionsKeepTheirDataset` |
| `NumbersAreUnique` | `NumbersAndSourcesAreUnique` |
| `CompensationIsComplete` | `UndoneLeavesNothing` |
| `SuccessIsKept` | `AnswersAreKept` |
| `TidyWithoutFaults` | `NothingIsLeftOver` |

The argument. A compensation removes a row or a file because of where its request is, so the
invariant says what has been written at each place of a request (`WrittenSoFar`): a file is taken
back only while no version refers to the artifact, and a transformation's artifact is referenced from
the moment it is asked for. A commit writes what was read two steps earlier, so the invariant says
that it is still true (`ReadUnderLock`): whoever changes the versions or the state of a dataset holds
its lock. Neither the unique constraints of `dataset_versions` nor its foreign keys are used.
For `TidyWithoutFaults` it is enough to add (`Undisturbed`) that without faults no request is taking
back what a failed call has left, and that an upload removes its row only while it has no version: each
request that has ended is then in one of four places, and `WrittenSoFar` says what it has written.

`TrainingDataProofs` proves, for every number of samples per hour, gap limit, window, horizon, set of
folds and test period (`TransformAssumption`: a short gap fills at most half an hour, which the five
minutes of `TransformationPolicy` imply; `TrainingAssumption`: the horizon is shorter than the window):

| Theorem | Property |
|---|---|
| `TrainingInvariant` | `TrainingSpec => []TrainingInv` |
| `PartsAreSeparate` | `PartsShareNoSample` |
| `ForecastsAreAnswered` | `BaselinesAnswerForecasts` |
| `ReadyIsFinal` | `ReadyHoursStay` |
| `FeaturesStay` | `FeaturesAreFinal` |
| `CampaignAgrees` | `CampaignAgreesWithProduct` |
| `ReadyIsBacked` | `ReadyHoursAreBacked` |
| `EnergyIsFaithful` | `EnergyIsMeasured` |
| `ReportIsFaithful` | `ReportExplainsHours` |

The argument. An hour is made from measurements at most one gap away (`BehindIsNear`), so that two
hours with another one between them share none (`DistantHoursShareNothing`). The splits compare
origins: the last target of a training origin is at least two hours before the first target of an
evaluated one, whatever hours are missing. It is the strict comparison in `splits.py:66` that leaves
this hour, and half of it would be enough.

`GrowthInv` says that `hourly` is the transformation of a file that ends before `next`. A gap that
begins before a measurement ends before it (`GapsStay`), so an hour all of whose samples have a
measurement at or after them (`Settled`) is the same in every longer file (`SettledHoursStay`). Hours
that are ready are settled because their gaps have ended, and the hours before an origin because the
origin itself has a measurement. The campaign's views are narrower than the product's at every hour
that its origins look at, and it asks for the daily baseline's history in so many words.

`VersionInv` adds that the rows of the file are rows a parser makes. A sample has a value after the
interpolation exactly if it was measured or measurements within the limit lie on both sides of it
(`FilledIsBacked`): the last one before it and the first one after it, which exist by the
well-foundedness of the natural numbers, enclose a maximal run without values, and that run is as short
as the limit asks. An interpolated value is a share of the difference, and rounding down a share
does not leave its bounds (`ShareIsBetween`). What duplicates are resolved to is like one of
the rows: the mean of the policy `mean` misses, refuses or is below zero in a column only if one of
them does (`MeanIsLikeARow`). Hence a defect that the hour sees is one that the report sees, which
looks at the rows; and an instant without rows is inside a gap, for the rows before and after it are
further apart than one and a half intervals (`GapIsReported`).

`StudyProofs` proves, for any number of runs, directories, tries, interruptions and commits
(`CampaignAssumption`, `StudyAssumption`):

| Theorem | Property |
|---|---|
| `StudyHolds` | `StudySpec => []StudyInv` |
| `DecisionsAreKept` | `OpenedTestsHaveTheirSelection` |
| `EvidenceIsNotMixed` | `NoMixedEvidence` |
| `PreparationsHold` | `PreparationsAreReady` |
| `RecordsAreWhole` | `RecordedEvidenceIsWhole` |
| `EvidenceHasItsCode` | `EvidenceFollowsItsCode` |
| `NoRunIsInVain` | `PushesAreStudied` |

The argument. `WrittenSoFar` says which outputs a campaign that is at some step has written, and that
the manifest is not among them before its place in the order: a manifest that names the selection
therefore stands for one try, and whatever a kill or a power failure tears cannot be read. The
selection is the first output and is synced, so that it is either readable or the try that wrote it
was the last. On a runner every error ends the workflow, so that a place at a late step carries what
every step before it has established (`Recordable`). On the branch, git's refusal of a push that is
no fast-forward keeps evidence right behind its code (`EvidenceStands`); a refused run has met
another push, which is newer code or the evidence of the same code.

Only model-checked: liveness (`JobsSettle`, `WorkersComeBack`), which is out of the prover's reach, as
is `ENABLED`. Every invariant and every action property of the passing runs is a theorem. `OneExecutor`
and `CancellationsAreWanted` are checked in the runs of `DatasetPipeline` and proved of the arbitrary
handler, whose instances its handlers are (`PipelinesImplementSystem`). Nor is there a theorem about
what a recursive definition computes: of the sum in `MeanOf`, `SumIsANumber` says only that it is a
number, and a natural one if its summands are.

## 5. Where documents and code differ

- `reimported` (2 batches, 1 crash): ADR-017 (line 32) promises that raw rows stay unchanged across retries. A worker that
  dies between the quality report and `succeed` leaves a published version, whose rows the next
  attempt deletes; a transformation staged in between is computed from what is left. That nothing
  else gives such hours is `TransformationsFollowTheirSource`.
- `experiment_ends`: the handler reports 100 percent after completing its experiment, and the queue
  accepts 99 at most: the job of every completed experiment ends as failed. The unit test's context
  accepts 100.
- `baseline_history`: `docs/implementation-log.md` (lines 773-774) says that the seasonal baselines
  answer for the exact origins of the evaluation. The daily baseline needs the origin's own hour for
  its last horizon, which neither features nor targets ask for: one isolated missing hour gives an
  origin on which `predict` raises, and the required baseline run of the experiment fails. The
  campaign's own origins do ask for it, which is part of `CampaignAgreesWithProduct`.
- `study_results`: the handoff says that E30 and E31 are about other quality profiles; `evaluate_cv`
  labels whatever it evaluates as `main_90_complete_or_imputed`, and so the rows that are recorded.

Without a run, for each is seen in a few steps of a module above:

- ADR-015 (lines 22-23) promises that partial rows are never advertised as valid. An import's
  transactions do not ask whether the job is still the caller's. A process that stands still (parsing
  and quality evaluation run on the event loop, which stops its heartbeats as well) is recovered; the
  next attempt deletes its rows; awake again, the first one publishes the version: `ImportsAreWhole`
  is violated under `MayPause = TRUE`.
- ADR-022 (lines 33-34) speaks of retrying an experiment's job; `prepare` refuses an experiment that
  has failed, as `RetriesArePrepared` of `Experiment` shows.
- ADR-023 has a forecast joined with its artifact. Its row names the model run only: a forecast from a
  model run whose final result is saved, made before the worker died short of completing the experiment,
  is shown with the bundle of the attempt that follows
  (`ForecastsKeepTheirBundle`; `ForecastsShowTheirBundle` is what holds).
- The last fold of `splits.py` takes validation origins up to the start of the final test, so that the
  targets of its last 24 origins lie in the test period, which ADR-022 wants left alone until the
  recommendation. `PartsShareNoSample` says that nothing is both fitted and evaluated on; it does not
  forbid that two evaluations share hours.

## 6. What is not modelled

Timestamps, time zones and headers of files, formatting, logging and migrations: pure input and
output. Analytics queries only read and have their bounds in their SQL; the HTTP shell keeps no state;
the web client's polling loop is not modelled; the scripts beside the study measure a running
installation or check documents, and write one file each. The estimators are third-party.

Of the quality engine, statistical anomalies, the order of rows, counts, evidence and the columns no
hour is made of are left out. Of the transformation, the descriptive columns (voltage and current
extremes, flags, the summary), and of the features the calendar and the quality columns are left out;
of the campaign, its metrics and the weather's values. Of the catalogue, renaming a dataset and the
inspection of an upload's first lines are left out; temporary files have no readers, and those a crash
leaves are not modelled. Files without a row and rows without bytes that crashes and lost replies leave
are kept for good, in the code as in `DatasetCatalog`; `VersionsKeepTheirBytes` and `AnswersAreKept`
say whom they cannot affect. The same holds of bundles whose attempt failed after it had stored them.

A power failure tears the files a campaign's script has not synced. That it brings back what a
replaced file held before, or takes a new file away (the directory is not synced either), is not
modelled.

A runner that dies at the workflow's own steps (verify, check, commit, push) ends as one that was
refused, without evidence, and is not a step of its own. A handler's `BaseException` paths on a
cancelled event loop (an interrupt from the keyboard) are taken for crashes.

## 7. What is left

1. How cancelled and retried experiments end when the process stops between two transactions: no
   document says it, so there is nothing yet to hold the code to.
2. Local times (two local hours that are one instant), and the polling loop of the web client.
