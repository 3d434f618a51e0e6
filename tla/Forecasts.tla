------------------------------ MODULE Forecasts ------------------------------
(***************************************************************************)
(* Forecasts (forecasting/service.py, database/forecast_repository.py) made *)
(* from the bundles of Experiment's model runs.  POST /forecasts is no job: *)
(* a call reads the model run in one transaction, computes, and saves the   *)
(* forecast in another, while the experiment's workers go on.  In between   *)
(* it reads only what never changes: the stored bundle and the hours of a   *)
(* ready version, so that computing and saving are one step here.           *)
(*                                                                          *)
(* A forecast's row refers to the model run and not to the bundle.          *)
(***************************************************************************)
EXTENDS Experiment

CONSTANT Calls   \* calls of POST /forecasts; each makes one forecast at most

VARIABLE call

forecastsVars == <<experimentVars, call>>

\* trained: the request is for the version that the experiment was trained on.
\* bundle: of ForecastModelContext.  settled: history, whether the experiment was completed
\* by the time its model run was read.
CallRow == [status : {"none", "prepared", "saved"}, job : Jobs \cup {0},
            algorithm : Algorithms \cup {"none"}, trained : BOOLEAN,
            bundle : 0..AttemptLimit, settled : BOOLEAN]

NoCall == [status |-> "none", job |-> 0, algorithm |-> "none", trained |-> FALSE,
           bundle |-> 0, settled |-> FALSE]

ForecastsInit == ExperimentInit /\ call = [c \in Calls |-> NoCall]

-----------------------------------------------------------------------------
\* "Model run must be completed and reference an immutable bundle"
Available(row) == row.status = "completed" /\ row.bundle # 0

\* repository.prepare.  The experiment's status is not looked at.
PrepareForecast(c) ==
    /\ call[c].status = "none"
    /\ \E j \in Jobs, a \in Algorithms, trained \in BOOLEAN :
          /\ Available(models[j][a])
          /\ call' = [call EXCEPT ![c] =
                [status |-> "prepared", job |-> j, algorithm |-> a, trained |-> trained,
                 bundle |-> models[j][a].bundle,
                 settled |-> experiment[j].status = "completed"]]

\* _enforce_policy.  Algorithm, schema and code are those of the run that was read; the
\* version is the requested one.
Compatible(c) == call[c].trained

\* load, create and save: the row and its 24 points are one transaction.
SaveForecast(c) ==
    /\ call[c].status = "prepared" /\ Compatible(c)
    /\ call' = [call EXCEPT ![c].status = "saved"]

\* An incompatible bundle, a changed file or library, an origin or a history that is not
\* there, a database error: nothing is saved, and the client may call again.
RefuseForecast(c) ==
    /\ call[c].status = "prepared"
    /\ call' = [call EXCEPT ![c] = NoCall]

ForecastStep(c) == PrepareForecast(c) \/ SaveForecast(c) \/ RefuseForecast(c)

ForecastsNext ==
    \/ ExperimentNext /\ UNCHANGED call
    \/ \E c \in Calls : ForecastStep(c) /\ UNCHANGED experimentVars

ForecastsSpec == ForecastsInit /\ [][ForecastsNext]_forecastsVars

\* _record, for GET /forecasts: the bundle that the model run refers to by now.
Shown(c) == models[call[c].job][call[c].algorithm].bundle

-----------------------------------------------------------------------------
\* Properties.

\* ADR-023: "The response joins model-run, artifact, dataset and schema provenance".  Every
\* forecast can be shown, and a forecast from an experiment that was completed is shown for
\* ever with the bundle that has computed it, however long the call took and whatever
\* becomes of the job in the meantime.
ForecastsShowTheirBundle ==
    \A c \in Calls : call[c].status = "saved" =>
        /\ Shown(c) # 0
        /\ call[c].settled => Shown(c) = call[c].bundle

\* The same of any forecast, also of one from a model run that has its final result while the
\* experiment's attempt is not over and may be repeated.
ForecastsKeepTheirBundle ==
    \A c \in Calls : call[c].status = "saved" => Shown(c) = call[c].bundle
=============================================================================
