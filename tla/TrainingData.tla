---------------------------- MODULE TrainingData -----------------------------
(***************************************************************************)
(* From hours to models: the view a sensitivity mode has of a version's     *)
(* hours, the origins it can be trained on, the folds, the final test and   *)
(* the history that forecasts and seasonal baselines are made from.         *)
(*                                                                          *)
(* A meter goes on measuring, and every longer file of it is imported and   *)
(* transformed, so that `hourly' is the newest version.  Hours count from   *)
(* the epoch.  An origin t is the hour [t, t + 1): its features are about   *)
(* the hours before, its targets are the hours after.                       *)
(***************************************************************************)
EXTENDS QualityEngine

CONSTANTS
    Unreadable,   \* a field that is no number
    Reading,      \* what the meter measures at each sample
    Window,       \* 168: the longest lag and rolling window, and the weekly season
    Horizon,      \* 24: the targets of an origin, and the daily season
    Ninety,       \* the coverage of 0.9 that a mode or a profile can ask for, in samples
    Eighty,       \* and of 0.8
    Periods,      \* VALIDATION_PERIODS, as [start, end] of hours
    TestStart,    \* FINAL_TEST_START
    Outages,      \* bound: how many samples can be missing at once
    MaxSamples,   \* bound: length of the file, in whole hours
    MaxDefects    \* bound: what is wrong in the file

ASSUME TrainingAssumption ==
    /\ Horizon \in Nat \ {0} /\ Window \in Nat /\ Horizon < Window
    /\ {Ninety, Eighty} \subseteq 1..PerHour
    /\ Periods \in Seq([start : Nat, end : Nat]) /\ TestStart \in Nat
    /\ MaxSamples \in Nat /\ MaxSamples % PerHour = 0 /\ MaxDefects \in Nat
    /\ Unreadable \notin Quantity
    /\ Reading \in [0..MaxSamples -> Nat] /\ Outages \subseteq Nat \ {0}

VARIABLES
    file,     \* raw measurements of the source version, by instant
    hourly,   \* hourly observations of the version made of it
    next,     \* the next sample
    defects   \* defects so far

vars == <<file, hourly, next, defects>>

-----------------------------------------------------------------------------
(* _quality_view of experiments/handler.py, forecasting/engine.py and run_point5_campaign.py *)

SensitivityModes == {"complete_only", "coverage_90"}

\* The campaign has a mode of the same name and meaning.
Profiles == {"main_90_complete_or_imputed", "complete_only", "coverage_gte_80pct"}

Modes == SensitivityModes \cup Profiles

EligibleForProfile(profile, hour) ==
    \/ profile = "main_90_complete_or_imputed"
       /\ hour.observed >= Ninety /\ hour.status \in TrainingReady
    \/ profile = "coverage_gte_80pct"
       /\ hour.observed >= Eighty
       /\ hour.status \in {"complete", "imputed_short_gap", "valid_partial", "invalid_missing"}

Eligible(mode, hour) ==
    \/ mode = "complete_only" /\ hour.status = "complete"
    \/ mode = "coverage_90"
       /\ hour.observed >= Ninety
       /\ hour.status \in {"complete", "imputed_short_gap", "valid_partial"}
    \/ EligibleForProfile(mode, hour)

Known(mode, h) ==
    h \in DOMAIN hourly /\ Eligible(mode, hourly[h]) /\ hourly[h].energy # NoValue

-----------------------------------------------------------------------------
(* ml/features.py *)

\* Rolling windows that are not shifted.
FeatureHours_Unshifted(t) == (t - Window + 1)..t

FeatureHours(t) == (t - Window)..(t - 1)

TargetHours(t) == (t + 1)..(t + Horizon)

HasFeatures(mode, t) == t \in DOMAIN hourly /\ \A h \in FeatureHours(t) : Known(mode, h)

\* Lags and rolling statistics are functions of the window; the calendar is one of t.
FeatureRow(mode, t) ==
    IF HasFeatures(mode, t) THEN [h \in FeatureHours(t) |-> hourly[h].energy] ELSE <<>>

\* build_supervised
Origins(mode) ==
    {t \in DOMAIN hourly : HasFeatures(mode, t) /\ \A h \in TargetHours(t) : Known(mode, h)}

-----------------------------------------------------------------------------
(* ml/splits.py, and _fit_final_model of experiments/handler.py *)

\* The last target may be the first validation origin.
Train_PurgedLess(mode, period) == {t \in Origins(mode) : t + Horizon <= period.start}

Train(mode, period) == {t \in Origins(mode) : t + Horizon < period.start}

Validation(mode, period) == {t \in Origins(mode) : period.start <= t /\ t < period.end}

FinalTrain(mode) == {t \in Origins(mode) : t < TestStart - Horizon}

FinalTest(mode) == {t \in Origins(mode) : t >= TestStart}

-----------------------------------------------------------------------------
(* ml/baselines.py: SeasonalNaive(season).predict raises without this history *)

SeasonalHours(season, t) == {t + h - season : h \in 1..Horizon}

Answers(mode, season, t) == \A h \in SeasonalHours(season, t) : Known(mode, h)

\* The latest stored hours, whatever is known of them.
ForecastOrigins_Stored(mode) == DOMAIN hourly

\* _resolve_origin of forecasting/engine.py, for a request that names no origin, and one that
\* names t.
ForecastOrigins(mode) == {t \in DOMAIN hourly : Known(mode, t)}

\* Forecasts that are made: the others end with ForecastHistoryMissingError.
Forecasts(mode) == {t \in ForecastOrigins(mode) : HasFeatures(mode, t)}

-----------------------------------------------------------------------------
(* run_point5_campaign.py: the origins of a profile, and the forecast that ends the study *)

\* Faulty variant: the last hour of the season is not asked for.
HistoryHours_ButLast(season, t) == {t + h - season : h \in 1..(Horizon - 1)}

\* _baseline_history_indexes
HistoryHours(season, t) == {t + h - season : h \in 1..Horizon}

CampaignOrigins(profile, season) ==
    {t \in Origins(profile) : \A h \in HistoryHours(season, t) : Known(profile, h)}

\* E01 is evaluated on those of the main origins that the weekly season is known for.
WeeklyOrigins ==
    CampaignOrigins("main_90_complete_or_imputed", Horizon)
       \cap CampaignOrigins("main_90_complete_or_imputed", Window)

\* The origin is looked for in the main view.  The bundle names coverage_90 as its quality
\* policy, and that is the view the product makes the forecast in.
CampaignForecasts ==
    {t \in DOMAIN hourly :
        HasFeatures("main_90_complete_or_imputed", t) /\ Known("main_90_complete_or_imputed", t)}

-----------------------------------------------------------------------------
(* datasets/parsers.py: _parse_row *)

\* What a field of the file says is a number, nothing, or something else.
ParseNumber(field) == IF field = Unreadable THEN NoValue ELSE field

\* The status is "invalid" if an issue was found in any column; an empty field is none.
ParseRow(target, other) ==
    [value |-> ParseNumber(target), other |-> ParseNumber(other),
     parsed |-> Unreadable \notin {target, other}]

-----------------------------------------------------------------------------
(* load_source and the transformation of the next longer file *)

Transformed(group) ==
    \E longer \in {[file EXCEPT ![next] = group]} : \E gaps \in {ShortGaps(longer)} :
        file' = longer /\ hourly' = Transform(longer, gaps)

Init ==
    /\ file = [s \in 0..(MaxSamples - 1) |-> <<>>] /\ hourly = Transform(file, {})
    /\ next = 0 /\ defects = 0

Measure ==
    /\ next < MaxSamples
    /\ Transformed(<<ParseRow(Reading[next], 0)>>)
    /\ next' = next + 1
    /\ UNCHANGED defects

\* An empty or unreadable field, a value out of range, two rows for one instant.
Defective(s) ==
    {<<ParseRow(NoValue, 0)>>, <<ParseRow(Unreadable, 0)>>, <<ParseRow(Reading[s], Unreadable)>>,
     <<ParseRow(-2, 0)>>, <<ParseRow(Reading[s], -2)>>,
     <<ParseRow(Reading[s], 0), ParseRow(Reading[s] + 2, 0)>>}

MeasureBadly ==
    /\ next < MaxSamples /\ defects < MaxDefects
    /\ \E group \in Defective(next) : Transformed(group)
    /\ next' = next + 1 /\ defects' = defects + 1

\* Rows are missing, or their timestamps cannot be read.
Skip ==
    /\ defects < MaxDefects
    /\ \E n \in Outages : next + n <= MaxSamples /\ next' = next + n
    /\ defects' = defects + 1
    /\ UNCHANGED <<file, hourly>>

Next == Measure \/ MeasureBadly \/ Skip

TrainingSpec == Init /\ [][Next]_vars

-----------------------------------------------------------------------------
(* Properties *)

Sound(s) == s \in DOMAIN file /\ TargetValue(file, s) # NoValue

Backed(s) ==
    \/ Sound(s)
    \/ \E a \in (s - GapLimit)..(s - 1) :
          Sound(a) /\ \E b \in (s + 1)..(a + GapLimit + 1) : Sound(b)

(* An hour is ready for training exactly if each of its samples was measured or lies in a  *)
(* short gap between measurements, enough of them were measured, and nothing in it is in   *)
(* doubt: what _missing_runs, _interpolate_short_gaps and the order of the statuses in     *)
(* _aggregate_hour come to.                                                                *)
ReadyHoursAreBacked ==
    \A h \in DOMAIN hourly :
        hourly[h].status \in TrainingReady
        <=> /\ \A s \in SamplesOf(h) : Backed(s)
            /\ Cardinality({s \in SamplesOf(h) : Sound(s)}) >= MinObserved
            /\ \A s \in SamplesOf(h) : ~Conflict(file, s) /\ ~HasInvalidNumeric(file, s)

(* The report and the hours of one version agree.  An hour whose data are in doubt is in    *)
(* the range of an error.  One that lacks samples is in the range of a warning, unless it  *)
(* is the first or the last, which the file may begin or end in: the report can tell only  *)
(* where it has the interval of the samples right, that it takes from the file and the     *)
(* transformation from its policy.  The warning that counts is one about the instants or   *)
(* the columns that hours are made of, never the one that every file gets for a column it  *)
(* does not give.                                                                          *)
ReportExplainsHours ==
    LET report == Evaluate(file)
    IN  \A h \in DOMAIN hourly :
          /\ hourly[h].status \in {"invalid_value", "invalid_conflict"} =>
                Reported(report, "error", h)
          /\ hourly[h].observed < PerHour /\ {h - 1, h + 1} \subseteq DOMAIN hourly =>
                \/ Reported(report, "warning", h) \/ Reported(report, "error", h)
                \/ report.expected # 1

(* What the meter measures later changes no hour that is ready: a longer file of the same  *)
(* meter gives the same hours.                                                             *)
ReadyHoursStay ==
    [][\A h \in DOMAIN hourly :
           hourly[h].status \in TrainingReady =>
              h \in DOMAIN hourly' /\ hourly'[h] = hourly[h]]_vars

(* A forecast is made from what a model trained on a longer file is shown for the same     *)
(* origin, and one that is refused for want of history would be refused later: the last    *)
(* hours of a file are not seen differently because it ends there.                         *)
FeaturesAreFinal ==
    [][\A mode \in SensitivityModes : \A t \in ForecastOrigins(mode) :
           FeatureRow(mode, t)' = FeatureRow(mode, t)]_vars

\* The measurements that the hours of an origin's features and targets, or its targets, hold.
BehindHours(hours) == UNION {hourly[h].behind : h \in hours}

BehindRow(t) == BehindHours(FeatureHours(t) \cup TargetHours(t))

BehindTargets(t) == BehindHours(TargetHours(t))

(* No measurement is in what a model is fitted to and in what it is evaluated on, in any   *)
(* fold and in the final test.  The purge of splits.py is about hours; interpolation       *)
(* carries measurements over their boundaries.                                             *)
PartsShareNoSample ==
    \A mode \in Modes :
        /\ \A i \in DOMAIN Periods :
              \A t \in Train(mode, Periods[i]), v \in Validation(mode, Periods[i]) :
                 BehindRow(t) \cap BehindTargets(v) = {}
        /\ \A t \in FinalTrain(mode), v \in FinalTest(mode) :
              BehindRow(t) \cap BehindTargets(v) = {}

(* A baseline that stands for a forecast has its history, of either season.                *)
BaselinesAnswerForecasts ==
    \A mode \in SensitivityModes : \A t \in Forecasts(mode) :
        Answers(mode, Horizon, t) /\ Answers(mode, Window, t)

(* The campaign finishes where the product's own experiments may not: every origin that it  *)
(* trains on or evaluates has the history of the daily baseline, those of E01 that of the  *)
(* weekly one, whichever hours its profiles leave out.  And the product makes the same of  *)
(* the campaign's last origin as the campaign does, though it sees hours that the campaign *)
(* does not: it accepts the origin, and it shows the model the same row.                   *)
CampaignAgreesWithProduct ==
    /\ \A profile \in Profiles : \A t \in CampaignOrigins(profile, Horizon) :
          Answers(profile, Horizon, t)
    /\ \A t \in WeeklyOrigins : Answers("main_90_complete_or_imputed", Window, t)
    /\ \A t \in CampaignForecasts :
          /\ t \in Forecasts("coverage_90")
          /\ FeatureRow("coverage_90", t) = FeatureRow("main_90_complete_or_imputed", t)

(* docs/implementation-log.md, lines 773-774: seasonal baselines answer for the exact      *)
(* origins that the evaluation supplies, those of the feature matrix.                      *)
BaselinesAnswerOrigins ==
    \A mode \in SensitivityModes : \A t \in Origins(mode) :
        Answers(mode, Horizon, t) /\ Answers(mode, Window, t)
=============================================================================
