------------------------- MODULE TrainingDataProofs -------------------------
(***************************************************************************)
(* Theorems about TrainingData: how far a measurement reaches through the   *)
(* interpolation, what follows for folds, final test and baselines, which   *)
(* hours and features a longer file leaves as they are, and what stands     *)
(* behind the energy of an hour and the defects of the report.              *)
(***************************************************************************)
EXTENDS TrainingData, SequenceTheorems, FiniteSetTheorems, WellFoundedInduction, TLAPS

(* A short gap spans as many samples as the limit allows: the ranges of ShortGaps. *)
Short(gaps) ==
    \A gap \in gaps :
        /\ gap[1] \in Int /\ gap[2] \in Int
        /\ gap[1] <= gap[2] /\ gap[2] - gap[1] < GapLimit

Near(h) == (h * PerHour - GapLimit)..(h * PerHour + PerHour - 1 + GapLimit)

(* The inductive invariant: samples and hours are numbers, and an hour is made from        *)
(* measurements within the gap limit of it.                                                *)
TrainingInv ==
    /\ DOMAIN file \subseteq Int
    /\ DOMAIN hourly \subseteq Int
    /\ \A h \in DOMAIN hourly : hourly[h].behind \subseteq Near(h)

-----------------------------------------------------------------------------
(* Lemmas about the engine *)

(* What _interpolate_short_gaps fills are short runs, whatever the file. *)
LEMMA GapsAreShort ==
    ASSUME NEW f, DOMAIN f \subseteq Int
    PROVE  Short(ShortGaps(f))
  <1>1. SUFFICES ASSUME NEW a \in DOMAIN f, NEW n \in 0..(GapLimit - 1), NEW gap, gap = <<a, a + n>>
                 PROVE  /\ gap[1] \in Int /\ gap[2] \in Int
                        /\ gap[1] <= gap[2] /\ gap[2] - gap[1] < GapLimit
    BY DEF Short, ShortGaps
  <1>2. a \in Int /\ GapLimit \in Nat /\ n \in Int /\ 0 <= n /\ n < GapLimit
    BY <1>1, TransformAssumption
  <1> QED BY <1>1, <1>2

(* A filled value is made from measurements no further away than the limit. *)
LEMMA BehindIsNear ==
    ASSUME NEW f, NEW gaps, Short(gaps), NEW h \in Int
    PROVE  Hour(f, gaps, h).behind \subseteq Near(h)
  <1>1. SUFFICES ASSUME NEW s \in SamplesOf(h), NEW x \in Behind(f, gaps, s)
                 PROVE  x \in Near(h)
    BY DEF Hour
  <1>2. PerHour \in Nat /\ GapLimit \in Nat
    BY TransformAssumption
  <1>3. h * PerHour \in Int
    BY <1>2
  <1>4. s \in Int /\ h * PerHour <= s /\ s <= h * PerHour + PerHour - 1
    BY <1>2, <1>3 DEF SamplesOf
  <1>5. x \in Int /\ s - GapLimit <= x /\ x <= s + GapLimit
    <2>1. CASE x = s
      BY <2>1, <1>2, <1>4
    <2>2. CASE \E gap \in GapsAt(gaps, s) : x \in {gap[1] - 1, gap[2] + 1}
      <3>1. PICK gap \in gaps : s \in gap[1]..gap[2] /\ x \in {gap[1] - 1, gap[2] + 1}
        BY <2>2 DEF GapsAt
      <3>2. gap[1] \in Int /\ gap[2] \in Int /\ gap[2] - gap[1] < GapLimit
        BY DEF Short
      <3> QED BY <3>1, <3>2, <1>2, <1>4
    <2> QED BY <2>1, <2>2 DEF Behind
  <1> QED BY <1>2, <1>3, <1>4, <1>5 DEF Near

(* Every transformation has these hours, of a file of any length. *)
LEMMA TransformIsNear ==
    ASSUME NEW f, DOMAIN f \subseteq Int, NEW gaps, Short(gaps)
    PROVE  /\ DOMAIN Transform(f, gaps) \subseteq Int
           /\ \A h \in DOMAIN Transform(f, gaps) : Transform(f, gaps)[h].behind \subseteq Near(h)
  <1>1. Hours(f) \subseteq Int
    <2>1. \A s \in DOMAIN f : HourOf(s) \in Int
      BY TransformAssumption DEF HourOf
    <2> QED BY <2>1 DEF Hours
  <1>2. \A h \in Hours(f) : Hour(f, gaps, h).behind \subseteq Near(h)
    BY <1>1, BehindIsNear
  <1> QED BY <1>1, <1>2 DEF Transform

(* Two hours with one between them have no measurement in common: a gap fills at most half of *)
(* the hour between.                                                                          *)
LEMMA DistantHoursShareNothing ==
    ASSUME NEW g \in Int, NEW h \in Int, g + 1 < h
    PROVE  Near(g) \cap Near(h) = {}
  <1>1. PerHour \in Nat /\ GapLimit \in Nat /\ 2 * GapLimit <= PerHour
    BY TransformAssumption
  <1>2. (g + 2) * PerHour <= h * PerHour
    <2>1. 0 <= (h - (g + 2)) * PerHour
      BY <1>1
    <2> QED BY <2>1, <1>1
  <1>3. (g + 2) * PerHour = g * PerHour + 2 * PerHour
    BY <1>1
  <1>4. g * PerHour \in Int /\ h * PerHour \in Int
    BY <1>1
  <1> QED BY <1>1, <1>2, <1>3, <1>4 DEF Near

-----------------------------------------------------------------------------
(* The invariant *)

LEMMA InitTraining == Init => TrainingInv
  <1> SUFFICES ASSUME Init PROVE TrainingInv
    OBVIOUS
  <1>1. DOMAIN file \subseteq Int
    BY DEF Init
  <1>2. hourly = Transform(file, {}) /\ Short({})
    BY DEF Init, Short
  <1> QED BY <1>1, <1>2, TransformIsNear DEF TrainingInv

LEMMA StepTraining == TrainingInv /\ [Next]_vars => TrainingInv'
  <1> SUFFICES ASSUME TrainingInv, [Next]_vars PROVE TrainingInv'
    OBVIOUS
  <1>1. ASSUME NEW group, Transformed(group) PROVE TrainingInv'
    <2>1. DOMAIN file' \subseteq Int /\ hourly' = Transform(file', ShortGaps(file'))
      BY <1>1 DEF Transformed, TrainingInv
    <2> QED BY <2>1, GapsAreShort, TransformIsNear DEF TrainingInv
  <1>2. CASE Measure
    BY <1>1, <1>2 DEF Measure
  <1>3. CASE MeasureBadly
    BY <1>1, <1>3 DEF MeasureBadly
  <1>4. CASE Skip
    BY <1>4 DEF Skip, TrainingInv
  <1>5. CASE UNCHANGED vars
    BY <1>5 DEF vars, TrainingInv
  <1> QED BY <1>2, <1>3, <1>4, <1>5 DEF Next

(* However a file grows and whatever is wrong in it, the hours of its version are made of  *)
(* measurements within the gap limit: what TransformationEngine.transform keeps.           *)
THEOREM TrainingInvariant == TrainingSpec => []TrainingInv
  <1> QED BY InitTraining, StepTraining, PTL DEF TrainingSpec

-----------------------------------------------------------------------------
(* Folds, final test and baselines *)

(* Origins whose last target and first target are further apart than an hour. *)
LEMMA DistantOriginsShareNothing ==
    ASSUME TrainingInv, NEW mode, NEW t \in Origins(mode), NEW v \in Origins(mode),
           t + Horizon < v
    PROVE  BehindRow(t) \cap BehindTargets(v) = {}
  <1>1. Window \in Nat /\ Horizon \in Nat /\ t \in Int /\ v \in Int
    BY TrainingAssumption DEF Origins, TrainingInv
  <1>2. \A g \in FeatureHours(t) \cup TargetHours(t) :
           g \in DOMAIN hourly /\ g \in Int /\ g <= t + Horizon
    BY <1>1 DEF Origins, HasFeatures, Known, FeatureHours, TargetHours
  <1>3. \A h \in TargetHours(v) : h \in DOMAIN hourly /\ h \in Int /\ v < h
    BY <1>1 DEF Origins, Known, TargetHours
  <1>4. \A g \in FeatureHours(t) \cup TargetHours(t), h \in TargetHours(v) :
           hourly[g].behind \cap hourly[h].behind = {}
    <2> TAKE g \in FeatureHours(t) \cup TargetHours(t), h \in TargetHours(v)
    <2>1. hourly[g].behind \subseteq Near(g) /\ hourly[h].behind \subseteq Near(h)
      BY <1>2, <1>3 DEF TrainingInv
    <2>2. g \in Int /\ h \in Int /\ g + 1 < h
      BY <1>1, <1>2, <1>3
    <2> QED BY <2>1, <2>2, DistantHoursShareNothing
  <1> QED BY <1>4 DEF BehindRow, BehindTargets, BehindHours

LEMMA PartsAreDistant == TrainingInv => PartsShareNoSample
  <1> SUFFICES ASSUME TrainingInv, NEW mode \in Modes
               PROVE  /\ \A i \in DOMAIN Periods :
                            \A t \in Train(mode, Periods[i]), v \in Validation(mode, Periods[i]) :
                               BehindRow(t) \cap BehindTargets(v) = {}
                      /\ \A t \in FinalTrain(mode), v \in FinalTest(mode) :
                            BehindRow(t) \cap BehindTargets(v) = {}
    BY DEF PartsShareNoSample
  <1>1. Origins(mode) \subseteq Int /\ Horizon \in Nat /\ TestStart \in Nat
    BY TrainingAssumption DEF Origins, TrainingInv
  <1>2. ASSUME NEW i \in DOMAIN Periods,
               NEW t \in Train(mode, Periods[i]), NEW v \in Validation(mode, Periods[i])
        PROVE  BehindRow(t) \cap BehindTargets(v) = {}
    <2>1. Periods[i].start \in Nat
      <3>1. Periods \in Seq([start : Nat, end : Nat]) /\ i \in 1..Len(Periods)
        BY TrainingAssumption
      <3>2. Periods[i] \in [start : Nat, end : Nat]
        BY <3>1, ElementOfSeq
      <3> QED BY <3>2
    <2>2. t \in Origins(mode) /\ v \in Origins(mode) /\ t + Horizon < v
      BY <1>1, <2>1 DEF Train, Validation
    <2> QED BY <2>2, DistantOriginsShareNothing
  <1>3. ASSUME NEW t \in FinalTrain(mode), NEW v \in FinalTest(mode)
        PROVE  BehindRow(t) \cap BehindTargets(v) = {}
    <2>1. t \in Origins(mode) /\ v \in Origins(mode) /\ t + Horizon < v
      BY <1>1 DEF FinalTrain, FinalTest
    <2> QED BY <2>1, DistantOriginsShareNothing
  <1> QED BY <1>2, <1>3

(* For every horizon, window, gap limit and set of folds the purge of splits.py and of     *)
(* _fit_final_model is wide enough for the interpolation of engine.py.                     *)
THEOREM PartsAreSeparate == TrainingSpec => []PartsShareNoSample
  <1> QED BY TrainingInvariant, PartsAreDistant, PTL

LEMMA ForecastsHaveHistory == TrainingInv => BaselinesAnswerForecasts
  <1> SUFFICES ASSUME TrainingInv, NEW mode \in SensitivityModes, NEW t \in Forecasts(mode)
               PROVE  Answers(mode, Horizon, t) /\ Answers(mode, Window, t)
    BY DEF BaselinesAnswerForecasts
  <1>1. Window \in Nat /\ Horizon \in Nat /\ Horizon < Window /\ t \in Int
    BY TrainingAssumption DEF Forecasts, HasFeatures, TrainingInv
  <1>2. \A h \in FeatureHours(t) \cup {t} : Known(mode, h)
    BY DEF Forecasts, ForecastOrigins, HasFeatures
  <1>3. SeasonalHours(Horizon, t) \subseteq FeatureHours(t) \cup {t}
    BY <1>1 DEF SeasonalHours, FeatureHours
  <1>4. SeasonalHours(Window, t) \subseteq FeatureHours(t) \cup {t}
    BY <1>1 DEF SeasonalHours, FeatureHours
  <1> QED BY <1>2, <1>3, <1>4 DEF Answers

(* A forecast's own hour and the window before it hold the history of both baselines, for  *)
(* any horizon shorter than the window: ForecastEngine.create never meets                  *)
(* MissingBaselineHistoryError.                                                            *)
THEOREM ForecastsAreAnswered == TrainingSpec => []BaselinesAnswerForecasts
  <1> QED BY TrainingInvariant, ForecastsHaveHistory, PTL

-----------------------------------------------------------------------------
(* The campaign *)

LEMMA CampaignIsAnswered == CampaignAgreesWithProduct
  <1> DEFINE main == "main_90_complete_or_imputed"
  <1>1. \A season, t : HistoryHours(season, t) = SeasonalHours(season, t)
    BY DEF HistoryHours, SeasonalHours
  <1>2. \A mode, season : \A t \in CampaignOrigins(mode, season) : Answers(mode, season, t)
    BY <1>1 DEF CampaignOrigins, Answers
  <1>3. \A t \in WeeklyOrigins : Answers(main, Window, t)
    BY <1>2 DEF WeeklyOrigins
  <1>4. ASSUME NEW hour, Eligible(main, hour) PROVE Eligible("coverage_90", hour)
    BY <1>4 DEF Eligible, EligibleForProfile, TrainingReady
  <1>5. \A h : Known(main, h) => Known("coverage_90", h)
    BY <1>4 DEF Known
  <1>6. ASSUME NEW t \in CampaignForecasts
        PROVE  /\ t \in Forecasts("coverage_90")
               /\ FeatureRow("coverage_90", t) = FeatureRow(main, t)
    <2>1. HasFeatures(main, t) /\ HasFeatures("coverage_90", t) /\ Known("coverage_90", t)
      BY <1>5, <1>6 DEF CampaignForecasts, HasFeatures
    <2>2. t \in Forecasts("coverage_90")
      BY <2>1 DEF Forecasts, ForecastOrigins, HasFeatures
    <2> QED BY <2>1, <2>2 DEF FeatureRow
  <1> QED BY <1>2, <1>3, <1>6 DEF CampaignAgreesWithProduct

(* Whatever the hours are: run_point5_campaign.py asks for every hour that a baseline      *)
(* reads, and what its main profile leaves out is outside coverage_90 or, where the        *)
(* product sees it, neither in the row of the last origin nor that origin.                 *)
THEOREM CampaignAgrees == TrainingSpec => []CampaignAgreesWithProduct
  <1> QED BY CampaignIsAnswered, PTL

-----------------------------------------------------------------------------
(* A file that grows: what the next rows can change *)

Measured(f, s) == s \in DOMAIN f /\ TargetValue(f, s) # NoValue

\* f ends before sample n, and g has the rows of n too.
Longer(f, n, group, g) ==
    /\ DOMAIN f \subseteq Int /\ n \in DOMAIN f
    /\ \A s \in DOMAIN f : n <= s => f[s] = <<>>
    /\ g = [f EXCEPT ![n] = group]

\* There is a measurement at or after each sample of the hour.
Settled(f, h) == \A s \in SamplesOf(h) : \E x \in Int : s <= x /\ Measured(f, x)

LEMMA BeforeTheEnd ==
    ASSUME NEW f, NEW n, NEW group, NEW g, Longer(f, n, group, g)
    PROVE  /\ DOMAIN g = DOMAIN f
           /\ \A x : Measured(f, x) => x < n
           /\ \A s \in DOMAIN f : s < n => g[s] = f[s] /\ TargetValue(g, s) = TargetValue(f, s)
  <1>1. DOMAIN g = DOMAIN f /\ n \in Int
    BY DEF Longer
  <1>2. ASSUME NEW x, Measured(f, x) PROVE x < n
    <2>1. x \in DOMAIN f /\ x \in Int /\ f[x] # <<>>
      BY <1>2 DEF Measured, TargetValue, Longer
    <2> QED BY <2>1, <1>1 DEF Longer
  <1>3. ASSUME NEW s \in DOMAIN f, s < n
        PROVE  g[s] = f[s] /\ TargetValue(g, s) = TargetValue(f, s)
    <2>1. s \in Int /\ s # n
      BY <1>1, <1>3 DEF Longer
    <2>2. g[s] = f[s]
      BY <2>1 DEF Longer
    <2> QED BY <2>2 DEF TargetValue
  <1> QED BY <1>1, <1>2, <1>3

(* What ShortGaps says of one run. *)
LEMMA ShortGapIs ==
    ASSUME NEW f, NEW gap
    PROVE  gap \in ShortGaps(f) <=>
              \E a \in DOMAIN f, m \in 0..(GapLimit - 1) :
                 /\ gap = <<a, a + m>>
                 /\ \A s \in a..(a + m) : s \in DOMAIN f /\ TargetValue(f, s) = NoValue
                 /\ Measured(f, a - 1) /\ Measured(f, a + m + 1)
  <1>1. ASSUME NEW a, NEW m, gap = <<a, a + m>>
        PROVE  (\A s \in {gap[1] - 1, gap[2] + 1} : s \in DOMAIN f /\ TargetValue(f, s) # NoValue)
               <=> Measured(f, a - 1) /\ Measured(f, a + m + 1)
    BY <1>1 DEF Measured
  <1> QED BY <1>1 DEF ShortGaps

(* A gap that begins before a measurement also ends before it, and is the same in the      *)
(* longer file.                                                                            *)
LEMMA GapsStay ==
    ASSUME NEW f, NEW n, NEW group, NEW g, Longer(f, n, group, g),
           NEW s \in Int, NEW x \in Int, s <= x, Measured(f, x)
    PROVE  GapsAt(ShortGaps(g), s) = GapsAt(ShortGaps(f), s)
  <1>1. DOMAIN g = DOMAIN f /\ DOMAIN f \subseteq Int /\ n \in Int /\ x < n
    BY BeforeTheEnd DEF Longer
  <1>2. \A y \in DOMAIN f : y < n => TargetValue(g, y) = TargetValue(f, y)
    BY BeforeTheEnd
  <1>3. GapLimit \in Nat
    BY TransformAssumption
  <1>4. ASSUME NEW a \in Int, NEW m \in Int, a + m + 1 <= n - 1
        PROVE  /\ \A y \in a..(a + m) :
                     y \in DOMAIN f => TargetValue(g, y) = TargetValue(f, y)
               /\ Measured(g, a + m + 1) <=> Measured(f, a + m + 1)
               /\ m >= 0 => (Measured(g, a - 1) <=> Measured(f, a - 1))
    BY <1>1, <1>2, <1>4 DEF Measured
  <1>5. ASSUME NEW gap \in ShortGaps(f), s \in gap[1]..gap[2] PROVE gap \in ShortGaps(g)
    <2>1. PICK a \in DOMAIN f, m \in 0..(GapLimit - 1) :
             /\ gap = <<a, a + m>>
             /\ \A y \in a..(a + m) : y \in DOMAIN f /\ TargetValue(f, y) = NoValue
             /\ Measured(f, a - 1) /\ Measured(f, a + m + 1)
      BY ShortGapIs
    <2>2. a \in Int /\ m \in Int /\ m >= 0 /\ a + m + 1 < n
      BY <2>1, <1>1, <1>3, BeforeTheEnd
    <2>3. /\ \A y \in a..(a + m) : y \in DOMAIN g /\ TargetValue(g, y) = NoValue
          /\ Measured(g, a - 1) /\ Measured(g, a + m + 1)
      BY <2>1, <2>2, <1>1, <1>4
    <2> QED BY <2>1, <2>3, <1>1, ShortGapIs
  <1>6. ASSUME NEW gap \in ShortGaps(g), s \in gap[1]..gap[2] PROVE gap \in ShortGaps(f)
    <2>1. PICK a \in DOMAIN g, m \in 0..(GapLimit - 1) :
             /\ gap = <<a, a + m>>
             /\ \A y \in a..(a + m) : y \in DOMAIN g /\ TargetValue(g, y) = NoValue
             /\ Measured(g, a - 1) /\ Measured(g, a + m + 1)
      BY ShortGapIs
    <2>2. a \in Int /\ m \in Int /\ m >= 0 /\ a <= s /\ s <= a + m
      BY <2>1, <1>1, <1>3, <1>6
    <2>3. x \in DOMAIN f /\ TargetValue(g, x) # NoValue
      BY <1>1, <1>2 DEF Measured
    <2>4. a + m + 1 <= x
      BY <2>1, <2>2, <2>3
    <2>5. /\ \A y \in a..(a + m) : y \in DOMAIN f /\ TargetValue(f, y) = NoValue
          /\ Measured(f, a - 1) /\ Measured(f, a + m + 1)
      BY <2>1, <2>2, <2>4, <1>1, <1>4
    <2> QED BY <2>1, <2>5, <1>1, ShortGapIs
  <1> QED BY <1>5, <1>6 DEF GapsAt

(* A settled hour is the same in the longer file: its measurements, its gaps, and with     *)
(* them status and energy.                                                                 *)
LEMMA SettledHoursStay ==
    ASSUME NEW f, NEW n, NEW group, NEW g, Longer(f, n, group, g),
           NEW h \in Int, Settled(f, h), SamplesOf(h) \subseteq DOMAIN f
    PROVE  Hour(g, ShortGaps(g), h) = Hour(f, ShortGaps(f), h)
  <1>1. ASSUME NEW s \in SamplesOf(h)
        PROVE  /\ g[s] = f[s] /\ TargetValue(g, s) = TargetValue(f, s)
               /\ GapsAt(ShortGaps(g), s) = GapsAt(ShortGaps(f), s)
    <2>1. PICK x \in Int : s <= x /\ Measured(f, x)
      BY DEF Settled
    <2>2. s \in DOMAIN f /\ s \in Int /\ n \in Int /\ x < n
      BY <2>1, BeforeTheEnd DEF Longer
    <2>3. s < n
      BY <2>1, <2>2
    <2> QED BY <2>1, <2>2, <2>3, BeforeTheEnd, GapsStay
  <1>2. ASSUME NEW s \in SamplesOf(h)
        PROVE  Filled(g, ShortGaps(g), s) = Filled(f, ShortGaps(f), s)
    <2>1. CASE GapsAt(ShortGaps(f), s) = {}
      BY <2>1, <1>1 DEF Filled
    <2>2. CASE GapsAt(ShortGaps(f), s) # {}
      <3>1. PICK gap \in ShortGaps(f) : gap = CHOOSE c \in GapsAt(ShortGaps(f), s) : TRUE
        BY <2>2 DEF GapsAt
      <3>2. PICK a \in DOMAIN f, m \in 0..(GapLimit - 1) :
               gap = <<a, a + m>> /\ Measured(f, a - 1) /\ Measured(f, a + m + 1)
        BY <3>1, ShortGapIs
      <3>3. /\ gap[1] - 1 \in DOMAIN f /\ gap[1] - 1 < n
            /\ gap[2] + 1 \in DOMAIN f /\ gap[2] + 1 < n
        BY <3>2, BeforeTheEnd DEF Measured
      <3>4. /\ TargetValue(g, gap[1] - 1) = TargetValue(f, gap[1] - 1)
            /\ TargetValue(g, gap[2] + 1) = TargetValue(f, gap[2] + 1)
        BY <3>3, BeforeTheEnd
      <3>5. Interpolated(g, gap, s) = Interpolated(f, gap, s)
        BY <3>4 DEF Interpolated
      <3>6. Filled(f, ShortGaps(f), s) = Interpolated(f, gap, s)
        BY <3>1, <2>2 DEF Filled
      <3>7. Filled(g, ShortGaps(g), s) = Interpolated(g, gap, s)
        BY <3>1, <2>2, <1>1 DEF Filled
      <3> QED BY <3>5, <3>6, <3>7
    <2> QED BY <2>1, <2>2
  <1>3. /\ (\E s \in SamplesOf(h) : Conflict(g, s)) <=> (\E s \in SamplesOf(h) : Conflict(f, s))
        /\ (\E s \in SamplesOf(h) : HasInvalidNumeric(g, s))
           <=> (\E s \in SamplesOf(h) : HasInvalidNumeric(f, s))
    <2>1. ASSUME NEW s \in SamplesOf(h)
          PROVE  /\ Conflict(g, s) <=> Conflict(f, s)
                 /\ HasInvalidNumeric(g, s) <=> HasInvalidNumeric(f, s)
      BY <1>1 DEF Conflict, HasInvalidNumeric
    <2> QED BY <2>1
  <1>4. {s \in SamplesOf(h) : TargetValue(g, s) # NoValue}
           = {s \in SamplesOf(h) : TargetValue(f, s) # NoValue}
    BY <1>1
  <1>5. {s \in SamplesOf(h) : Filled(g, ShortGaps(g), s) # NoValue}
           = {s \in SamplesOf(h) : Filled(f, ShortGaps(f), s) # NoValue}
    BY <1>2
  <1>6. [s \in {t \in SamplesOf(h) : Filled(f, ShortGaps(f), t) # NoValue} |->
            Filled(g, ShortGaps(g), s)]
           = [s \in {t \in SamplesOf(h) : Filled(f, ShortGaps(f), t) # NoValue} |->
                Filled(f, ShortGaps(f), s)]
    BY <1>2
  <1>7. UNION {Behind(g, ShortGaps(g), s) : s \in SamplesOf(h)}
           = UNION {Behind(f, ShortGaps(f), s) : s \in SamplesOf(h)}
    <2>1. ASSUME NEW s \in SamplesOf(h)
          PROVE  Behind(g, ShortGaps(g), s) = Behind(f, ShortGaps(f), s)
      BY <1>1 DEF Behind
    <2> QED BY <2>1
  <1> QED BY <1>3, <1>4, <1>5, <1>6, <1>7, Zenon DEF Hour

-----------------------------------------------------------------------------
(* Which hours are settled *)

WholeHours(f) == DOMAIN f = 0..(MaxSamples - 1)

(* The file has room for whole hours. *)
LEMMA HoursAreWhole ==
    ASSUME NEW f, WholeHours(f), NEW h \in Hours(f)
    PROVE  h \in Int /\ SamplesOf(h) \subseteq DOMAIN f
  <1>1. PerHour \in Nat /\ PerHour > 0 /\ MaxSamples \in Nat /\ MaxSamples % PerHour = 0
    BY TransformAssumption, TrainingAssumption
  <1>2. PICK s \in 0..(MaxSamples - 1) : h = s \div PerHour
    BY DEF WholeHours, Hours, HourOf
  <1>3. h \in Int /\ 0 <= h /\ h * PerHour <= s
    BY <1>1, <1>2
  <1>4. PICK k \in Int : MaxSamples = k * PerHour
    <2>1. MaxSamples = (MaxSamples \div PerHour) * PerHour + (MaxSamples % PerHour)
      BY <1>1
    <2> QED BY <1>1, <2>1
  <1>5. h * PerHour + PerHour <= MaxSamples
    <2>1. h * PerHour < k * PerHour
      BY <1>1, <1>2, <1>3, <1>4
    <2>2. h + 1 <= k
      <3>1. CASE k <= h
        <4>1. 0 <= (h - k) * PerHour
          BY <3>1, <1>1, <1>3, <1>4
        <4>2. (h - k) * PerHour = h * PerHour - k * PerHour
          BY <1>1, <1>3, <1>4
        <4> QED BY <4>1, <4>2, <2>1, <1>1, <1>3, <1>4
      <3> QED BY <3>1, <1>3, <1>4
    <2>3. 0 <= (k - (h + 1)) * PerHour
      BY <1>1, <1>3, <1>4, <2>2
    <2>4. (k - (h + 1)) * PerHour = MaxSamples - (h * PerHour + PerHour)
      BY <1>1, <1>3, <1>4
    <2> QED BY <1>1, <1>3, <2>3, <2>4
  <1>6. 0 <= h * PerHour
    BY <1>1, <1>3
  <1> QED BY <1>1, <1>3, <1>5, <1>6 DEF SamplesOf, WholeHours

(* _aggregate_hour counts what was measured of an hour. *)
LEMMA ObservedMeans ==
    ASSUME NEW f, NEW gaps, NEW h \in Int, SamplesOf(h) \subseteq DOMAIN f
    PROVE  /\ Hour(f, gaps, h).observed = PerHour => \A s \in SamplesOf(h) : Measured(f, s)
           /\ Hour(f, gaps, h).observed # 0 => \E s \in SamplesOf(h) : Measured(f, s)
  <1> DEFINE observed == {s \in SamplesOf(h) : TargetValue(f, s) # NoValue}
  <1>1. Hour(f, gaps, h).observed = Cardinality(observed)
    BY DEF Hour
  <1>2. IsFiniteSet(SamplesOf(h)) /\ Cardinality(SamplesOf(h)) = PerHour
    <2>1. PerHour \in Nat /\ PerHour > 0 /\ h * PerHour \in Int
      BY TransformAssumption
    <2> QED BY <2>1, FS_Interval DEF SamplesOf
  <1>3. observed \in SUBSET SamplesOf(h)
    OBVIOUS
  <1>4. Cardinality(observed) = PerHour => observed = SamplesOf(h)
    BY <1>2, <1>3, FS_Subset
  <1>5. Cardinality(observed) # 0 => observed # {}
    BY FS_EmptySet
  <1> QED BY <1>1, <1>3, <1>4, <1>5 DEF Measured

(* What the status says. *)
LEMMA StatusMeans ==
    ASSUME NEW conflict, NEW invalid, NEW observed, NEW filled
    PROVE  /\ Status(conflict, invalid, observed, filled) = "complete" => observed = PerHour
           /\ Status(conflict, invalid, observed, filled) = "imputed_short_gap" => filled
  BY DEF Status

(* Every sample of an hour that is ready was measured, or the gap it lies in has ended. *)
LEMMA ReadyIsSettled ==
    ASSUME NEW f, NEW h \in Int, SamplesOf(h) \subseteq DOMAIN f, DOMAIN f \subseteq Int,
           Hour(f, ShortGaps(f), h).status \in TrainingReady
    PROVE  Settled(f, h)
  <1>1. CASE Hour(f, ShortGaps(f), h).observed = PerHour
    <2>1. \A s \in SamplesOf(h) : s \in Int /\ s <= s /\ Measured(f, s)
      BY <1>1, ObservedMeans
    <2> QED BY <2>1 DEF Settled
  <1>2. CASE \A s \in SamplesOf(h) : Filled(f, ShortGaps(f), s) # NoValue
    <2> SUFFICES ASSUME NEW s \in SamplesOf(h) PROVE \E x \in Int : s <= x /\ Measured(f, x)
      BY DEF Settled
    <2>1. CASE GapsAt(ShortGaps(f), s) = {}
      <3>1. s \in Int /\ s <= s /\ Measured(f, s)
        BY <1>2, <2>1 DEF Filled, Measured
      <3> QED BY <3>1
    <2>2. CASE GapsAt(ShortGaps(f), s) # {}
      <3>1. PICK gap \in ShortGaps(f) : s \in gap[1]..gap[2]
        BY <2>2 DEF GapsAt
      <3>2. PICK a \in DOMAIN f, m \in 0..(GapLimit - 1) :
               gap = <<a, a + m>> /\ Measured(f, a + m + 1)
        BY <3>1, ShortGapIs
      <3>3. a + m + 1 \in Int /\ s <= a + m + 1
        BY <3>1, <3>2
      <3> QED BY <3>2, <3>3
    <2> QED BY <2>1, <2>2
  <1>3. \/ Hour(f, ShortGaps(f), h).observed = PerHour
        \/ \A s \in SamplesOf(h) : Filled(f, ShortGaps(f), s) # NoValue
    <2> DEFINE present == {s \in SamplesOf(h) : Filled(f, ShortGaps(f), s) # NoValue}
               status == Hour(f, ShortGaps(f), h).status
               observed == Hour(f, ShortGaps(f), h).observed
               conflict == \E s \in SamplesOf(h) : Conflict(f, s)
               invalid == \E s \in SamplesOf(h) : HasInvalidNumeric(f, s)
    <2>1. status = Status(conflict, invalid, observed, present = SamplesOf(h))
      BY DEF Hour
    <2>2. status = "complete" => observed = PerHour
      <3> HIDE DEF present, status, observed, conflict, invalid
      <3> QED BY <2>1, StatusMeans
    <2>3. status = "imputed_short_gap" => present = SamplesOf(h)
      <3> HIDE DEF present, status, observed, conflict, invalid
      <3> QED BY <2>1, StatusMeans
    <2> QED BY <2>2, <2>3 DEF TrainingReady
  <1> QED BY <1>1, <1>2, <1>3

(* A measurement in an hour settles the hours before. *)
LEMMA EarlierIsSettled ==
    ASSUME NEW f, NEW t \in Int, NEW h \in Int, h < t,
           NEW x \in SamplesOf(t), Measured(f, x)
    PROVE  Settled(f, h)
  <1>1. PerHour \in Nat /\ h * PerHour \in Int /\ t * PerHour \in Int
    BY TransformAssumption
  <1>2. h * PerHour + PerHour <= t * PerHour
    <2>1. 0 <= (t - (h + 1)) * PerHour
      BY <1>1
    <2>2. (t - (h + 1)) * PerHour = t * PerHour - (h * PerHour + PerHour)
      BY <1>1
    <2> QED BY <1>1, <2>1, <2>2
  <1>3. \A s \in SamplesOf(h) : x \in Int /\ s <= x
    BY <1>1, <1>2 DEF SamplesOf
  <1> QED BY <1>3 DEF Settled

-----------------------------------------------------------------------------
(* What stays when the file grows *)

GrowthInv ==
    /\ WholeHours(file)
    /\ next \in Nat
    /\ \A s \in DOMAIN file : next <= s => file[s] = <<>>
    /\ hourly = Transform(file, ShortGaps(file))

LEMMA InitGrowth == Init => GrowthInv
  <1> SUFFICES ASSUME Init PROVE GrowthInv
    OBVIOUS
  <1>1. \A s \in DOMAIN file : file[s] = <<>>
    BY DEF Init
  <1>2. Hours(file) = {}
    BY <1>1 DEF Hours, Covers
  <1>3. Transform(file, {}) = Transform(file, ShortGaps(file))
    BY <1>2 DEF Transform
  <1> QED BY <1>1, <1>3 DEF Init, GrowthInv, WholeHours

(* A step adds rows at the end and transforms the file, or does neither. *)
LEMMA StepIsLonger ==
    ASSUME GrowthInv, [Next]_vars
    PROVE  \/ UNCHANGED <<file, hourly>>
           \/ /\ \E group : Longer(file, next, group, file')
              /\ WholeHours(file)'
              /\ next' = next + 1
              /\ hourly' = Transform(file', ShortGaps(file'))
  <1>1. ASSUME NEW group, Transformed(group), next < MaxSamples, next' = next + 1
        PROVE  /\ Longer(file, next, group, file')
               /\ WholeHours(file)'
               /\ next' = next + 1
               /\ hourly' = Transform(file', ShortGaps(file'))
    <2>1. file' = [file EXCEPT ![next] = group] /\ hourly' = Transform(file', ShortGaps(file'))
      BY <1>1 DEF Transformed
    <2>2. MaxSamples \in Nat /\ next \in 0..(MaxSamples - 1)
      BY <1>1, TrainingAssumption DEF GrowthInv
    <2> QED BY <1>1, <2>1, <2>2 DEF GrowthInv, Longer, WholeHours
  <1>2. CASE Measure
    BY <1>1, <1>2 DEF Measure
  <1>3. CASE MeasureBadly
    BY <1>1, <1>3 DEF MeasureBadly
  <1>4. CASE Skip
    BY <1>4 DEF Skip
  <1>5. CASE UNCHANGED vars
    BY <1>5 DEF vars
  <1> QED BY <1>2, <1>3, <1>4, <1>5 DEF Next

LEMMA StepGrowth == GrowthInv /\ [Next]_vars => GrowthInv'
  <1> SUFFICES ASSUME GrowthInv, [Next]_vars PROVE GrowthInv'
    OBVIOUS
  <1>1. CASE UNCHANGED <<file, hourly>>
    <2>1. next' \in Nat /\ next <= next'
      <3>1. CASE Measure \/ MeasureBadly
        BY <3>1 DEF Measure, MeasureBadly, GrowthInv
      <3>2. CASE Skip
        BY <3>2, TrainingAssumption DEF Skip, GrowthInv
      <3>3. CASE UNCHANGED vars
        BY <3>3 DEF vars, GrowthInv
      <3> QED BY <3>1, <3>2, <3>3 DEF Next
    <2>2. \A s \in DOMAIN file : s \in Int
      BY DEF GrowthInv, WholeHours
    <2>3. \A s \in DOMAIN file' : next' <= s => file'[s] = <<>>
      BY <1>1, <2>1, <2>2 DEF GrowthInv
    <2> QED BY <1>1, <2>1, <2>3 DEF GrowthInv, WholeHours
  <1>2. CASE /\ \E group : Longer(file, next, group, file')
             /\ WholeHours(file)'
             /\ next' = next + 1
             /\ hourly' = Transform(file', ShortGaps(file'))
    <2>1. \A s \in DOMAIN file' : next' <= s => file'[s] = <<>>
      BY <1>2 DEF GrowthInv, Longer
    <2> QED BY <1>2, <2>1 DEF GrowthInv
  <1> QED BY <1>1, <1>2, StepIsLonger

(* Rows at the end take no hour away, and add none before an hour that has a measurement. *)
LEMMA HoursGrow ==
    ASSUME NEW f, NEW n, NEW group, NEW g, Longer(f, n, group, g)
    PROVE  /\ Hours(f) \subseteq Hours(g)
           /\ \A x, h : Measured(f, x) /\ h < HourOf(x) /\ h \in Hours(g) => h \in Hours(f)
  <1>1. DOMAIN g = DOMAIN f /\ DOMAIN f \subseteq Int /\ n \in DOMAIN f
    BY BeforeTheEnd DEF Longer
  <1>2. \A s \in DOMAIN f : f[s] # <<>> => g[s] = f[s]
    BY DEF Longer
  <1>3. \A s \in DOMAIN f : g[s] # f[s] => s = n
    BY DEF Longer
  <1>4. Hours(f) \subseteq Hours(g)
    BY <1>1, <1>2 DEF Hours, Covers
  <1>5. ASSUME NEW x, NEW h, Measured(f, x), h < HourOf(x), h \in Hours(g) PROVE h \in Hours(f)
    <2>1. PerHour \in Nat /\ PerHour > 0
      BY TransformAssumption
    <2>2. x \in DOMAIN f /\ x \in Int /\ f[x] # <<>> /\ x < n /\ n \in Int
      BY <1>1, <1>5, BeforeTheEnd DEF Measured, TargetValue
    <2>3. HourOf(x) <= HourOf(n) /\ HourOf(x) \in Int /\ HourOf(n) \in Int
      BY <2>1, <2>2 DEF HourOf
    <2>4. h \in Int
      BY <1>1, <1>5, <2>1 DEF Hours, HourOf
    <2>5. PICK s \in DOMAIN g : g[s] # <<>> /\ HourOf(s) <= h
      BY <1>5 DEF Hours, Covers
    <2>6. s # n
      BY <2>3, <2>4, <2>5, <1>5
    <2>7. f[s] # <<>>
      BY <1>1, <1>3, <2>5, <2>6
    <2> QED BY <1>1, <1>5, <2>2, <2>3, <2>4, <2>5, <2>7 DEF Hours, Covers
  <1> QED BY <1>4, <1>5

(* An hour that is settled keeps its row. *)
LEMMA SettledRowsStay ==
    ASSUME GrowthInv, [Next]_vars, NEW h \in DOMAIN hourly, Settled(file, h)
    PROVE  h \in DOMAIN hourly' /\ hourly'[h] = hourly[h]
  <1>1. CASE UNCHANGED <<file, hourly>>
    BY <1>1
  <1>2. CASE /\ \E group : Longer(file, next, group, file')
             /\ hourly' = Transform(file', ShortGaps(file'))
    <2>1. h \in Hours(file) /\ hourly[h] = Hour(file, ShortGaps(file), h)
      BY DEF GrowthInv, Transform
    <2>2. h \in Int /\ SamplesOf(h) \subseteq DOMAIN file
      BY <2>1, HoursAreWhole DEF GrowthInv
    <2>3. PICK group : Longer(file, next, group, file')
      BY <1>2
    <2>4. h \in Hours(file')
      BY <2>1, <2>3, HoursGrow
    <2>5. Hour(file', ShortGaps(file'), h) = Hour(file, ShortGaps(file), h)
      BY <2>2, <2>3, SettledHoursStay
    <2> QED BY <1>2, <2>1, <2>4, <2>5 DEF Transform
  <1> QED BY <1>1, <1>2, StepIsLonger

LEMMA ReadyRowsStay ==
    ASSUME GrowthInv, [Next]_vars, NEW h \in DOMAIN hourly, hourly[h].status \in TrainingReady
    PROVE  h \in DOMAIN hourly' /\ hourly'[h] = hourly[h]
  <1>1. h \in Hours(file) /\ hourly[h] = Hour(file, ShortGaps(file), h)
    BY DEF GrowthInv, Transform
  <1>2. h \in Int /\ SamplesOf(h) \subseteq DOMAIN file
    BY <1>1, HoursAreWhole DEF GrowthInv
  <1>3. DOMAIN file \subseteq Int
    BY DEF GrowthInv, WholeHours
  <1>4. Settled(file, h)
    BY <1>1, <1>2, <1>3, ReadyIsSettled
  <1> QED BY <1>4, SettledRowsStay

(* What is measured later changes no hour that TransformationEngine has called ready: the  *)
(* gap of an imputed hour has ended before.                                                *)
THEOREM ReadyIsFinal == TrainingSpec => ReadyHoursStay
  <1>1. GrowthInv /\ [Next]_vars
        => [\A h \in DOMAIN hourly :
              hourly[h].status \in TrainingReady =>
                 h \in DOMAIN hourly' /\ hourly'[h] = hourly[h]]_vars
    BY ReadyRowsStay
  <1> QED BY <1>1, InitGrowth, StepGrowth, PTL DEF TrainingSpec, ReadyHoursStay

(* An hour that is known to a mode or a profile has a measurement. *)
LEMMA KnownIsMeasured ==
    ASSUME GrowthInv, NEW mode \in Modes, NEW t, Known(mode, t)
    PROVE  t \in Int /\ \E x \in SamplesOf(t) : Measured(file, x)
  <1>1. t \in Hours(file) /\ hourly[t] = Hour(file, ShortGaps(file), t)
    BY DEF GrowthInv, Transform, Known
  <1>2. t \in Int /\ SamplesOf(t) \subseteq DOMAIN file
    BY <1>1, HoursAreWhole DEF GrowthInv
  <1>3. \/ hourly[t].status = "complete"
        \/ hourly[t].observed >= Ninety
        \/ hourly[t].observed >= Eighty
    BY DEF Known, Eligible, EligibleForProfile
  <1>4. hourly[t].status = "complete" => hourly[t].observed = PerHour
    <2> DEFINE conflict == \E s \in SamplesOf(t) : Conflict(file, s)
               invalid == \E s \in SamplesOf(t) : HasInvalidNumeric(file, s)
               observed == hourly[t].observed
               filled == {s \in SamplesOf(t) : Filled(file, ShortGaps(file), s) # NoValue}
                            = SamplesOf(t)
    <2>1. hourly[t].status = Status(conflict, invalid, observed, filled)
      BY <1>1 DEF Hour
    <2> HIDE DEF conflict, invalid, filled
    <2> QED BY <2>1, StatusMeans
  <1>5. hourly[t].observed # 0
    BY <1>3, <1>4, TransformAssumption, TrainingAssumption
  <1> QED BY <1>1, <1>2, <1>5, ObservedMeans

(* The rows before an hour with a measurement are the same in the next version. *)
LEMMA EarlierRowsStay ==
    ASSUME GrowthInv, [Next]_vars, NEW t \in Int, NEW x \in SamplesOf(t), Measured(file, x),
           NEW h, h \in Int, h < t
    PROVE  /\ h \in DOMAIN hourly' <=> h \in DOMAIN hourly
           /\ h \in DOMAIN hourly => hourly'[h] = hourly[h]
  <1>1. Settled(file, h)
    BY EarlierIsSettled
  <1>2. ASSUME h \in DOMAIN hourly' PROVE h \in DOMAIN hourly
    <2>1. CASE UNCHANGED <<file, hourly>>
      BY <1>2, <2>1
    <2>2. CASE /\ \E group : Longer(file, next, group, file')
               /\ hourly' = Transform(file', ShortGaps(file'))
      <3>1. HourOf(x) = t
        <4>1. /\ PerHour \in Nat /\ PerHour > 0 /\ t * PerHour \in Int /\ x \in Int
              /\ t * PerHour <= x /\ x < t * PerHour + PerHour
          BY TransformAssumption DEF SamplesOf
        <4> QED BY <4>1 DEF HourOf
      <3>2. h \in Hours(file')
        BY <1>2, <2>2 DEF Transform
      <3>3. h \in Hours(file)
        BY <2>2, <3>1, <3>2, HoursGrow
      <3> QED BY <3>3 DEF GrowthInv, Transform
    <2> QED BY <2>1, <2>2, StepIsLonger
  <1> QED BY <1>1, <1>2, SettledRowsStay

LEMMA RowsAreFinal ==
    ASSUME GrowthInv, [Next]_vars, NEW mode \in Modes, NEW t \in ForecastOrigins(mode)
    PROVE  FeatureRow(mode, t)' = FeatureRow(mode, t)
  <1>1. Known(mode, t) /\ t \in DOMAIN hourly
    BY DEF ForecastOrigins
  <1>2. PICK x \in SamplesOf(t) : Measured(file, x)
    BY <1>1, KnownIsMeasured
  <1>3. t \in Int /\ Window \in Nat
    BY <1>1, KnownIsMeasured, TrainingAssumption
  <1>4. \A h \in FeatureHours(t) :
           /\ h \in DOMAIN hourly' <=> h \in DOMAIN hourly
           /\ h \in DOMAIN hourly => hourly'[h] = hourly[h]
    <2>1. \A h \in FeatureHours(t) : h \in Int /\ h < t
      BY <1>3 DEF FeatureHours
    <2> QED BY <2>1, <1>2, <1>3, EarlierRowsStay
  <1>5. \A h \in FeatureHours(t) : Known(mode, h)' <=> Known(mode, h)
    BY <1>4 DEF Known
  <1>6. t \in DOMAIN hourly'
    <2>1. CASE UNCHANGED <<file, hourly>>
      BY <2>1, <1>1
    <2>2. CASE /\ \E group : Longer(file, next, group, file')
               /\ hourly' = Transform(file', ShortGaps(file'))
      <3>1. t \in Hours(file)
        BY <1>1 DEF GrowthInv, Transform
      <3> QED BY <3>1, <2>2, HoursGrow DEF Transform
    <2> QED BY <2>1, <2>2, StepIsLonger
  <1>7. HasFeatures(mode, t)' <=> HasFeatures(mode, t)
    BY <1>1, <1>5, <1>6 DEF HasFeatures, FeatureHours
  <1>8. HasFeatures(mode, t) => \A h \in FeatureHours(t) : hourly'[h] = hourly[h]
    BY <1>4 DEF HasFeatures, Known
  <1>9. HasFeatures(mode, t) =>
           [h \in FeatureHours(t) |-> hourly'[h].energy]
              = [h \in FeatureHours(t) |-> hourly[h].energy]
    BY <1>8
  <1> QED BY <1>7, <1>9 DEF FeatureRow, FeatureHours

(* A forecast sees what training on any longer file will see for its origin, in both       *)
(* sensitivity modes and for every window: an origin that is known has a measurement, and  *)
(* every gap before it has ended.                                                          *)
THEOREM FeaturesStay == TrainingSpec => FeaturesAreFinal
  <1>1. GrowthInv /\ [Next]_vars
        => [\A mode \in SensitivityModes : \A t \in ForecastOrigins(mode) :
              FeatureRow(mode, t)' = FeatureRow(mode, t)]_vars
    BY RowsAreFinal DEF Modes
  <1> QED BY <1>1, InitGrowth, StepGrowth, PTL DEF TrainingSpec, FeaturesAreFinal

-----------------------------------------------------------------------------
(* Sums, least elements, and the rows that duplicates are resolved to *)

(* Of things with a natural number each, one has the least. *)
LEMMA LeastExists ==
    ASSUME NEW S, S # {}, NEW f, \A x \in S : f[x] \in Nat
    PROVE  \E x \in S : \A y \in S : f[x] <= f[y]
  <1> DEFINE T == {f[x] : x \in S}
  <1>1. T \subseteq Nat /\ T # {}
    OBVIOUS
  <1>2. PICK n \in T : \A m \in T : ~ (<<m, n>> \in OpToRel(<, Nat))
    <2> HIDE DEF T
    <2> QED BY <1>1, NatLessThanWellFounded, WFMin
  <1>3. PICK x \in S : f[x] = n
    OBVIOUS
  <1>4. \A y \in S : ~ (f[y] < n) /\ f[y] \in Nat
    BY <1>1, <1>2 DEF OpToRel
  <1> QED BY <1>3, <1>4

\* The equation of a sum over the subsets of S: take one element, and add what the rest come to.
Sums(T, v, S, n) ==
    {F \in [{s \in SUBSET S : Cardinality(s) <= n} -> T] :
        \A s \in {r \in SUBSET S : Cardinality(r) <= n} :
           F[s] = IF s = {} THEN 0
                  ELSE v[CHOOSE x \in s : TRUE] + F[s \ {CHOOSE x \in s : TRUE}]}

(* The rest of a finite set has one element less. *)
LEMMA RestIsLess ==
    ASSUME NEW S, IsFiniteSet(S), NEW s \in SUBSET S, s # {}
    PROVE  /\ (CHOOSE x \in s : TRUE) \in s
           /\ s \ {CHOOSE x \in s : TRUE} \in SUBSET S
           /\ Cardinality(s) \in Nat /\ Cardinality(s \ {CHOOSE x \in s : TRUE}) \in Nat
           /\ Cardinality(s \ {CHOOSE x \in s : TRUE}) = Cardinality(s) - 1
  <1>1. IsFiniteSet(s)
    BY FS_Subset
  <1>2. (CHOOSE x \in s : TRUE) \in s
    OBVIOUS
  <1>3. Cardinality(s \ {CHOOSE x \in s : TRUE}) = Cardinality(s) - 1
    BY <1>1, <1>2, FS_RemoveElement
  <1>4. Cardinality(s) \in Nat /\ IsFiniteSet(s \ {CHOOSE x \in s : TRUE})
    BY <1>1, FS_CardinalityType, FS_Subset
  <1> QED BY <1>2, <1>3, <1>4, FS_CardinalityType

(* There are such sums, for the subsets of any size. *)
LEMMA SumsExist ==
    ASSUME NEW T, T = Nat \/ T = Int, NEW S, IsFiniteSet(S), NEW v, \A i \in S : v[i] \in T,
           NEW n \in Nat
    PROVE  Sums(T, v, S, n) # {}
  <1> DEFINE Bad == {m \in Nat : Sums(T, v, S, m) = {}}
             id == [m \in Nat |-> m]
             c(s) == CHOOSE x \in s : TRUE
  <1>1. SUFFICES ASSUME Bad # {} PROVE FALSE
    OBVIOUS
  <1>2. PICK m \in Bad : \A k \in Bad : id[m] <= id[k]
    <2>1. \A k \in Bad : id[k] \in Nat
      OBVIOUS
    <2> HIDE DEF Bad, id
    <2> QED BY <1>1, <2>1, LeastExists
  <1>3. m \in Nat /\ Sums(T, v, S, m) = {} /\ \A k \in Nat : k < m => Sums(T, v, S, k) # {}
    BY <1>2
  <1>4. \A s \in SUBSET S : Cardinality(s) \in Nat /\ (Cardinality(s) = 0 <=> s = {})
    BY FS_Subset, FS_CardinalityType, FS_EmptySet
  <1>5. CASE m = 0
    <2> DEFINE F == [s \in {r \in SUBSET S : Cardinality(r) <= 0} |-> 0]
    <2>1. \A s \in SUBSET S : Cardinality(s) <= 0 <=> s = {}
      BY <1>4
    <2>2. F \in Sums(T, v, S, 0)
      BY <2>1 DEF Sums
    <2> QED BY <1>3, <1>5, <2>2
  <1>6. CASE m # 0
    <2>1. m - 1 \in Nat /\ m - 1 < m
      BY <1>3, <1>6
    <2>2. PICK F \in Sums(T, v, S, m - 1) : TRUE
      BY <2>1, <1>3
    <2> DEFINE D == {s \in SUBSET S : Cardinality(s) <= m - 1}
               E == {s \in SUBSET S : Cardinality(s) <= m}
               G == [s \in E |-> IF s = {} THEN 0 ELSE v[c(s)] + F[s \ {c(s)}]]
    <2>3. \A s \in E : s # {} => c(s) \in S /\ s \ {c(s)} \in D
      BY <1>3, RestIsLess
    <2>4. F \in [D -> T] /\ \A s \in D : F[s] = IF s = {} THEN 0 ELSE v[c(s)] + F[s \ {c(s)}]
      BY <2>2 DEF Sums
    <2>5. \A s \in E : s # {} => v[c(s)] \in T /\ F[s \ {c(s)}] \in T
      BY <2>3, <2>4
    <2>6. \A i, j \in T : i + j \in T
      OBVIOUS
    <2>7. 0 \in T
      OBVIOUS
    <2>8. G \in [E -> T]
      <3> HIDE DEF E, c
      <3> QED BY <2>5, <2>6, <2>7
    <2>9. D \subseteq E
      BY <1>3, <1>4
    <2>10. \A s \in D : G[s] = F[s]
      BY <2>4, <2>9
    <2>11. \A s \in E : G[s] = IF s = {} THEN 0 ELSE v[c(s)] + G[s \ {c(s)}]
      <3> SUFFICES ASSUME NEW s \in E, s # {} PROVE G[s] = v[c(s)] + G[s \ {c(s)}]
        OBVIOUS
      <3>1. G[s] = v[c(s)] + F[s \ {c(s)}]
        OBVIOUS
      <3>2. G[s \ {c(s)}] = F[s \ {c(s)}]
        BY <2>3, <2>10
      <3> QED BY <3>1, <3>2
    <2>12. G \in Sums(T, v, S, m)
      BY <2>8, <2>11 DEF Sums
    <2> QED BY <2>12, <1>3
  <1> QED BY <1>5, <1>6

\* What MeanOf divides.
SumOf(v, S) == MapThenSumSet(LAMBDA i : v[i], S)

(* The sum of finitely many numbers is one, and of finitely many naturals a natural. *)
LEMMA SumIsANumber ==
    ASSUME NEW T, T = Nat \/ T = Int, NEW S, IsFiniteSet(S), NEW v, \A i \in S : v[i] \in T
    PROVE  SumOf(v, S) \in T
  <1> DEFINE c(s) == CHOOSE x \in s : TRUE
             Rec(F) == [s \in SUBSET S |-> IF s = {} THEN 0 ELSE v[c(s)] + F[s \ {c(s)}]]
             iter == CHOOSE F : F = Rec(F)
             n == Cardinality(S)
  <1>1. SumOf(v, S) = iter[S]
    BY DEF SumOf, MapThenSumSet, MapThenFoldSet
  <1>2. n \in Nat /\ \A s \in SUBSET S : Cardinality(s) \in Nat /\ Cardinality(s) <= n
    BY FS_CardinalityType, FS_Subset
  <1>3. PICK F \in Sums(T, v, S, n) : TRUE
    BY <1>2, SumsExist
  <1>4. {s \in SUBSET S : Cardinality(s) <= n} = SUBSET S
    BY <1>2
  <1>5. F = Rec(F)
    <2>1. /\ F \in [SUBSET S -> T]
          /\ \A s \in SUBSET S : F[s] = IF s = {} THEN 0 ELSE v[c(s)] + F[s \ {c(s)}]
      BY <1>3, <1>4, Zenon DEF Sums
    <2> HIDE DEF c
    <2> QED BY <2>1
  <1>6. iter = Rec(iter)
    <2> HIDE DEF Rec
    <2> QED BY <1>5
  <1>7. \A s \in SUBSET S : iter[s] = IF s = {} THEN 0 ELSE v[c(s)] + iter[s \ {c(s)}]
    <2> HIDE DEF c, iter
    <2> QED BY <1>6
  <1> DEFINE Bad == {s \in SUBSET S : iter[s] \notin T}
             size == [s \in SUBSET S |-> Cardinality(s)]
  <1>8. ASSUME Bad # {} PROVE FALSE
    <2>1. \A s \in Bad : size[s] \in Nat
      BY <1>2
    <2>2. PICK s \in Bad : \A r \in Bad : size[s] <= size[r]
      <3> HIDE DEF Bad, size
      <3> QED BY <1>8, <2>1, LeastExists
    <2>3. s \in SUBSET S /\ iter[s] \notin T
      OBVIOUS
    <2>4. s # {}
      <3>1. 0 \in T
        OBVIOUS
      <3> HIDE DEF iter, c
      <3> QED BY <3>1, <1>7, <2>3
    <2>5. /\ c(s) \in S /\ s \ {c(s)} \in SUBSET S
          /\ size[s] \in Nat /\ size[s \ {c(s)}] = size[s] - 1
      BY <2>3, <2>4, RestIsLess
    <2>6. iter[s \ {c(s)}] \in T
      <3> HIDE DEF iter, size, c
      <3> QED BY <2>2, <2>5
    <2>7. v[c(s)] + iter[s \ {c(s)}] \in T
      <3> HIDE DEF iter, size, c
      <3> QED BY <2>5, <2>6
    <2> HIDE DEF iter, size, c
    <2> QED BY <1>7, <2>3, <2>4, <2>7
  <1>9. iter[S] \in T
    <2> HIDE DEF iter
    <2> QED BY <1>8
  <1> QED BY <1>1, <1>9

(* _mean_optional: a mean of numbers is a number, of none is None. *)
LEMMA MeanIsANumber ==
    ASSUME NEW T, T = Nat \/ T = Int, NEW values, IsFiniteSet(DOMAIN values),
           \A i \in DOMAIN values : values[i] \in T \cup {NoValue}
    PROVE  /\ MeanOf(values) \in T \cup {NoValue}
           /\ MeanOf(values) = NoValue => \A i \in DOMAIN values : values[i] = NoValue
  <1> DEFINE there == {i \in DOMAIN values : values[i] # NoValue}
             sum == SumOf(values, there)
  <1>1. CASE there = {}
    BY <1>1 DEF MeanOf
  <1>2. CASE there # {}
    <2>1. IsFiniteSet(there)
      BY FS_Subset
    <2>2. Cardinality(there) \in Nat /\ Cardinality(there) > 0
      <3> HIDE DEF there
      <3>1. Cardinality(there) \in Nat /\ Cardinality(there) # 0
        BY <1>2, <2>1, FS_CardinalityType, FS_EmptySet
      <3> QED BY <3>1
    <2>3. sum \in T
      <3>1. \A i \in there : values[i] \in T
        OBVIOUS
      <3> HIDE DEF there
      <3> QED BY <2>1, <3>1, SumIsANumber
    <2>4. MeanOf(values) = sum \div Cardinality(there)
      <3>1. MeanOf(values) = IF there = {} THEN NoValue ELSE sum \div Cardinality(there)
        BY DEF MeanOf, SumOf
      <3> QED BY <3>1, <1>2
    <2>5. sum \div Cardinality(there) \in T
      <3> HIDE DEF sum, there
      <3> QED BY <2>2, <2>3
    <2>6. NoValue \notin T
      BY TransformAssumption
    <2> HIDE DEF sum, there
    <2> QED BY <2>4, <2>5, <2>6
  <1> QED BY <1>1, <1>2

\* What the issues of the report look for in the rows of one instant.
SomeMissing(group, c) == \E i \in DOMAIN group : group[i][c] = NoValue

SomeNegative(group, c) == \E i \in DOMAIN group : group[i][c] # NoValue /\ group[i][c] < 0

SomeUnparsed(group) == \E i \in DOMAIN group : ~group[i].parsed

(* What is wrong with the mean of some rows is wrong with one of them. *)
LEMMA MeanIsLikeARow ==
    ASSUME NEW group \in Seq(Measurement), group # <<>>
    PROVE  /\ Mean(group) \in Measurement
           /\ ~Mean(group).parsed => SomeUnparsed(group)
           /\ \A c \in Columns :
                 /\ Mean(group)[c] = NoValue => SomeMissing(group, c)
                 /\ Mean(group)[c] # NoValue /\ Mean(group)[c] < 0 => SomeNegative(group, c)
  <1>1. /\ DOMAIN group = 1..Len(group) /\ 1 \in DOMAIN group /\ IsFiniteSet(DOMAIN group)
        /\ \A i \in DOMAIN group : group[i] \in Measurement
    <2>1. Len(group) \in Nat /\ DOMAIN group = 1..Len(group) /\ Len(group) # 0
      BY EmptySeq
    <2>2. \A i \in DOMAIN group : group[i] \in Measurement
      BY <2>1, ElementOfSeq
    <2>3. IsFiniteSet(1..Len(group))
      BY <2>1, FS_Interval
    <2> QED BY <2>1, <2>2, <2>3
  <1>2. ASSUME NEW c \in Columns
        PROVE  LET mean == MeanOf([i \in DOMAIN group |-> group[i][c]])
               IN  /\ mean \in Quantity
                   /\ mean = NoValue => SomeMissing(group, c)
                   /\ mean # NoValue /\ mean < 0 => SomeNegative(group, c)
    <2> DEFINE values == [i \in DOMAIN group |-> group[i][c]]
               mean == MeanOf(values)
    <2>1. /\ IsFiniteSet(DOMAIN values)
          /\ \A i \in DOMAIN values : values[i] \in Int \cup {NoValue}
      BY <1>1 DEF Columns, Measurement, Quantity
    <2>2. /\ mean \in Int \cup {NoValue}
          /\ mean = NoValue => \A i \in DOMAIN values : values[i] = NoValue
      <3> HIDE DEF values
      <3> QED BY <2>1, MeanIsANumber
    <2>3. mean = NoValue => SomeMissing(group, c)
      BY <1>1, <2>2 DEF SomeMissing
    <2>4. ASSUME ~SomeNegative(group, c) PROVE mean \in Nat \cup {NoValue}
      <3>1. \A i \in DOMAIN values : values[i] \in Nat \cup {NoValue}
        BY <2>1, <2>4 DEF SomeNegative
      <3> HIDE DEF values
      <3> QED BY <2>1, <3>1, MeanIsANumber
    <2>5. mean # NoValue /\ mean < 0 => SomeNegative(group, c)
      BY <2>4
    <2> QED BY <2>2, <2>3, <2>5 DEF Quantity
  <1>3. /\ Mean(group) = [value |-> MeanOf([i \in DOMAIN group |-> group[i].value]),
                          other |-> MeanOf([i \in DOMAIN group |-> group[i].other]),
                          parsed |-> group[1].parsed]
        /\ group[1].parsed \in BOOLEAN
    BY <1>1 DEF Mean, Measurement
  <1>4. Mean(group) \in Measurement
    BY <1>2, <1>3 DEF Columns, Measurement
  <1>5. \A c \in Columns : Mean(group)[c] = MeanOf([i \in DOMAIN group |-> group[i][c]])
    <2>1. Mean(group)["value"] = MeanOf([i \in DOMAIN group |-> group[i]["value"]])
      BY <1>3
    <2>2. Mean(group)["other"] = MeanOf([i \in DOMAIN group |-> group[i]["other"]])
      BY <1>3
    <2> QED BY <2>1, <2>2 DEF Columns
  <1>6. ASSUME NEW c \in Columns
        PROVE  /\ Mean(group)[c] = NoValue => SomeMissing(group, c)
               /\ Mean(group)[c] # NoValue /\ Mean(group)[c] < 0 => SomeNegative(group, c)
    BY <1>2, <1>5, Zenon
  <1>7. ~Mean(group).parsed => SomeUnparsed(group)
    BY <1>1, <1>3 DEF SomeUnparsed
  <1> QED BY <1>4, <1>6, <1>7

(* _resolve_duplicates: what is wrong with the row that an instant is left with is wrong   *)
(* with one that the file has for it.                                                      *)
LEMMA ResolvedIsLikeARow ==
    ASSUME NEW group \in Seq(Measurement), group # <<>>
    PROVE  /\ Resolved(group) \in Measurement
           /\ ~Resolved(group).parsed => SomeUnparsed(group)
           /\ \A c \in Columns :
                 /\ Resolved(group)[c] = NoValue => SomeMissing(group, c)
                 /\ Resolved(group)[c] # NoValue /\ Resolved(group)[c] < 0
                       => SomeNegative(group, c)
  <1>1. CASE Resolved(group) = Mean(group)
    BY <1>1, MeanIsLikeARow
  <1>2. CASE \E i \in DOMAIN group : Resolved(group) = group[i]
    <2>1. PICK i \in DOMAIN group : Resolved(group) = group[i]
      BY <1>2
    <2>2. group[i] \in Measurement
      BY ElementOfSeq
    <2> QED BY <2>1, <2>2 DEF SomeUnparsed, SomeMissing, SomeNegative
  <1>3. 1 \in DOMAIN group /\ Len(group) \in DOMAIN group
    BY EmptySeq
  <1> QED BY <1>1, <1>2, <1>3 DEF Resolved

-----------------------------------------------------------------------------
(* The invariant: the rows that _parse_row makes *)

\* Every row of the file is one.
Parsed(f) == \A s \in DOMAIN f : f[s] \in Seq(Measurement)

\* The inductive invariant of a version and the file it was made of.
VersionInv == GrowthInv /\ Parsed(file)

LEMMA RowsAreParsed ==
    ASSUME NEW target \in Quantity \cup {Unreadable}, NEW other \in Quantity \cup {Unreadable}
    PROVE  ParseRow(target, other) \in Measurement
  <1>1. NoValue \in Quantity /\ Unreadable \notin Quantity
    BY TrainingAssumption DEF Quantity
  <1> QED BY <1>1 DEF ParseRow, ParseNumber, Measurement

(* No version has rows yet. *)
LEMMA InitVersion == Init => VersionInv
  <1> SUFFICES ASSUME Init PROVE Parsed(file)
    BY InitGrowth DEF VersionInv
  <1>1. \A s \in DOMAIN file : file[s] = <<>>
    BY DEF Init
  <1>2. <<>> \in Seq(Measurement)
    BY EmptySeq
  <1> QED BY <1>1, <1>2 DEF Parsed

(* Whatever the meter measures, the rows that a step adds are parsed. *)
LEMMA StepVersion == VersionInv /\ [Next]_vars => VersionInv'
  <1> SUFFICES ASSUME VersionInv, [Next]_vars PROVE Parsed(file)'
    BY StepGrowth DEF VersionInv
  <1>1. ASSUME NEW group \in Seq(Measurement), Transformed(group) PROVE Parsed(file)'
    BY <1>1 DEF Transformed, VersionInv, Parsed
  <1>2. ASSUME next < MaxSamples
        PROVE  /\ Reading[next] \in Quantity
               /\ <<ParseRow(Reading[next], 0)>> \in Seq(Measurement)
               /\ Defective(next) \subseteq Seq(Measurement)
    <2>1. next \in 0..MaxSamples
      BY <1>2, TrainingAssumption DEF VersionInv, GrowthInv
    <2>2. Reading[next] \in Int
      BY <2>1, TrainingAssumption
    <2>3. {NoValue, 0, -2, Reading[next], Reading[next] + 2} \subseteq Quantity
      BY <2>2 DEF Quantity
    <2> DEFINE P == {ParseRow(target, other) : target \in Quantity \cup {Unreadable},
                                               other \in Quantity \cup {Unreadable}}
    <2>4. P \subseteq Measurement
      BY RowsAreParsed
    <2>5. \A r, q \in Measurement : <<r>> \in Seq(Measurement) /\ <<r, q>> \in Seq(Measurement)
      OBVIOUS
    <2>6. <<ParseRow(Reading[next], 0)>> \in Seq(Measurement)
      BY <2>3, <2>4, <2>5
    <2>7. ASSUME NEW group \in Defective(next) PROVE group \in Seq(Measurement)
      <3>1. /\ {ParseRow(NoValue, 0), ParseRow(Unreadable, 0), ParseRow(Reading[next], Unreadable),
                 ParseRow(-2, 0), ParseRow(Reading[next], -2), ParseRow(Reading[next], 0),
                 ParseRow(Reading[next] + 2, 0)} \subseteq P
        BY <2>3
      <3> HIDE DEF P
      <3> QED BY <3>1, <2>4, <2>5 DEF Defective
    <2> QED BY <2>3, <2>6, <2>7
  <1>3. CASE Measure
    BY <1>1, <1>2, <1>3 DEF Measure
  <1>4. CASE MeasureBadly
    BY <1>1, <1>2, <1>4 DEF MeasureBadly
  <1>5. CASE Skip
    BY <1>5 DEF Skip, VersionInv, Parsed
  <1>6. CASE UNCHANGED vars
    BY <1>6 DEF vars, VersionInv, Parsed
  <1> QED BY <1>3, <1>4, <1>5, <1>6 DEF Next

-----------------------------------------------------------------------------
(* What is filled *)

(* _target_value: a number, and not a negative one. *)
LEMMA TargetsAreNumbers ==
    ASSUME NEW f, Parsed(f), NEW s \in DOMAIN f
    PROVE  /\ TargetValue(f, s) \in Nat \cup {NoValue}
           /\ TargetValue(f, s) = NoValue =>
                 \/ f[s] = <<>>
                 \/ SomeUnparsed(f[s]) \/ SomeMissing(f[s], "value") \/ SomeNegative(f[s], "value")
  <1>1. CASE f[s] = <<>>
    BY <1>1 DEF TargetValue
  <1>2. CASE f[s] # <<>>
    <2> DEFINE r == Resolved(f[s])
    <2>1. f[s] \in Seq(Measurement) /\ "value" \in Columns
      BY DEF Parsed, Columns
    <2>2. /\ r \in Measurement
          /\ ~r.parsed => SomeUnparsed(f[s])
          /\ r.value = NoValue => SomeMissing(f[s], "value")
          /\ r.value # NoValue /\ r.value < 0 => SomeNegative(f[s], "value")
      <3> HIDE DEF r
      <3>1. /\ ~r.parsed => SomeUnparsed(f[s])
            /\ r["value"] = NoValue => SomeMissing(f[s], "value")
            /\ r["value"] # NoValue /\ r["value"] < 0 => SomeNegative(f[s], "value")
        BY <2>1, <1>2, ResolvedIsLikeARow DEF r
      <3>2. r \in Measurement
        BY <2>1, <1>2, ResolvedIsLikeARow DEF r
      <3> QED BY <3>1, <3>2
    <2>3. TargetValue(f, s)
             = IF r.parsed /\ r.value # NoValue /\ r.value >= 0 THEN r.value ELSE NoValue
      BY <1>2 DEF TargetValue
    <2> HIDE DEF r
    <2>4. r.value \in Int \cup {NoValue} /\ NoValue \notin Int
      BY <2>2, TransformAssumption DEF Measurement, Quantity
    <2> QED BY <2>2, <2>3, <2>4
  <1> QED BY <1>1, <1>2

(* Of numbers in a range, one is the least and one the greatest. *)
LEMMA RangesHaveEnds ==
    ASSUME NEW S, S # {}, NEW a \in Int, NEW b \in Int, S \subseteq a..b
    PROVE  /\ \E x \in S : \A y \in S : x <= y
           /\ \E x \in S : \A y \in S : y <= x
  <1>1. \E x \in S : \A y \in S : x <= y
    <2> DEFINE f == [x \in S |-> x - a]
    <2>1. \A x \in S : f[x] \in Nat /\ x \in Int /\ f[x] = x - a
      OBVIOUS
    <2>2. PICK x \in S : \A y \in S : f[x] <= f[y]
      <3> HIDE DEF f
      <3> QED BY <2>1, LeastExists
    <2> HIDE DEF f
    <2>3. \A y \in S : x <= y
      BY <2>1, <2>2
    <2> QED BY <2>3
  <1>2. \E x \in S : \A y \in S : y <= x
    <2> DEFINE f == [x \in S |-> b - x]
    <2>1. \A x \in S : f[x] \in Nat /\ x \in Int /\ f[x] = b - x
      OBVIOUS
    <2>2. PICK x \in S : \A y \in S : f[x] <= f[y]
      <3> HIDE DEF f
      <3> QED BY <2>1, LeastExists
    <2> HIDE DEF f
    <2>3. \A y \in S : y <= x
      BY <2>1, <2>2
    <2> QED BY <2>3
  <1> QED BY <1>1, <1>2

(* _interpolate_short_gaps fills a sample exactly if measurements within the limit lie on  *)
(* both sides of it: the run it lies in begins after the last of those before and ends     *)
(* before the first of those after.                                                        *)
LEMMA FilledIsBacked ==
    ASSUME WholeHours(file), Parsed(file), NEW s \in DOMAIN file
    PROVE  Filled(file, ShortGaps(file), s) # NoValue <=> Backed(s)
  <1> DEFINE gaps == ShortGaps(file)
  <1>1. /\ GapLimit \in Nat /\ MaxSamples \in Nat /\ NoValue \notin Int
        /\ DOMAIN file = 0..(MaxSamples - 1) /\ s \in Int
    BY TransformAssumption, TrainingAssumption DEF WholeHours
  <1>2. \A x : Sound(x) <=> Measured(file, x)
    BY DEF Sound, Measured
  <1>3. ASSUME NEW gap \in GapsAt(gaps, s)
        PROVE  /\ ~Sound(s) /\ Backed(s)
               /\ Interpolated(file, gap, s) \in Int
    <2>1. PICK a \in DOMAIN file, m \in 0..(GapLimit - 1) :
             /\ gap = <<a, a + m>>
             /\ \A x \in a..(a + m) : x \in DOMAIN file /\ TargetValue(file, x) = NoValue
             /\ Measured(file, a - 1) /\ Measured(file, a + m + 1)
      BY ShortGapIs DEF GapsAt
    <2>2. a \in Int /\ m \in Int /\ a <= s /\ s <= a + m /\ 0 <= m /\ m < GapLimit
      BY <2>1, <1>1 DEF GapsAt
    <2>3. ~Sound(s)
      BY <1>1, <2>1, <2>2 DEF Sound
    <2>4. /\ Sound(a - 1) /\ Sound(a + m + 1)
          /\ a - 1 \in (s - GapLimit)..(s - 1)
          /\ a + m + 1 \in (s + 1)..(a - 1 + GapLimit + 1)
      BY <1>1, <1>2, <2>1, <2>2
    <2>5. Backed(s)
      BY <2>4 DEF Backed
    <2>6. /\ gap[1] = a /\ gap[2] = a + m
          /\ TargetValue(file, gap[1] - 1) \in Int /\ TargetValue(file, gap[2] + 1) \in Int
      <3>1. gap[1] = a /\ gap[2] = a + m
        BY <2>1
      <3>2. TargetValue(file, a - 1) \in Nat /\ TargetValue(file, a + m + 1) \in Nat
        BY <2>1, TargetsAreNumbers DEF Measured
      <3> QED BY <3>1, <3>2
    <2>7. Interpolated(file, gap, s) \in Int
      <3> DEFINE x == TargetValue(file, gap[1] - 1)
                 y == TargetValue(file, gap[2] + 1)
                 n == gap[2] - gap[1] + 2
                 p == (y - x) * (s - gap[1] + 1)
      <3>1. x \in Int /\ n \in Int /\ n > 0 /\ p \in Int
        BY <2>2, <2>6, <1>1
      <3>2. Interpolated(file, gap, s) = x + p \div n
        BY DEF Interpolated
      <3> HIDE DEF x, n, p
      <3> QED BY <3>1, <3>2
    <2> QED BY <2>3, <2>5, <2>7
  <1>4. CASE GapsAt(gaps, s) # {}
    <2>1. (CHOOSE gap \in GapsAt(gaps, s) : TRUE) \in GapsAt(gaps, s)
      BY <1>4
    <2>2. Filled(file, gaps, s) = Interpolated(file, CHOOSE gap \in GapsAt(gaps, s) : TRUE, s)
      BY <1>4 DEF Filled
    <2> QED BY <1>1, <1>3, <2>1, <2>2
  <1>5. CASE GapsAt(gaps, s) = {}
    <2>1. Filled(file, gaps, s) # NoValue <=> Sound(s)
      BY <1>5 DEF Filled, Sound
    <2>2. ASSUME ~Sound(s), NEW a \in Int, NEW b \in Int, Sound(a), Sound(b),
                 s - GapLimit <= a, a < s, s < b, b <= a + GapLimit + 1
          PROVE  FALSE
      <3> DEFINE Before == {x \in a..(s - 1) : Sound(x)}
                 After == {x \in (s + 1)..b : Sound(x)}
      <3>1. PICK p \in Before : \A x \in Before : x <= p
        <4>1. Before # {} /\ Before \subseteq a..(s - 1) /\ s - 1 \in Int
          BY <2>2, <1>1
        <4> HIDE DEF Before
        <4> QED BY <4>1, RangesHaveEnds
      <3>2. PICK q \in After : \A x \in After : q <= x
        <4>1. After # {} /\ After \subseteq (s + 1)..b /\ s + 1 \in Int
          BY <2>2, <1>1
        <4> HIDE DEF After
        <4> QED BY <4>1, RangesHaveEnds
      <3>3. /\ p \in Int /\ a <= p /\ p < s /\ Sound(p)
            /\ q \in Int /\ s < q /\ q <= b /\ Sound(q)
        BY <1>1
      <3>4. \A x \in (p + 1)..(q - 1) : x \in DOMAIN file /\ TargetValue(file, x) = NoValue
        <4> SUFFICES ASSUME NEW x \in (p + 1)..(q - 1)
                     PROVE  x \in DOMAIN file /\ ~Sound(x)
          BY DEF Sound
        <4>1. x \in Int /\ p < x /\ x < q
          BY <3>3
        <4>2. x \in DOMAIN file
          BY <4>1, <3>3, <1>1 DEF Sound
        <4>3. ASSUME Sound(x), x < s PROVE FALSE
          <5>1. x \in Before
            BY <4>1, <4>3, <3>3, <1>1
          <5> QED BY <5>1, <3>1, <3>3, <4>1
        <4>4. ASSUME Sound(x), s < x PROVE FALSE
          <5>1. x \in After
            BY <4>1, <4>4, <3>3, <1>1
          <5> QED BY <5>1, <3>2, <3>3, <4>1
        <4> QED BY <4>1, <4>2, <4>3, <4>4, <2>2, <1>1
      <3> DEFINE m == q - p - 2
      <3>5. m \in 0..(GapLimit - 1) /\ p + 1 \in DOMAIN file /\ p + 1 + m = q - 1
        BY <1>1, <2>2, <3>3, <3>4
      <3>6. Measured(file, p + 1 - 1) /\ Measured(file, p + 1 + m + 1)
        BY <1>2, <3>3
      <3>7. <<p + 1, p + 1 + m>> \in gaps
        BY <3>4, <3>5, <3>6, ShortGapIs
      <3>8. s \in (p + 1)..(p + 1 + m)
        BY <3>3, <3>5, <1>1
      <3> QED BY <3>7, <3>8, <1>5 DEF GapsAt
    <2>3. Backed(s) => Sound(s)
      BY <2>2, <1>1 DEF Backed
    <2> QED BY <2>1, <2>3 DEF Backed
  <1> QED BY <1>4, <1>5

(* Which hours _aggregate_hour calls ready. *)
LEMMA StatusIsReady ==
    ASSUME NEW conflict \in BOOLEAN, NEW invalid \in BOOLEAN, NEW filled \in BOOLEAN,
           NEW observed \in 0..PerHour
    PROVE  Status(conflict, invalid, observed, filled) \in TrainingReady
           <=> /\ ~conflict /\ ~invalid
               /\ observed >= MinObserved
               /\ observed = PerHour \/ filled
  <1>1. MinObserved \in Nat /\ PerHour \in Nat /\ MinObserved <= PerHour
    BY TransformAssumption
  <1>2. CASE conflict \/ invalid
    BY <1>2 DEF Status, TrainingReady
  <1>3. CASE ~conflict /\ ~invalid
    <2>1. CASE observed = PerHour
      BY <1>1, <1>3, <2>1 DEF Status, TrainingReady
    <2>2. CASE observed \in MinObserved..(PerHour - 1)
      BY <1>1, <1>3, <2>2 DEF Status, TrainingReady
    <2>3. CASE observed < MinObserved
      BY <1>1, <1>3, <2>3 DEF Status, TrainingReady
    <2> QED BY <1>1, <2>1, <2>2, <2>3
  <1> QED BY <1>2, <1>3

(* An hour that is ready is backed, and the other way round. *)
LEMMA VersionsAreBacked == VersionInv => ReadyHoursAreBacked
  <1> SUFFICES ASSUME VersionInv, NEW h \in DOMAIN hourly
               PROVE  hourly[h].status \in TrainingReady
                      <=> /\ \A s \in SamplesOf(h) : Backed(s)
                          /\ Cardinality({s \in SamplesOf(h) : Sound(s)}) >= MinObserved
                          /\ \A s \in SamplesOf(h) :
                                ~Conflict(file, s) /\ ~HasInvalidNumeric(file, s)
    BY DEF ReadyHoursAreBacked
  <1> DEFINE gaps == ShortGaps(file)
             conflict == \E s \in SamplesOf(h) : Conflict(file, s)
             invalid == \E s \in SamplesOf(h) : HasInvalidNumeric(file, s)
             sound == {s \in SamplesOf(h) : Sound(s)}
             present == {s \in SamplesOf(h) : Filled(file, gaps, s) # NoValue}
  <1>1. h \in Hours(file) /\ hourly[h] = Hour(file, gaps, h)
    BY DEF VersionInv, GrowthInv, Transform
  <1>2. h \in Int /\ SamplesOf(h) \subseteq DOMAIN file
    BY <1>1, HoursAreWhole DEF VersionInv, GrowthInv
  <1>3. \A s \in SamplesOf(h) :
           /\ Sound(s) <=> TargetValue(file, s) # NoValue
           /\ Filled(file, gaps, s) # NoValue <=> Backed(s)
    BY <1>2, FilledIsBacked DEF VersionInv, GrowthInv, Sound
  <1>4. sound = {s \in SamplesOf(h) : TargetValue(file, s) # NoValue}
    BY <1>3
  <1>5. hourly[h].status = Status(conflict, invalid, Cardinality(sound), present = SamplesOf(h))
    <2>1. hourly[h].status
             = Status(conflict, invalid,
                      Cardinality({s \in SamplesOf(h) : TargetValue(file, s) # NoValue}),
                      present = SamplesOf(h))
      BY <1>1 DEF Hour
    <2> QED BY <2>1, <1>4
  <1>6. /\ Cardinality(sound) \in 0..PerHour
        /\ Cardinality(sound) = PerHour => sound = SamplesOf(h)
    <2>1. PerHour \in Nat /\ PerHour > 0 /\ h * PerHour \in Int
      BY <1>2, TransformAssumption
    <2>2. IsFiniteSet(SamplesOf(h)) /\ Cardinality(SamplesOf(h)) = PerHour
      BY <2>1, FS_Interval DEF SamplesOf
    <2>3. sound \in SUBSET SamplesOf(h)
      OBVIOUS
    <2> HIDE DEF sound
    <2>4. Cardinality(sound) \in Nat /\ Cardinality(sound) <= PerHour
      BY <2>2, <2>3, FS_Subset, FS_CardinalityType
    <2> QED BY <2>1, <2>2, <2>3, <2>4, FS_Subset
  <1>7. hourly[h].status \in TrainingReady
        <=> /\ ~conflict /\ ~invalid
            /\ Cardinality(sound) >= MinObserved
            /\ Cardinality(sound) = PerHour \/ present = SamplesOf(h)
    <2> DEFINE filled == present = SamplesOf(h)
               observed == Cardinality(sound)
    <2>1. conflict \in BOOLEAN /\ invalid \in BOOLEAN /\ filled \in BOOLEAN
      OBVIOUS
    <2>2. hourly[h].status = Status(conflict, invalid, observed, filled)
      BY <1>5
    <2>3. observed \in 0..PerHour
      BY <1>6
    <2>4. hourly[h].status \in TrainingReady
          <=> /\ ~conflict /\ ~invalid
              /\ observed >= MinObserved
              /\ observed = PerHour \/ filled
      <3> HIDE DEF conflict, invalid, observed, filled
      <3> QED BY <2>1, <2>2, <2>3, StatusIsReady
    <2> QED BY <2>4
  <1>8. present = SamplesOf(h) <=> \A s \in SamplesOf(h) : Backed(s)
    BY <1>3
  <1>9. Cardinality(sound) = PerHour => \A s \in SamplesOf(h) : Backed(s)
    BY <1>6 DEF Backed
  <1>10. /\ ~conflict <=> \A s \in SamplesOf(h) : ~Conflict(file, s)
         /\ ~invalid <=> \A s \in SamplesOf(h) : ~HasInvalidNumeric(file, s)
    OBVIOUS
  <1> HIDE DEF conflict, invalid, present
  <1> QED BY <1>7, <1>8, <1>9, <1>10

(* For every sampling interval, gap limit, coverage and duplicate policy, and however the  *)
(* file ends: an hour that TransformationEngine calls ready has nothing in doubt, and each  *)
(* of its samples was measured or stands between measurements that are near enough; and    *)
(* every such hour is called ready.                                                        *)
THEOREM ReadyIsBacked == TrainingSpec => []ReadyHoursAreBacked
  <1> QED BY InitVersion, StepVersion, VersionsAreBacked, PTL DEF TrainingSpec

-----------------------------------------------------------------------------
(* What the report says *)

\* What evaluate looks for, by severity.
Errors(f) ==
    {ConflictingDuplicates(Rows(f)), ParseErrors(Rows(f))}
       \cup {InvalidValues(Rows(f), c) : c \in Columns}

Warnings(f) ==
    {ExactDuplicates(Rows(f)), GapEnds(Deltas(Rows(f)), ExpectedInterval(Deltas(Rows(f))))}
       \cup {MissingValues(Rows(f), c) : c \in Columns}

(* Samples are in the hour they are a sample of, and hours in the order of their samples. *)
LEMMA HoursAreInOrder ==
    /\ \A s, t \in Int : s <= t => HourOf(s) <= HourOf(t)
    /\ \A s \in Int : HourOf(s) \in Int
    /\ \A h \in Int : \A s \in SamplesOf(h) : s \in Int /\ HourOf(s) = h
  <1>1. PerHour \in Nat /\ PerHour > 0
    BY TransformAssumption
  <1>2. ASSUME NEW h \in Int, NEW s \in SamplesOf(h) PROVE s \in Int /\ HourOf(s) = h
    <2>1. h * PerHour \in Int /\ s \in Int /\ h * PerHour <= s /\ s < h * PerHour + PerHour
      BY <1>1 DEF SamplesOf
    <2> QED BY <1>1, <2>1 DEF HourOf
  <1> QED BY <1>1, <1>2 DEF HourOf

(* The first and the last of some samples of a file. *)
LEMMA SamplesHaveEnds ==
    ASSUME NEW S, S # {}, S \subseteq 0..(MaxSamples - 1)
    PROVE  /\ Min(S) \in S /\ \A x \in S : Min(S) \in Int /\ x \in Int /\ Min(S) <= x
           /\ Max(S) \in S /\ \A x \in S : Max(S) \in Int /\ x \in Int /\ x <= Max(S)
  <1>1. MaxSamples - 1 \in Int
    BY TrainingAssumption
  <1> DEFINE first == 0
             last == MaxSamples - 1
  <1>2. first \in Int /\ last \in Int /\ S \subseteq first..last
    BY <1>1
  <1> HIDE DEF first, last
  <1>3. (\E x \in S : \A y \in S : x <= y) /\ (\E x \in S : \A y \in S : y <= x)
    BY <1>2, RangesHaveEnds
  <1>4. Min(S) \in S /\ \A x \in S : Min(S) <= x
    BY <1>3 DEF Min
  <1>5. \E x \in S : \A y \in S : x >= y
    BY <1>2, <1>3
  <1>6. Max(S) \in S /\ \A x \in S : Max(S) >= x
    BY <1>5 DEF Max
  <1>7. \A x \in S : x \in Int
    BY <1>2
  <1> QED BY <1>4, <1>6, <1>7

(* _single_issue: the range of an issue goes from the first of its occurrences to the last. *)
LEMMA OccurrencesAreReported ==
    ASSUME NEW f, DOMAIN f = 0..(MaxSamples - 1), NEW severity, NEW found,
           \/ severity = "error" /\ found = Errors(f)
           \/ severity = "warning" /\ found = Warnings(f),
           NEW times \in found, times \subseteq DOMAIN f,
           NEW x \in times, NEW y \in times,
           NEW h \in Int, HourOf(x) <= h, h <= HourOf(y)
    PROVE  Reported(Evaluate(f), severity, h)
  <1> DEFINE i == [severity |-> severity, start |-> Min(times), end |-> Max(times)]
  <1>1. MaxSamples \in Nat /\ times \subseteq 0..(MaxSamples - 1) /\ times # {}
    BY TrainingAssumption
  <1>2. i \in Evaluate(f).issues
    <2>1. i \in Issues(severity, found)
      BY <1>1 DEF Issues
    <2>2. Evaluate(f).issues = Issues("error", Errors(f)) \cup Issues("warning", Warnings(f))
      BY DEF Evaluate, Errors, Warnings
    <2> QED BY <2>1, <2>2
  <1>3. /\ Min(times) \in Int /\ x \in Int /\ Min(times) <= x
        /\ Max(times) \in Int /\ y \in Int /\ y <= Max(times)
    BY <1>1, SamplesHaveEnds
  <1>4. HourOf(Min(times)) <= HourOf(x) /\ HourOf(y) <= HourOf(Max(times))
    BY <1>3, HoursAreInOrder
  <1>5. HourOf(Min(times)) <= h /\ h <= HourOf(Max(times))
    <2>1. /\ HourOf(Min(times)) \in Int /\ HourOf(x) \in Int
          /\ HourOf(Max(times)) \in Int /\ HourOf(y) \in Int
      BY <1>3, HoursAreInOrder
    <2> QED BY <1>4, <2>1
  <1>6. i.severity = severity /\ i.start = Min(times) /\ i.end = Max(times)
    OBVIOUS
  <1> HIDE DEF i
  <1> QED BY <1>2, <1>5, <1>6 DEF Reported

(* What the report looks at: the rows of the instants that have any. *)
LEMMA RowsAre ==
    ASSUME NEW f
    PROVE  /\ DOMAIN Rows(f) = {s \in DOMAIN f : f[s] # <<>>}
           /\ \A s \in DOMAIN Rows(f) : Rows(f)[s] = f[s]
  BY DEF Rows, Restrict

(* A sample in doubt is an occurrence of an error. *)
LEMMA DoubtIsAnError ==
    ASSUME NEW f, Parsed(f), NEW s \in DOMAIN f, Conflict(f, s) \/ HasInvalidNumeric(f, s)
    PROVE  \E times \in Errors(f) : times \subseteq DOMAIN f /\ s \in times
  <1> DEFINE group == f[s]
  <1>1. group \in Seq(Measurement)
    BY DEF Parsed
  <1>2. group # <<>>
    <2>1. CASE Conflict(f, s)
      BY <2>1 DEF Conflict, Disagree
    <2>2. CASE HasInvalidNumeric(f, s)
      BY <2>2 DEF HasInvalidNumeric
    <2> QED BY <2>1, <2>2
  <1>3. /\ s \in DOMAIN Rows(f) /\ Rows(f)[s] = group /\ DOMAIN Rows(f) \subseteq DOMAIN f
    BY <1>2, RowsAre
  <1>4. CASE Conflict(f, s)
    <2>1. PICK i \in DOMAIN group, j \in DOMAIN group : group[i] # group[j]
      BY <1>4 DEF Conflict, Disagree
    <2>2. IsFiniteSet(Distinct(group))
      <3>1. Len(group) \in Nat /\ DOMAIN group = 1..Len(group)
        BY <1>1
      <3>2. IsFiniteSet(DOMAIN group)
        BY <3>1, FS_Interval
      <3>3. group \in Surjection(DOMAIN group, Distinct(group))
        BY <1>1 DEF Distinct, Surjection
      <3> HIDE DEF group
      <3> QED BY <3>2, <3>3, FS_Surjection
    <2>3. {group[i], group[j]} \in SUBSET Distinct(group)
      BY DEF Distinct
    <2>4. Cardinality({group[i], group[j]}) = 2
      <3>1. IsFiniteSet({group[i]}) /\ Cardinality({group[i]}) = 1 /\ group[j] \notin {group[i]}
        BY <2>1, FS_Singleton
      <3>2. Cardinality({group[i]} \cup {group[j]}) = 2
        BY <3>1, FS_AddElement
      <3>3. {group[i]} \cup {group[j]} = {group[i], group[j]}
        OBVIOUS
      <3> QED BY <3>2, <3>3
    <2>5. Cardinality(Distinct(group)) \in Nat /\ 2 <= Cardinality(Distinct(group))
      <3> HIDE DEF group
      <3> QED BY <2>2, <2>3, <2>4, FS_Subset, FS_CardinalityType
    <2>6. s \in ConflictingDuplicates(Rows(f))
      BY <1>3, <2>5 DEF ConflictingDuplicates
    <2>7. ConflictingDuplicates(Rows(f)) \subseteq DOMAIN f
      BY <1>3 DEF ConflictingDuplicates
    <2> QED BY <2>6, <2>7 DEF Errors
  <1>5. CASE HasInvalidNumeric(f, s)
    <2> DEFINE r == Resolved(group)
    <2>1. ~r.parsed \/ \E c \in Columns : r[c] # NoValue /\ r[c] < 0
      <3>1. ~r.parsed \/ \E q \in {r.value, r.other} : q # NoValue /\ q < 0
        BY <1>5 DEF HasInvalidNumeric
      <3> HIDE DEF r
      <3>2. {r.value, r.other} = {r[c] : c \in Columns}
        BY DEF Columns
      <3> QED BY <3>1, <3>2
    <2>2. SomeUnparsed(group) \/ \E c \in Columns : SomeNegative(group, c)
      BY <1>1, <1>2, <2>1, ResolvedIsLikeARow
    <2>3. CASE SomeUnparsed(group)
      <3>1. s \in ParseErrors(Rows(f)) /\ ParseErrors(Rows(f)) \subseteq DOMAIN f
        BY <1>3, <2>3 DEF ParseErrors, SomeUnparsed
      <3> QED BY <3>1 DEF Errors
    <2>4. ASSUME NEW c \in Columns, SomeNegative(group, c)
          PROVE  \E times \in Errors(f) : times \subseteq DOMAIN f /\ s \in times
      <3>1. s \in InvalidValues(Rows(f), c) /\ InvalidValues(Rows(f), c) \subseteq DOMAIN f
        BY <1>3, <2>4 DEF InvalidValues, SomeNegative
      <3> QED BY <3>1 DEF Errors
    <2> QED BY <2>2, <2>3, <2>4
  <1> QED BY <1>4, <1>5

(* An instant that has rows and no value is an occurrence of an error or a warning. *)
LEMMA NoValueIsReported ==
    ASSUME NEW f, Parsed(f), NEW s \in DOMAIN f, f[s] # <<>>, TargetValue(f, s) = NoValue
    PROVE  \E times \in Errors(f) \cup Warnings(f) : times \subseteq DOMAIN f /\ s \in times
  <1> DEFINE group == f[s]
  <1>1. /\ s \in DOMAIN Rows(f) /\ Rows(f)[s] = group /\ DOMAIN Rows(f) \subseteq DOMAIN f
    BY RowsAre
  <1>2. "value" \in Columns
    BY DEF Columns
  <1>3. CASE SomeUnparsed(group)
    <2>1. s \in ParseErrors(Rows(f)) /\ ParseErrors(Rows(f)) \subseteq DOMAIN f
      BY <1>1, <1>3 DEF ParseErrors, SomeUnparsed
    <2> QED BY <2>1 DEF Errors
  <1>4. CASE SomeNegative(group, "value")
    <2>1. /\ s \in InvalidValues(Rows(f), "value")
          /\ InvalidValues(Rows(f), "value") \subseteq DOMAIN f
      BY <1>1, <1>4 DEF InvalidValues, SomeNegative
    <2> QED BY <1>2, <2>1 DEF Errors
  <1>5. CASE SomeMissing(group, "value")
    <2>1. /\ s \in MissingValues(Rows(f), "value")
          /\ MissingValues(Rows(f), "value") \subseteq DOMAIN f
      BY <1>1, <1>5 DEF MissingValues, SomeMissing
    <2> QED BY <1>2, <2>1 DEF Warnings
  <1> QED BY <1>3, <1>4, <1>5, TargetsAreNumbers

(* An instant without rows lies in a gap, if the interval of the samples is known: the     *)
(* instants around it are further apart than one and a half of it.                         *)
LEMMA GapIsReported ==
    ASSUME NEW f, DOMAIN f = 0..(MaxSamples - 1), ExpectedInterval(Deltas(Rows(f))) = 1,
           NEW s \in DOMAIN f, f[s] = <<>>,
           NEW a \in DOMAIN f, f[a] # <<>>, a < s,
           NEW b \in DOMAIN f, f[b] # <<>>, s < b
    PROVE  \E times \in Warnings(f) :
              /\ times \subseteq DOMAIN f
              /\ \E x, y \in times : x < s /\ s < y
  <1> DEFINE rows == Rows(f)
             deltas == Deltas(rows)
             ends == GapEnds(deltas, 1)
  <1>1. /\ MaxSamples \in Nat /\ MaxSamples - 1 \in Int
        /\ DOMAIN rows \subseteq 0..(MaxSamples - 1) /\ DOMAIN rows \subseteq DOMAIN f
        /\ a \in DOMAIN rows /\ b \in DOMAIN rows /\ s \in Int /\ s \notin DOMAIN rows
    <2>1. MaxSamples \in Nat /\ MaxSamples - 1 \in Int /\ s \in Int
      BY TrainingAssumption
    <2>2. DOMAIN rows = {x \in DOMAIN f : f[x] # <<>>}
      BY RowsAre
    <2> HIDE DEF rows
    <2> QED BY <2>1, <2>2
  <1> HIDE DEF rows
  <1>2. ASSUME NEW p \in DOMAIN rows, Later(rows, p) # {}
        PROVE  /\ Min(Later(rows, p)) \in Later(rows, p)
               /\ \A y \in Later(rows, p) : Min(Later(rows, p)) <= y
    <2>1. Later(rows, p) \subseteq 0..(MaxSamples - 1)
      BY <1>1 DEF Later
    <2> QED BY <1>2, <2>1, SamplesHaveEnds
  <1>3. ASSUME NEW p \in DOMAIN deltas
        PROVE  /\ p \in DOMAIN rows /\ Later(rows, p) # {}
               /\ p \in Int /\ Min(Later(rows, p)) \in Int
               /\ deltas[p] = Min(Later(rows, p)) - p
               /\ p + deltas[p] = Min(Later(rows, p))
               /\ Min(Later(rows, p)) \in DOMAIN rows
    <2>1. p \in DOMAIN rows /\ Later(rows, p) # {} /\ deltas[p] = Min(Later(rows, p)) - p
      BY DEF Deltas
    <2>2. Min(Later(rows, p)) \in DOMAIN rows
      BY <1>2, <2>1 DEF Later
    <2> HIDE DEF deltas
    <2> QED BY <1>1, <2>1, <2>2
  <1>4. ends \subseteq DOMAIN f
    BY <1>1, <1>3 DEF GapEnds
  <1> DEFINE Before == {x \in DOMAIN rows : x < s}
  <1>5. PICK p \in Before : \A x \in Before : x <= p
    <2>1. Before # {} /\ Before \subseteq 0..(MaxSamples - 1)
      BY <1>1
    <2> HIDE DEF Before
    <2> QED BY <2>1, SamplesHaveEnds
  <1> DEFINE q == Min(Later(rows, p))
  <1>6. b \in Later(rows, p) /\ p \in DOMAIN rows /\ p \in Int /\ p < s
    BY <1>1, <1>5 DEF Later
  <1>7. p \in DOMAIN deltas /\ q \in DOMAIN rows /\ q > p
    BY <1>2, <1>6 DEF Deltas, Later
  <1>8. q \in Int /\ s < q
    <2>1. q \in Int /\ q # s
      BY <1>1, <1>7
    <2>2. ~ (q < s)
      <3> SUFFICES ASSUME q < s PROVE FALSE
        OBVIOUS
      <3>1. q \in Before
        BY <1>7
      <3>2. q <= p
        BY <3>1, <1>5
      <3> HIDE DEF q
      <3> QED BY <3>2, <2>1, <1>6, <1>7
    <2> HIDE DEF q
    <2> QED BY <2>1, <2>2, <1>1
  <1>9. p \in ends /\ q \in ends
    <2>1. deltas[p] = q - p /\ p + deltas[p] = q
      BY <1>3, <1>7
    <2>2. 2 * deltas[p] > 3 * 1
      <3> HIDE DEF deltas, q
      <3> QED BY <2>1, <1>1, <1>6, <1>8
    <2> HIDE DEF deltas, q
    <2> QED BY <1>7, <2>1, <2>2 DEF GapEnds
  <1>10. ends \in Warnings(f)
    BY DEF Warnings, rows
  <1> HIDE DEF ends, q
  <1> QED BY <1>4, <1>6, <1>8, <1>9, <1>10

(* Samples of one hour, in an issue's occurrences: the hour is in its range. *)
LEMMA HourIsReported ==
    ASSUME VersionInv, NEW h \in Int, NEW s \in SamplesOf(h), NEW severity, NEW found,
           \/ severity = "error" /\ found = Errors(file)
           \/ severity = "warning" /\ found = Warnings(file),
           NEW times \in found, times \subseteq DOMAIN file,
           NEW x \in times, NEW y \in times, x <= s, s <= y
    PROVE  Reported(Evaluate(file), severity, h)
  <1>1. DOMAIN file = 0..(MaxSamples - 1)
    BY DEF VersionInv, GrowthInv, WholeHours
  <1>2. x \in Int /\ y \in Int /\ s \in Int /\ HourOf(s) = h
    BY <1>1, HoursAreInOrder
  <1>3. HourOf(x) <= h /\ h <= HourOf(y)
    BY <1>2, HoursAreInOrder
  <1> QED BY <1>1, <1>3, OccurrencesAreReported

(* An hour whose data _aggregate_hour finds in doubt has a sample that is. *)
LEMMA DoubtHasASample ==
    ASSUME NEW f, NEW gaps, NEW h,
           Hour(f, gaps, h).status \in {"invalid_value", "invalid_conflict"}
    PROVE  \E s \in SamplesOf(h) : Conflict(f, s) \/ HasInvalidNumeric(f, s)
  <1>1. ASSUME NEW conflict \in BOOLEAN, NEW invalid \in BOOLEAN, NEW observed,
               NEW filled \in BOOLEAN,
               Status(conflict, invalid, observed, filled)
                  \in {"invalid_value", "invalid_conflict"}
        PROVE  conflict \/ invalid
    BY <1>1 DEF Status
  <1> DEFINE conflict == \E s \in SamplesOf(h) : Conflict(f, s)
             invalid == \E s \in SamplesOf(h) : HasInvalidNumeric(f, s)
             observed == Cardinality({s \in SamplesOf(h) : TargetValue(f, s) # NoValue})
             filled == {s \in SamplesOf(h) : Filled(f, gaps, s) # NoValue} = SamplesOf(h)
  <1>2. Hour(f, gaps, h).status = Status(conflict, invalid, observed, filled)
    BY DEF Hour
  <1>3. conflict \in BOOLEAN /\ invalid \in BOOLEAN /\ filled \in BOOLEAN
    OBVIOUS
  <1>4. conflict \/ invalid
    <2> HIDE DEF conflict, invalid, observed, filled
    <2> QED BY <1>1, <1>2, <1>3
  <1> QED BY <1>4

(* What is wrong with an hour is in the report. *)
LEMMA VersionsAreReported == VersionInv => ReportExplainsHours
  <1> DEFINE report == Evaluate(file)
  <1> SUFFICES ASSUME VersionInv, NEW h \in DOMAIN hourly
               PROVE  /\ hourly[h].status \in {"invalid_value", "invalid_conflict"} =>
                            Reported(report, "error", h)
                      /\ hourly[h].observed < PerHour /\ {h - 1, h + 1} \subseteq DOMAIN hourly =>
                            \/ Reported(report, "warning", h) \/ Reported(report, "error", h)
                            \/ report.expected # 1
    BY DEF ReportExplainsHours
  <1>1. /\ DOMAIN hourly = Hours(file) /\ hourly[h] = Hour(file, ShortGaps(file), h)
        /\ WholeHours(file) /\ Parsed(file)
    BY DEF VersionInv, GrowthInv, Transform
  <1>2. h \in Int /\ SamplesOf(h) \subseteq DOMAIN file
    BY <1>1, HoursAreWhole
  <1>3. \A s \in SamplesOf(h) : s \in Int /\ HourOf(s) = h
    BY <1>2, HoursAreInOrder
  <1>4. ASSUME hourly[h].status \in {"invalid_value", "invalid_conflict"}
        PROVE  Reported(report, "error", h)
    <2>1. PICK s \in SamplesOf(h) : Conflict(file, s) \/ HasInvalidNumeric(file, s)
      BY <1>1, <1>4, DoubtHasASample
    <2>2. PICK times \in Errors(file) : times \subseteq DOMAIN file /\ s \in times
      BY <1>1, <1>2, <2>1, DoubtIsAnError
    <2>3. s <= s
      BY <1>3
    <2> QED BY <1>2, <2>2, <2>3, HourIsReported
  <1>5. ASSUME hourly[h].observed < PerHour, {h - 1, h + 1} \subseteq DOMAIN hourly,
               report.expected = 1
        PROVE  Reported(report, "warning", h) \/ Reported(report, "error", h)
    <2>1. PICK s \in SamplesOf(h) : TargetValue(file, s) = NoValue
      <3> SUFFICES ASSUME \A s \in SamplesOf(h) : TargetValue(file, s) # NoValue PROVE FALSE
        OBVIOUS
      <3>1. {s \in SamplesOf(h) : TargetValue(file, s) # NoValue} = SamplesOf(h)
        OBVIOUS
      <3>2. hourly[h].observed = Cardinality(SamplesOf(h))
        BY <1>1, <3>1 DEF Hour
      <3>3. PerHour \in Nat /\ PerHour > 0 /\ h * PerHour \in Int
        BY <1>2, TransformAssumption
      <3>4. Cardinality(SamplesOf(h)) = PerHour
        BY <3>3, FS_Interval DEF SamplesOf
      <3> QED BY <1>5, <3>2, <3>3, <3>4
    <2>2. s \in DOMAIN file /\ s \in Int /\ HourOf(s) = h /\ s <= s
      BY <1>2, <1>3
    <2>3. CASE file[s] # <<>>
      <3>1. PICK times \in Errors(file) \cup Warnings(file) :
               times \subseteq DOMAIN file /\ s \in times
        BY <1>1, <2>1, <2>2, <2>3, NoValueIsReported
      <3> QED BY <1>2, <2>2, <3>1, HourIsReported
    <2>4. CASE file[s] = <<>>
      <3>1. PICK a \in DOMAIN file : file[a] # <<>> /\ HourOf(a) <= h - 1
        BY <1>1, <1>5 DEF Hours, Covers
      <3>2. PICK b \in DOMAIN file : file[b] # <<>> /\ h + 1 <= HourOf(b)
        BY <1>1, <1>5 DEF Hours, Covers
      <3>3. a < s /\ s < b
        <4>1. a \in Int /\ b \in Int /\ HourOf(a) \in Int /\ HourOf(b) \in Int
          BY <1>1, HoursAreInOrder DEF WholeHours
        <4>2. ~ (s <= a)
          BY <4>1, <3>1, <2>2, <1>2, HoursAreInOrder
        <4>3. ~ (b <= s)
          BY <4>1, <3>2, <2>2, <1>2, HoursAreInOrder
        <4> QED BY <4>1, <4>2, <4>3, <2>2
      <3>4. ExpectedInterval(Deltas(Rows(file))) = 1
        BY <1>5 DEF Evaluate
      <3>5. PICK times \in Warnings(file) :
               /\ times \subseteq DOMAIN file
               /\ \E x, y \in times : x < s /\ s < y
        BY <1>1, <2>2, <2>4, <3>1, <3>2, <3>3, <3>4, GapIsReported DEF WholeHours
      <3>6. PICK x \in times, y \in times : x < s /\ s < y
        BY <3>5
      <3>7. x <= s /\ s <= y
        BY <3>5, <3>6, <2>2, <1>1 DEF WholeHours
      <3> QED BY <1>2, <3>5, <3>7, HourIsReported
    <2> QED BY <2>3, <2>4
  <1> QED BY <1>4, <1>5

(* For every interval, gap limit, coverage and duplicate policy, QualityEngine.evaluate and *)
(* TransformationEngine.transform agree about a version: what is wrong with the row that    *)
(* _resolve_duplicates makes of an instant is wrong with one of the rows that the report    *)
(* looks at, and where an instant has none the rows around it are a gap apart.              *)
THEOREM ReportIsFaithful == TrainingSpec => []ReportExplainsHours
  <1> QED BY InitVersion, StepVersion, VersionsAreReported, PTL DEF TrainingSpec

-----------------------------------------------------------------------------
(* What an hour's energy is made of. *)

(* v lies between x and y, whichever of them is the larger. *)
Between(x, v, y) == (x <= v /\ v <= y) \/ (y <= v /\ v <= x)

(* A quotient rounded down does not leave the bounds of the fraction. *)
LEMMA ShareIsBetween ==
    ASSUME NEW d \in Int, NEW n \in Nat, NEW k \in 0..n, n > 0
    PROVE  (d * k) \div n \in Int /\ Between(0, (d * k) \div n, d)
  <1> DEFINE p == d * k
             q == p \div n
  <1>1. p \in Int /\ q \in Int /\ n * q <= p /\ p < n * q + n
    <2>1. p \in Int
      OBVIOUS
    <2> HIDE DEF p
    <2> QED BY <2>1
  <1>2. d * n - p = d * (n - k) /\ d * n \in Int /\ d * (n - k) \in Int
    OBVIOUS
  <1>3. n * (d - q) = d * n - n * q /\ n * q \in Int /\ n * (q + 1) = n * q + n
    <2> HIDE DEF q
    <2> QED BY <1>1
  <1>4. CASE 0 <= d
    <2>1. 0 <= p /\ 0 <= d * (n - k)
      BY <1>4
    <2>2. 0 <= q
      <3>1. 0 < n * (q + 1)
        BY <1>1, <1>3, <2>1
      <3> HIDE DEF q, p
      <3> QED BY <1>1, <3>1
    <2>3. q <= d
      <3>1. 0 <= n * (d - q)
        <4> HIDE DEF p, q
        <4> QED BY <1>1, <1>2, <1>3, <2>1
      <3> HIDE DEF q, p
      <3> QED BY <1>1, <3>1
    <2> QED BY <1>1, <2>2, <2>3 DEF Between
  <1>5. CASE d < 0
    <2>1. p <= 0 /\ d * (n - k) <= 0
      BY <1>5
    <2>2. q <= 0
      <3>1. n * q <= 0
        <4> HIDE DEF p, q
        <4> QED BY <1>1, <1>3, <2>1
      <3> HIDE DEF q, p
      <3> QED BY <1>1, <3>1
    <2>3. d <= q
      <3>1. n * (d - q) < n
        <4> HIDE DEF p, q
        <4> QED BY <1>1, <1>2, <1>3, <2>1
      <3> HIDE DEF q, p
      <3> QED BY <1>1, <3>1
    <2> QED BY <1>1, <2>2, <2>3 DEF Between
  <1> QED BY <1>4, <1>5

\* The energy of an hour comes from its backed samples and no others, and each value lies
\* between two measurements that the hour is made from.
EnergyIsMeasured ==
    \A h \in DOMAIN hourly :
        LET backed == {s \in SamplesOf(h) : Backed(s)}
        IN  IF backed = {} THEN hourly[h].energy = NoValue
            ELSE /\ DOMAIN hourly[h].energy = backed
                 /\ \A s \in backed : \E a, b \in hourly[h].behind :
                       /\ Sound(a) /\ Sound(b) /\ a <= s /\ s <= b
                       /\ Between(TargetValue(file, a), hourly[h].energy[s], TargetValue(file, b))

(* _interpolate_short_gaps: what a sample is filled with lies between the measurements      *)
(* that its gap lies between.                                                              *)
LEMMA FilledIsBetween ==
    ASSUME WholeHours(file), Parsed(file), NEW s \in DOMAIN file, Backed(s)
    PROVE  \E a, b \in Behind(file, ShortGaps(file), s) :
              /\ Sound(a) /\ Sound(b) /\ a <= s /\ s <= b
              /\ Between(TargetValue(file, a), Filled(file, ShortGaps(file), s),
                         TargetValue(file, b))
  <1> DEFINE gaps == ShortGaps(file)
  <1>1. s \in Int /\ GapLimit \in Nat
    BY TransformAssumption DEF WholeHours
  <1>2. CASE GapsAt(gaps, s) = {}
    <2>1. Filled(file, gaps, s) = TargetValue(file, s)
      BY <1>2 DEF Filled
    <2>2. TargetValue(file, s) # NoValue
      BY <2>1, FilledIsBacked
    <2>3. TargetValue(file, s) \in Nat
      BY <2>2, TargetsAreNumbers
    <2>4. s \in Behind(file, gaps, s) /\ Sound(s)
      BY <2>2 DEF Behind, Sound
    <2>5. s <= s /\ Between(TargetValue(file, s), Filled(file, gaps, s), TargetValue(file, s))
      <3>1. TargetValue(file, s) <= TargetValue(file, s)
        BY <2>3
      <3> QED BY <1>1, <2>1, <3>1 DEF Between
    <2> QED BY <2>4, <2>5
  <1>3. CASE GapsAt(gaps, s) # {}
    <2>1. PICK gap \in GapsAt(gaps, s) : gap = CHOOSE c \in GapsAt(gaps, s) : TRUE
      BY <1>3
    <2>2. PICK a \in DOMAIN file, m \in 0..(GapLimit - 1) :
             gap = <<a, a + m>> /\ Measured(file, a - 1) /\ Measured(file, a + m + 1)
      BY <2>1, ShortGapIs DEF GapsAt
    <2>3. a \in Int /\ m \in Int /\ 0 <= m /\ a <= s /\ s <= a + m
      BY <1>1, <2>1, <2>2 DEF GapsAt, WholeHours
    <2> DEFINE x == TargetValue(file, a - 1)
               y == TargetValue(file, a + m + 1)
               k == s - a + 1
               n == m + 2
               v == ((y - x) * k) \div n
    <2>4. x \in Nat /\ y \in Nat
      BY <2>2, TargetsAreNumbers DEF Measured
    <2>5. Filled(file, gaps, s) = x + v
      <3>1. Filled(file, gaps, s) = Interpolated(file, gap, s)
        BY <1>3, <2>1 DEF Filled
      <3>2. gap[1] - 1 = a - 1 /\ gap[2] + 1 = a + m + 1 /\ s - gap[1] + 1 = k
            /\ gap[2] - gap[1] + 2 = n
        BY <2>2, <2>3, <1>1
      <3> QED BY <3>1, <3>2 DEF Interpolated
    <2>6. v \in Int /\ Between(0, v, y - x)
      <3>1. y - x \in Int /\ n \in Nat /\ k \in 0..n /\ n > 0
        BY <1>1, <2>3, <2>4
      <3> HIDE DEF x, y, k, n
      <3> QED BY <3>1, ShareIsBetween
    <2>7. Between(x, Filled(file, gaps, s), y)
      <3> HIDE DEF x, y, v
      <3> QED BY <2>4, <2>5, <2>6 DEF Between
    <2>8. a - 1 \in Behind(file, gaps, s) /\ a + m + 1 \in Behind(file, gaps, s)
      <3>1. {gap[1] - 1, gap[2] + 1} = {a - 1, a + m + 1}
        BY <2>2
      <3> QED BY <2>1, <3>1 DEF Behind
    <2>9. /\ Sound(a - 1) /\ Sound(a + m + 1)
          /\ a - 1 <= s /\ s <= a + m + 1
      BY <1>1, <2>2, <2>3 DEF Sound, Measured
    <2> QED BY <2>7, <2>8, <2>9
  <1> QED BY <1>2, <1>3

(* Each hour's energy is the sum of such samples. *)
LEMMA VersionsAreMeasured == VersionInv => EnergyIsMeasured
  <1> SUFFICES ASSUME VersionInv, NEW h \in DOMAIN hourly
               PROVE  LET backed == {s \in SamplesOf(h) : Backed(s)}
                      IN  IF backed = {} THEN hourly[h].energy = NoValue
                          ELSE /\ DOMAIN hourly[h].energy = backed
                               /\ \A s \in backed : \E a, b \in hourly[h].behind :
                                     /\ Sound(a) /\ Sound(b) /\ a <= s /\ s <= b
                                     /\ Between(TargetValue(file, a), hourly[h].energy[s],
                                                TargetValue(file, b))
    BY DEF EnergyIsMeasured
  <1> DEFINE gaps == ShortGaps(file)
             backed == {s \in SamplesOf(h) : Backed(s)}
             present == {s \in SamplesOf(h) : Filled(file, gaps, s) # NoValue}
  <1>1. /\ hourly[h] = Hour(file, gaps, h) /\ h \in Hours(file)
        /\ WholeHours(file) /\ Parsed(file)
    BY DEF VersionInv, GrowthInv, Transform
  <1>2. SamplesOf(h) \subseteq DOMAIN file
    BY <1>1, HoursAreWhole
  <1>3. present = backed
    BY <1>1, <1>2, FilledIsBacked
  <1>4. hourly[h].energy = IF present = {} THEN NoValue
                           ELSE [s \in present |-> Filled(file, gaps, s)]
    BY <1>1 DEF Hour
  <1>5. hourly[h].behind = UNION {Behind(file, gaps, s) : s \in SamplesOf(h)}
    BY <1>1 DEF Hour
  <1>6. ASSUME NEW s \in backed
        PROVE  \E a, b \in hourly[h].behind :
                  /\ Sound(a) /\ Sound(b) /\ a <= s /\ s <= b
                  /\ Between(TargetValue(file, a), Filled(file, gaps, s), TargetValue(file, b))
    <2>1. PICK a, b \in Behind(file, gaps, s) :
             /\ Sound(a) /\ Sound(b) /\ a <= s /\ s <= b
             /\ Between(TargetValue(file, a), Filled(file, gaps, s), TargetValue(file, b))
      BY <1>1, <1>2, FilledIsBetween
    <2>2. a \in hourly[h].behind /\ b \in hourly[h].behind
      BY <1>5, <2>1
    <2> QED BY <2>1, <2>2
  <1>7. ASSUME backed # {}
        PROVE  /\ DOMAIN hourly[h].energy = backed
               /\ \A s \in backed : hourly[h].energy[s] = Filled(file, gaps, s)
    <2> HIDE DEF backed, present
    <2> QED BY <1>3, <1>4, <1>7
  <1>8. backed = {} => hourly[h].energy = NoValue
    <2> HIDE DEF backed, present
    <2> QED BY <1>3, <1>4
  <1> QED BY <1>6, <1>7, <1>8

(* What _aggregate_hour adds up are the samples that were measured or lie in a short gap,   *)
(* and no sum holds a value outside the measurements around it, whatever the interpolation  *)
(* rounds: an hour's energy stays within what the meter has shown around it.               *)
THEOREM EnergyIsFaithful == TrainingSpec => []EnergyIsMeasured
  <1> QED BY InitVersion, StepVersion, VersionsAreMeasured, PTL DEF TrainingSpec
=============================================================================
