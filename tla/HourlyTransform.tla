--------------------------- MODULE HourlyTransform ---------------------------
(***************************************************************************)
(* transformations/engine.py: from the measurements of a meter to hours.    *)
(*                                                                          *)
(* Sample s is the instant s intervals after some hour's start, so hour h   *)
(* has the samples of SamplesOf(h).  A file is a function from samples to   *)
(* the rows it has for them, in its order: none, one or more.  It has one   *)
(* target column, power or energy, as the mapping of parsers.py says; the   *)
(* factor between the two is left out.  One more column stands for the      *)
(* quantities that are only checked and averaged.  Means and interpolated   *)
(* values are rounded down.                                                 *)
(***************************************************************************)
EXTENDS Integers, Sequences, FiniteSets, FiniteSetsExt

CONSTANTS
    PerHour,          \* 3600 // interval_seconds
    GapLimit,         \* short_gap_limit_minutes, in samples
    MinObserved,      \* minimum_hour_coverage, in samples
    DuplicatePolicy,  \* "reject", "keep_first", "keep_last" or "mean"
    NoValue           \* None: an empty field, a missing sample, an hour without energy

(* A short gap has at most 5 minutes, so its samples fill no more than half an hour. *)
ASSUME TransformAssumption ==
    /\ PerHour \in Nat \ {0} /\ GapLimit \in Nat /\ 2 * GapLimit <= PerHour
    /\ MinObserved \in 1..PerHour
    /\ DuplicatePolicy \in {"reject", "keep_first", "keep_last", "mean"}
    /\ NoValue \notin Int

Quantity == Int \cup {NoValue}

\* `parsed' says that the parse status is not "invalid".
Measurement == [value : Quantity, other : Quantity, parsed : BOOLEAN]

SamplesOf(h) == (h * PerHour)..(h * PerHour + PerHour - 1)

HourOf(s) == s \div PerHour

\* From the hour of the first measurement to that of the last.
Covers(file, h) ==
    /\ \E s \in DOMAIN file : file[s] # <<>> /\ HourOf(s) <= h
    /\ \E s \in DOMAIN file : file[s] # <<>> /\ h <= HourOf(s)

Hours(file) == {h \in {HourOf(s) : s \in DOMAIN file} : Covers(file, h)}

-----------------------------------------------------------------------------
(* _resolve_duplicates *)

Disagree(group) == \E i, j \in DOMAIN group : group[i] # group[j]

\* _mean_optional leaves out what is missing, and nothing else.
MeanOf(values) ==
    LET there == {i \in DOMAIN values : values[i] # NoValue}
    IN  IF there = {} THEN NoValue
        ELSE MapThenSumSet(LAMBDA i : values[i], there) \div Cardinality(there)

\* _mean_measurement: the parse status is the first row's.
Mean(group) ==
    [value |-> MeanOf([i \in DOMAIN group |-> group[i].value]),
     other |-> MeanOf([i \in DOMAIN group |-> group[i].other]),
     parsed |-> group[1].parsed]

Resolved(group) ==
    CASE DuplicatePolicy = "keep_last" /\ Disagree(group) -> group[Len(group)]
      [] DuplicatePolicy = "mean" /\ Disagree(group) -> Mean(group)
      [] OTHER -> group[1]

Conflict(file, s) == DuplicatePolicy = "reject" /\ Disagree(file[s])

-----------------------------------------------------------------------------
(* _target_value and _has_invalid_numeric, of what the file has at a sample *)

TargetValue(file, s) ==
    IF file[s] = <<>> THEN NoValue
    ELSE LET r == Resolved(file[s])
         IN  IF r.parsed /\ r.value # NoValue /\ r.value >= 0 THEN r.value ELSE NoValue

HasInvalidNumeric(file, s) ==
    /\ file[s] # <<>>
    /\ LET r == Resolved(file[s])
       IN  \/ ~r.parsed
           \/ \E q \in {r.value, r.other} : q # NoValue /\ q < 0

-----------------------------------------------------------------------------
(* _missing_runs and _interpolate_short_gaps *)

\* Any run between two measurements.
ShortGaps_AnyLength(file) ==
    {gap \in {<<a, a + n>> : a \in DOMAIN file, n \in 0..PerHour} :
        /\ \A s \in gap[1]..gap[2] : s \in DOMAIN file /\ TargetValue(file, s) = NoValue
        /\ \A s \in {gap[1] - 1, gap[2] + 1} :
              s \in DOMAIN file /\ TargetValue(file, s) # NoValue}

\* The runs of missing samples that are filled, as pairs of their first and last sample.
ShortGaps(file) ==
    {gap \in {<<a, a + n>> : a \in DOMAIN file, n \in 0..(GapLimit - 1)} :
        /\ \A s \in gap[1]..gap[2] : s \in DOMAIN file /\ TargetValue(file, s) = NoValue
        /\ \A s \in {gap[1] - 1, gap[2] + 1} :
              s \in DOMAIN file /\ TargetValue(file, s) # NoValue}

GapsAt(gaps, s) == {gap \in gaps : s \in gap[1]..gap[2]}

Interpolated(file, gap, s) ==
    LET before == TargetValue(file, gap[1] - 1)
        after == TargetValue(file, gap[2] + 1)
    IN  before + ((after - before) * (s - gap[1] + 1)) \div (gap[2] - gap[1] + 2)

Filled(file, gaps, s) ==
    IF GapsAt(gaps, s) = {} THEN TargetValue(file, s)
    ELSE Interpolated(file, CHOOSE gap \in GapsAt(gaps, s) : TRUE, s)

\* The samples that a filled value is made from.
Behind(file, gaps, s) ==
    {x \in {s} : TargetValue(file, s) # NoValue}
       \cup UNION {{gap[1] - 1, gap[2] + 1} : gap \in GapsAt(gaps, s)}

-----------------------------------------------------------------------------
(* _aggregate_hour *)

\* The filled series is not looked at.
Status_Unfilled(conflict, invalid, observed, filled) ==
    CASE conflict -> "invalid_conflict"
      [] ~conflict /\ invalid -> "invalid_value"
      [] ~conflict /\ ~invalid /\ observed = PerHour -> "complete"
      [] ~conflict /\ ~invalid /\ observed \in MinObserved..(PerHour - 1) -> "imputed_short_gap"
      [] OTHER -> "invalid_missing"

Status(conflict, invalid, observed, filled) ==
    CASE conflict -> "invalid_conflict"
      [] ~conflict /\ invalid -> "invalid_value"
      [] ~conflict /\ ~invalid /\ observed = PerHour -> "complete"
      [] ~conflict /\ ~invalid /\ observed \in MinObserved..(PerHour - 1) ->
            IF filled THEN "imputed_short_gap" ELSE "valid_partial"
      [] OTHER -> "invalid_missing"

TrainingReady == {"complete", "imputed_short_gap"}

\* The energy is the sum of the filled values; here, the values that are added up.  `behind' is
\* no column: it says which samples they are made from.
Hour(file, gaps, h) ==
    LET observed == Cardinality({s \in SamplesOf(h) : TargetValue(file, s) # NoValue})
        present == {s \in SamplesOf(h) : Filled(file, gaps, s) # NoValue}
    IN  [status |-> Status(\E s \in SamplesOf(h) : Conflict(file, s),
                           \E s \in SamplesOf(h) : HasInvalidNumeric(file, s),
                           observed, present = SamplesOf(h)),
         observed |-> observed,
         energy |-> IF present = {} THEN NoValue
                    ELSE [s \in present |-> Filled(file, gaps, s)],
         behind |-> UNION {Behind(file, gaps, s) : s \in SamplesOf(h)}]

Transform(file, gaps) == [h \in Hours(file) |-> Hour(file, gaps, h)]
=============================================================================
