---------------------------- MODULE QualityEngine ----------------------------
(***************************************************************************)
(* quality/engine.py: the report on a version's measurements, over the      *)
(* files of HourlyTransform.  The columns that no hour is made of, the      *)
(* order of the rows, the statistical anomalies, the counts and the         *)
(* evidence are left out: what remains is what the hours have to agree with.*)
(* The code's report has more: a file gives energy or power, and the column *)
(* that it does not give is a "missing" warning from its first row to its   *)
(* last.  What is said here of a report is said of the remaining issues.    *)
(***************************************************************************)
EXTENDS HourlyTransform, Functions

\* The rows of each instant that has any.
Rows(file) == Restrict(file, {s \in DOMAIN file : file[s] # <<>>})

-----------------------------------------------------------------------------
(* _expected_interval_seconds and _gap_issues *)

Later(rows, s) == {x \in DOMAIN rows : x > s}

\* How far away the next instant is, of those that another one follows.
Deltas(rows) ==
    [s \in {x \in DOMAIN rows : Later(rows, x) # {}} |-> Min(Later(rows, s)) - s]

\* The most frequent difference, and the smallest of those.
ExpectedInterval(deltas) ==
    LET often == [d \in Range(deltas) |-> Cardinality({s \in DOMAIN deltas : deltas[s] = d})]
    IN  IF deltas = <<>> THEN NoValue
        ELSE Min({d \in DOMAIN often : \A e \in DOMAIN often : often[d] >= often[e]})

\* Faulty variant: two intervals are no gap yet.
GapEnds_Tolerant(deltas, expected) ==
    UNION {{s, s + deltas[s]} : s \in {x \in DOMAIN deltas : deltas[x] > 2 * expected}}

\* Where the gaps start and end: at more than one and a half of the expected interval.
GapEnds(deltas, expected) ==
    UNION {{s, s + deltas[s]} : s \in {x \in DOMAIN deltas : 2 * deltas[x] > 3 * expected}}

-----------------------------------------------------------------------------
(* _duplicate_issues, _value_issues and _parse_issues *)

Distinct(group) == {group[i] : i \in DOMAIN group}

ExactDuplicates(rows) == {s \in DOMAIN rows : Len(rows[s]) > Cardinality(Distinct(rows[s]))}

ConflictingDuplicates(rows) == {s \in DOMAIN rows : Cardinality(Distinct(rows[s])) > 1}

Columns == {"value", "other"}

MissingValues(rows, column) ==
    {s \in DOMAIN rows : \E i \in DOMAIN rows[s] : rows[s][i][column] = NoValue}

InvalidValues(rows, column) ==
    {s \in DOMAIN rows :
        \E i \in DOMAIN rows[s] : rows[s][i][column] # NoValue /\ rows[s][i][column] < 0}

ParseErrors(rows) == {s \in DOMAIN rows : \E i \in DOMAIN rows[s] : ~rows[s][i].parsed}

-----------------------------------------------------------------------------
(* evaluate and _single_issue *)

\* All occurrences of one type, in one column, are one issue: its range says where the first
\* and the last of them is.
Issues(severity, found) ==
    {[severity |-> severity, start |-> Min(times), end |-> Max(times)] : times \in found \ {{}}}

Evaluate(file) ==
    LET rows == Rows(file)
        deltas == Deltas(rows)
        expected == ExpectedInterval(deltas)
        errors == {ConflictingDuplicates(rows), ParseErrors(rows)}
                     \cup {InvalidValues(rows, c) : c \in Columns}
        warnings == {ExactDuplicates(rows), GapEnds(deltas, expected)}
                       \cup {MissingValues(rows, c) : c \in Columns}
    IN  [expected |-> expected,
         issues |-> Issues("error", errors) \cup Issues("warning", warnings)]

Reported(report, severity, h) ==
    \E i \in report.issues : i.severity = severity /\ HourOf(i.start) <= h /\ h <= HourOf(i.end)
=============================================================================
