------------------------------ MODULE Selection ------------------------------
(***************************************************************************)
(* experiments/selection.py: which of the algorithms whose cross-validation *)
(* succeeded is recommended.  Errors and times are natural numbers of some  *)
(* small unit.                                                              *)
(***************************************************************************)
EXTENDS Integers

CONSTANTS
    Algorithms,
    Simplicity   \* _SIMPLICITY: the smaller, the simpler

ASSUME SelectionAssumption ==
    /\ Simplicity \in [Algorithms -> Nat]
    /\ \A a, b \in Algorithms : Simplicity[a] = Simplicity[b] => a = b

\* mean_cv_mae, std_cv_mae and predict_ms_median
Metric == [mae : Nat, std : Nat, time : Nat]

-----------------------------------------------------------------------------
\* `metrics' gives each candidate its metrics.

\* Within 1% of the best error.
MaePool(metrics) ==
    {a \in DOMAIN metrics : \A b \in DOMAIN metrics : 100 * metrics[a].mae <= 101 * metrics[b].mae}

\* Within 5% of the best standard deviation in that pool.
StdPool(metrics) ==
    {a \in MaePool(metrics) :
        \A b \in MaePool(metrics) : 100 * metrics[a].std <= 105 * metrics[b].std}

Precedes(metrics, a, b) ==
    \/ metrics[a].time < metrics[b].time
    \/ metrics[a].time = metrics[b].time /\ Simplicity[a] < Simplicity[b]

\* The fastest, and the simplest of those.
Recommended(metrics) ==
    {a \in StdPool(metrics) : \A b \in StdPool(metrics) \ {a} : Precedes(metrics, a, b)}
=============================================================================
