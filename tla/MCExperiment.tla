---------------------------- MODULE MCExperiment ----------------------------
(***************************************************************************)
(* Two algorithms: one can fail, or be chosen in one attempt and the other  *)
(* in the next.                                                             *)
(***************************************************************************)
EXTENDS Forecasts, FiniteSets, TLC

MCSimplicity ==
    CHOOSE f \in [Algorithms -> 1..Cardinality(Algorithms)] :
       \A a, b \in Algorithms : f[a] = f[b] => a = b

\* On either side of each tolerance.
MCMetrics == [mae : {100, 101, 102}, std : {100, 105, 106}, time : {1, 2}]

\* What SelectionProofs says of any candidates.
ASSUME SelectionExample ==
    \A metrics \in [Algorithms -> MCMetrics] :
       /\ Cardinality(Recommended(metrics)) = 1
       /\ \A a \in Recommended(metrics), b \in Algorithms :
             \/ metrics[a].mae < metrics[b].mae \/ metrics[a].std < metrics[b].std
             \/ metrics[a].time <= metrics[b].time

MCTypes == {"experiment"}

MCPayloads == {"experiment"}

MCRequests == {Staged("experiment", "experiment")}

\* Whichever of the algorithms the metrics are given to, it may be recommended: the order of
\* simplicity does not tell them apart.
Symmetry == Permutations(Workers) \cup Permutations(Algorithms)
=============================================================================
