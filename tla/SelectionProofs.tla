--------------------------- MODULE SelectionProofs ---------------------------
(***************************************************************************)
(* What the tie-breaks of the selection rule come to, for any candidates.   *)
(***************************************************************************)
EXTENDS Selection, WellFoundedInduction, TLAPS

\* A set of things with a natural number each has one with the least.
LEMMA LeastExists ==
    ASSUME NEW S, S # {}, NEW f, \A x \in S : f[x] \in Nat
    PROVE  \E x \in S : \A y \in S : f[x] <= f[y]
<1> DEFINE T == {f[x] : x \in S}
<1>1. T \subseteq Nat /\ T # {}
    OBVIOUS
<1>2. IsWellFoundedOn(OpToRel(<, Nat), Nat)
    BY NatLessThanWellFounded
<1>3. PICK n \in T : \A m \in T : ~ (<<m, n>> \in OpToRel(<, Nat))
    <2> HIDE DEF T
    <2> QED
        BY <1>1, <1>2, WFMin
<1>4. \A m \in T : ~ (m < n)
    BY <1>1, <1>3 DEF OpToRel
<1>5. PICK x \in S : f[x] = n
    OBVIOUS
<1>6. \A y \in S : ~ (f[y] < n) /\ f[y] \in Nat
    BY <1>4
<1> QED
    BY <1>5, <1>6

-----------------------------------------------------------------------------
(* The pools are not empty, and exactly one candidate comes first in the last of them: the *)
(* recommendation is made, and depends on nothing but the metrics and the algorithms.      *)
THEOREM OneIsRecommended ==
    ASSUME NEW C \in SUBSET Algorithms, C # {}, NEW metrics \in [C -> Metric]
    PROVE  \E a \in C : Recommended(metrics) = {a}
<1> DEFINE mae == [a \in C |-> metrics[a].mae]
           std == [a \in C |-> metrics[a].std]
           time == [a \in C |-> metrics[a].time]
<1>1. \A a \in C : mae[a] \in Nat /\ std[a] \in Nat /\ time[a] \in Nat
    BY DEF Metric
<1>2. MaePool(metrics) # {} /\ MaePool(metrics) \subseteq C
    <2>1. PICK a \in C : \A b \in C : mae[a] <= mae[b]
        <3> HIDE DEF mae
        <3> QED
            BY <1>1, LeastExists
    <2>2. \A b \in C : 100 * metrics[a].mae <= 101 * metrics[b].mae
        BY <1>1, <2>1
    <2> QED
        BY <2>2 DEF MaePool
<1>3. StdPool(metrics) # {} /\ StdPool(metrics) \subseteq MaePool(metrics)
    <2>1. PICK a \in MaePool(metrics) : \A b \in MaePool(metrics) : std[a] <= std[b]
        <3> HIDE DEF std
        <3> QED
            BY <1>1, <1>2, LeastExists
    <2>2. ASSUME NEW b \in MaePool(metrics)
          PROVE  100 * metrics[a].std <= 105 * metrics[b].std
        <3>1. std[a] <= std[b] /\ std[a] \in Nat /\ std[b] \in Nat
            BY <1>1, <1>2, <2>1
        <3>2. std[a] = metrics[a].std /\ std[b] = metrics[b].std
            BY <1>2
        <3> QED
            BY <3>1, <3>2
    <2> QED
        BY <2>2 DEF StdPool
<1> DEFINE Fastest == {a \in StdPool(metrics) : \A b \in StdPool(metrics) : time[a] <= time[b]}
<1>4. Fastest # {}
    <2>1. PICK a \in StdPool(metrics) : \A b \in StdPool(metrics) : time[a] <= time[b]
        <3> HIDE DEF time
        <3> QED
            BY <1>1, <1>2, <1>3, LeastExists
    <2> QED
        BY <2>1
<1>5. PICK a \in Fastest : \A b \in Fastest : Simplicity[a] <= Simplicity[b]
    <2>1. \A b \in Fastest : Simplicity[b] \in Nat
        BY <1>2, <1>3, SelectionAssumption
    <2> HIDE DEF Fastest
    <2> QED
        BY <1>4, <2>1, LeastExists
<1>6. a \in StdPool(metrics) /\ a \in C /\ \A b \in StdPool(metrics) : time[a] <= time[b]
    BY <1>2, <1>3, <1>5
<1>7. ASSUME NEW b \in StdPool(metrics), b # a
      PROVE  Precedes(metrics, a, b)
    <2>1. CASE time[a] < time[b]
        BY <1>2, <1>3, <1>6, <2>1 DEF Precedes
    <2>2. CASE time[a] = time[b]
        <3>1. b \in Fastest
            BY <1>6, <2>2
        <3>2. Simplicity[a] < Simplicity[b]
            <4>1. Simplicity[a] <= Simplicity[b]
                BY <1>5, <3>1
            <4>2. a \in Algorithms /\ b \in Algorithms
                BY <1>2, <1>3, <1>6
            <4> QED
                BY <4>1, <4>2, <1>7, SelectionAssumption
        <3> QED
            BY <1>2, <1>3, <1>6, <2>2, <3>2 DEF Precedes
    <2>3. time[a] <= time[b] /\ time[a] \in Nat /\ time[b] \in Nat
        BY <1>1, <1>2, <1>3, <1>6
    <2> HIDE DEF time
    <2> QED
        BY <2>1, <2>2, <2>3
<1>8. ASSUME NEW b \in Recommended(metrics)
      PROVE  b = a
    <2>1. b \in StdPool(metrics) /\ b \in C
        BY <1>2, <1>3 DEF Recommended
    <2>2. ASSUME b # a PROVE FALSE
        <3>1. Precedes(metrics, b, a) /\ Precedes(metrics, a, b)
            BY <1>6, <1>7, <2>1, <2>2 DEF Recommended
        <3>2. Simplicity[a] \in Nat /\ Simplicity[b] \in Nat
            BY <1>6, <2>1, SelectionAssumption
        <3>3. metrics[a].time \in Nat /\ metrics[b].time \in Nat
            BY <1>6, <2>1 DEF Metric
        <3> QED
            BY <3>1, <3>2, <3>3 DEF Precedes
    <2> QED
        BY <2>2
<1>9. a \in Recommended(metrics)
    BY <1>6, <1>7 DEF Recommended
<1> QED
    BY <1>6, <1>8, <1>9

(* No candidate is as good in both errors and faster than the recommended one: the         *)
(* tolerances of the pools never let a better algorithm drop out before the times are      *)
(* compared.                                                                               *)
THEOREM NoneIsBetter ==
    ASSUME NEW C \in SUBSET Algorithms, NEW metrics \in [C -> Metric],
           NEW a \in Recommended(metrics), NEW b \in C,
           metrics[b].mae <= metrics[a].mae, metrics[b].std <= metrics[a].std
    PROVE  metrics[a].time <= metrics[b].time
<1>1. a \in StdPool(metrics) /\ a \in MaePool(metrics) /\ a \in C
    BY DEF Recommended, StdPool, MaePool
<1>2. \A c \in C : metrics[c].mae \in Nat /\ metrics[c].std \in Nat /\ metrics[c].time \in Nat
    BY DEF Metric
<1>3. b \in MaePool(metrics)
    <2>1. \A c \in C : 100 * metrics[a].mae <= 101 * metrics[c].mae
        BY <1>1 DEF MaePool
    <2>2. \A c \in C : 100 * metrics[b].mae <= 101 * metrics[c].mae
        BY <1>1, <1>2, <2>1
    <2> QED
        BY <2>2 DEF MaePool
<1>4. b \in StdPool(metrics)
    <2>1. \A c \in MaePool(metrics) : 100 * metrics[a].std <= 105 * metrics[c].std
        BY <1>1 DEF StdPool
    <2>2. \A c \in MaePool(metrics) : 100 * metrics[b].std <= 105 * metrics[c].std
        BY <1>1, <1>2, <2>1 DEF MaePool
    <2> QED
        BY <1>3, <2>2 DEF StdPool
<1>5. b # a => Precedes(metrics, a, b)
    BY <1>4 DEF Recommended
<1> QED
    BY <1>1, <1>2, <1>5 DEF Precedes
=============================================================================
