----------------------------- MODULE MCJobQueue -----------------------------
(***************************************************************************)
(* Two jobs, two workers and two attempts each: enough for a job to be lost *)
(* by one worker, requeued, given to the other and come back to the first.  *)
(***************************************************************************)
EXTENDS JobQueue, TLC

MCTypes == {"experiment", "import"}

MCPayloads == {"p"}

\* A two-attempt and a one-attempt request, of different type and priority.
MCRequests ==
    {[type |-> "experiment", payload |-> "p", priority |-> 0, maxAttempts |-> 2],
     [type |-> "import", payload |-> "p", priority |-> 1, maxAttempts |-> 1]}

\* Two reports a running job may make, and one it may not.
MCReports == {40, 99, 100}

Symmetry == Permutations(Workers)
=============================================================================
