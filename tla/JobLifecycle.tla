---------------------------- MODULE JobLifecycle ----------------------------
(***************************************************************************)
(* What one background job promises to whoever polls it, whatever workers,  *)
(* sweeps and API calls do to the queue: the lifecycle of                   *)
(* energy_forecast/jobs/domain.py at the grain of committed transactions,   *)
(* with the attempt budget of ADR-014.                                      *)
(*                                                                          *)
(* "stale" is not a phase here.  It is a status of the lifecycle table, but *)
(* the only writer of it, recover_stale, leaves it again before it commits: *)
(* a job is never read as stale, only its attempt rows are.                 *)
(***************************************************************************)
EXTENDS Integers

CONSTANT AttemptLimit      \* the largest attempt budget a request may ask for

VARIABLES
    phase,    \* what GET /jobs/{jobId} reports
    runs,     \* how often a worker has been given the job
    budget    \* max_attempts of the request

life == <<phase, runs, budget>>

Phases == {"absent", "queued", "running", "cancel_requested", "cancelled",
           "succeeded", "failed"}

Final == {"cancelled", "succeeded"}

Absent == phase = "absent" /\ runs = 0

Become(from, to) == phase \in from /\ phase' = to /\ UNCHANGED budget

Submit ==
    /\ phase = "absent" /\ phase' = "queued"
    /\ budget' \in 1..AttemptLimit
    /\ UNCHANGED runs

\* Every run is paid for out of the budget.
Start == Become({"queued"}, "running") /\ runs < budget /\ runs' = runs + 1

\* A lost worker's job, or a failed job that is retried explicitly, waits again.
Requeue == Become({"running", "failed"}, "queued") /\ runs < budget /\ UNCHANGED runs

Finish == Become({"running"}, "succeeded") /\ UNCHANGED runs

Fail == Become({"running"}, "failed") /\ UNCHANGED runs

AskToStop == Become({"queued", "running"}, "cancel_requested") /\ UNCHANGED runs

\* Once a stop was asked for and committed, the job can only be cancelled.
Stop == Become({"cancel_requested"}, "cancelled") /\ UNCHANGED runs

Next == Submit \/ Start \/ Requeue \/ Finish \/ Fail \/ AskToStop \/ Stop

Spec == Absent /\ [][Next]_life
=============================================================================
