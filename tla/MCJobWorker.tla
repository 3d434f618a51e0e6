---------------------------- MODULE MCJobWorker -----------------------------
(***************************************************************************)
(* Two workers and one job, which is lost, requeued and claimed again.      *)
(***************************************************************************)
EXTENDS JobWorker

MCTypes == {"import", "export"}

MCPayloads == {"p"}

\* Exports have no handler in worker.py.
MCSupported == {"import"}

MCRequests ==
    {[type |-> t, payload |-> "p", priority |-> 0, maxAttempts |-> AttemptLimit] : t \in MCTypes}
=============================================================================
