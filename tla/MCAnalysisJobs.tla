--------------------------- MODULE MCAnalysisJobs ---------------------------
(* Two processes of one Celery host, so that both sign the same worker_id. *)
EXTENDS AnalysisJobs

CONSTANTS w1, w2, host

MCWorkers == {w1, w2}
MCHostOf == [w \in MCWorkers |-> host]
=============================================================================
