-------------------------- MODULE JobStateMachine ---------------------------
(***************************************************************************)
(* What an analysis job promises to everybody who polls it: its status     *)
(* follows the transition table of analysis/state.py, and a terminal       *)
(* status is final.  One transaction may move several jobs.  LateFailures  *)
(* is the one licence the lifecycle sweep takes, whose stale read lets it  *)
(* write FAILED over SUCCEEDED.                                            *)
(***************************************************************************)
CONSTANTS Jobs, LateFailures

VARIABLE status

Terminal == {"SUCCEEDED", "FAILED", "CANCELLED"}

Statuses ==
  {"PENDING", "QUEUED", "CLAIMED", "RUNNING", "RETRY_SCHEDULED"} \cup Terminal

(* ALLOWED_TRANSITIONS; "NONE" is a job whose row does not exist yet. *)
Allowed ==
  [ NONE            |-> {"PENDING"},
    PENDING         |-> {"QUEUED", "FAILED", "CANCELLED"},
    QUEUED          |-> {"CLAIMED", "FAILED", "CANCELLED"},
    CLAIMED         |-> {"RUNNING", "FAILED", "RETRY_SCHEDULED"},
    RUNNING         |-> {"SUCCEEDED", "FAILED", "RETRY_SCHEDULED"},
    RETRY_SCHEDULED |-> {"QUEUED", "FAILED", "CANCELLED"},
    SUCCEEDED       |-> {},
    FAILED          |-> {},
    CANCELLED       |-> {} ]

Init == status = [j \in Jobs |-> "NONE"]

Next ==
  /\ status' \in [Jobs -> Statuses \cup {"NONE"}]
  /\ \A j \in Jobs :
       \/ status'[j] = status[j]
       \/ status'[j] \in Allowed[status[j]]
       \/ LateFailures /\ status[j] = "SUCCEEDED" /\ status'[j] = "FAILED"

Spec == Init /\ [][Next]_status
=============================================================================
