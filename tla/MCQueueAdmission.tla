-------------------------- MODULE MCQueueAdmission --------------------------
(***************************************************************************)
(* User a has two jobs, the others one each; two slots and a FIFO of two   *)
(* places for five users: a user can be busy with its other job, the FIFO  *)
(* can be full, and a job can wait behind another.                         *)
(***************************************************************************)
EXTENDS QueueAdmission, TLC

CONSTANTS a1, a2, b1, c1, d1, e1, a, b, c, d, e

MCJobs == {a1, a2, b1, c1, d1, e1}
MCUsers == {a, b, c, d, e}
MCOwner == a1 :> a @@ a2 :> a @@ b1 :> b @@ c1 :> c @@ d1 :> d @@ e1 :> e
=============================================================================
