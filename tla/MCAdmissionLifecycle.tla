------------------------ MODULE MCAdmissionLifecycle ------------------------
(***************************************************************************)
(* Two jobs of two users and one slot: one job waits while the other is    *)
(* analysed, is promoted, cancelled, extended or expired, with two         *)
(* requests and one failure in between.                                    *)
(***************************************************************************)
EXTENDS AdmissionLifecycle, TLC

CONSTANTS a1, b1, a, b

TwoJobs == {a1, b1}
OwnerOfTwo == a1 :> a @@ b1 :> b
=============================================================================
