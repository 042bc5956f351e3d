--------------------------- MODULE OneTimeResult ----------------------------
(***************************************************************************)
(* What an owner is promised about the result of an analysis: it becomes   *)
(* available at most once, one request of an owner takes it away, and only *)
(* that request can still receive it.  Its response may be lost.           *)
(***************************************************************************)
CONSTANTS Readers, Owners

VARIABLES
  result,     \* "absent", then "kept", then "taken" for ever
  took,       \* the readers that took it
  received    \* the readers that have it

vars == <<result, took, received>>

Init == result = "absent" /\ took = {} /\ received = {}

Publish ==
  /\ result = "absent"
  /\ result' = "kept"
  /\ UNCHANGED <<took, received>>

Take(r) ==
  /\ result = "kept"
  /\ r \in Owners
  /\ result' = "taken"
  /\ took' = {r}
  /\ UNCHANGED received

Receive(r) ==
  /\ r \in took
  /\ received' = {r}
  /\ UNCHANGED <<result, took>>

Next == Publish \/ \E r \in Readers : Take(r) \/ Receive(r)

Spec == Init /\ [][Next]_vars
=============================================================================
