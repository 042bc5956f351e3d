--------------------------- MODULE QueueAdmission ---------------------------
(***************************************************************************)
(* The shared admission state that RedisQueueAdmission keeps in Redis.     *)
(* Every operation is one Lua script, which Redis runs to its end before   *)
(* the next, so every operation is one action.  The keys are               *)
(*                                                                         *)
(*   active     the set of jobs that own an analysis slot                  *)
(*   waiting    the sorted set of jobs in the FIFO: score[j] is the score  *)
(*              of j, 0 when j is not a member (INCR starts at 1)          *)
(*   users      the hash that maps a user to the job that keeps it busy    *)
(*   deadlines, the two hashes of waiting jobs.  The scripts set and       *)
(*   extended   delete the two fields of a job together, so extended[j]    *)
(*              says for both whether they are there; timeLeft[j] is the   *)
(*              deadline minus the clock                                   *)
(*   sequence   the counter that hands out scores                          *)
(***************************************************************************)
EXTENDS Integers, FiniteSets

CONSTANTS
  Jobs,          \* analysis job identifiers
  Users,         \* owners of the jobs
  Owner,         \* the user a job was created for
  ActiveLimit,   \* slots: the 2 of _ADMIT
  WaitLimit,     \* length of the FIFO: the 3 of _ADMIT
  WaitTime,      \* the 180 seconds of _ADMIT and _EXTEND, in clock ticks
  MaxSequence,   \* bound of the model on the counter
  NoJob          \* an absent field of the users hash

ASSUME QueueAssumption ==
  /\ IsFiniteSet(Jobs)
  /\ NoJob \notin Jobs
  /\ Owner \in [Jobs -> Users]
  /\ ActiveLimit \in Nat \ {0}
  /\ WaitLimit \in Nat
  /\ WaitTime \in Nat \ {0}
  /\ MaxSequence \in Nat

VARIABLES active, score, users, timeLeft, extended, sequence

vars == <<active, score, users, timeLeft, extended, sequence>>

-----------------------------------------------------------------------------
(***************************************************************************)
(* A definition whose comment begins with "Defect:" is no part of the      *)
(* specification.  It is a slip the scripts could contain, kept beside the *)
(* definition it would replace to show which property would catch it.      *)
(***************************************************************************)
Waiting == {j \in Jobs : score[j] # 0}

(* Defect: ZREVRANGE in place of ZRANGE promotes the latest arrival. *)
IsTail(j) == j \in Waiting /\ \A k \in Waiting : score[k] <= score[j]

IsHead(j) == j \in Waiting /\ \A k \in Waiting : score[j] <= score[k]

Init ==
  /\ active = {}
  /\ score = [j \in Jobs |-> 0]
  /\ users = [u \in Users |-> NoJob]
  /\ timeLeft = [j \in Jobs |-> 0]
  /\ extended = [j \in Jobs |-> "absent"]
  /\ sequence = 0

(* Defect: the slot limit compared with > instead of >=. *)
AdmitOutcomeOffByOne(j, consent) ==
  IF users[Owner[j]] # NoJob THEN "USER_BUSY"
  ELSE IF Cardinality(active) <= ActiveLimit THEN "ACTIVE"
  ELSE IF ~consent THEN "CONSENT_REQUIRED"
  ELSE IF Cardinality(Waiting) >= WaitLimit THEN "QUEUE_FULL"
  ELSE "WAITING"

(***************************************************************************)
(* _ADMIT.  The outcome is the reply of the script; only ACTIVE and        *)
(* WAITING change the state.                                               *)
(***************************************************************************)
AdmitOutcome(j, consent) ==
  IF users[Owner[j]] # NoJob THEN "USER_BUSY"
  ELSE IF Cardinality(active) < ActiveLimit THEN "ACTIVE"
  ELSE IF ~consent THEN "CONSENT_REQUIRED"
  ELSE IF Cardinality(Waiting) >= WaitLimit THEN "QUEUE_FULL"
  ELSE "WAITING"

AdmitActive(j, consent) ==
  /\ AdmitOutcome(j, consent) = "ACTIVE"
  /\ active' = active \cup {j}
  /\ users' = [users EXCEPT ![Owner[j]] = j]
  /\ UNCHANGED <<score, timeLeft, extended, sequence>>

AdmitWaiting(j, consent) ==
  /\ AdmitOutcome(j, consent) = "WAITING"
  /\ sequence < MaxSequence
  /\ sequence' = sequence + 1
  /\ score' = [score EXCEPT ![j] = sequence + 1]
  /\ users' = [users EXCEPT ![Owner[j]] = j]
  /\ timeLeft' = [timeLeft EXCEPT ![j] = WaitTime]
  /\ extended' = [extended EXCEPT ![j] = "0"]
  /\ UNCHANGED active

AdmitRefused(j, consent) ==
  /\ AdmitOutcome(j, consent) \notin {"ACTIVE", "WAITING"}
  /\ UNCHANGED vars

Admit(j, consent) ==
  \/ AdmitActive(j, consent)
  \/ AdmitWaiting(j, consent)
  \/ AdmitRefused(j, consent)

(* Defect: one HDEL is forgotten. *)
LeaveQueueKeepsExtended(S) ==
  /\ score' = [j \in Jobs |-> IF j \in S THEN 0 ELSE score[j]]
  /\ timeLeft' = [j \in Jobs |-> IF j \in S THEN 0 ELSE timeLeft[j]]
  /\ UNCHANGED <<extended, sequence>>

(***************************************************************************)
(* The jobs of S leave the FIFO: ZREM, HDEL deadlines, HDEL extended.      *)
(***************************************************************************)
LeaveQueue(S) ==
  /\ score' = [j \in Jobs |-> IF j \in S THEN 0 ELSE score[j]]
  /\ timeLeft' = [j \in Jobs |-> IF j \in S THEN 0 ELSE timeLeft[j]]
  /\ extended' = [j \in Jobs |-> IF j \in S THEN "absent" ELSE extended[j]]
  /\ UNCHANGED sequence

(* _CANCEL.  It answers 0 and changes nothing unless CanCancel holds. *)
CanCancel(j) == users[Owner[j]] = j /\ j \in Waiting

Cancel(j) ==
  /\ CanCancel(j)
  /\ LeaveQueue({j})
  /\ users' = [users EXCEPT ![Owner[j]] = NoJob]
  /\ UNCHANGED active

(* Defect: the second extension is not refused. *)
CanExtendAgain(j) == j \in Waiting /\ timeLeft[j] >= 0

(* Defect: the extension is granted and not recorded. *)
ExtendUnrecorded(j) ==
  /\ j \in Waiting /\ extended[j] = "0"
  /\ timeLeft' = [timeLeft EXCEPT ![j] = @ + WaitTime]
  /\ UNCHANGED <<active, score, users, extended, sequence>>

(* _EXTEND.  A deadline that equals the clock may still be extended. *)
CanExtend(j) == j \in Waiting /\ extended[j] = "0" /\ timeLeft[j] >= 0

Extend(j) ==
  /\ CanExtend(j)
  /\ timeLeft' = [timeLeft EXCEPT ![j] = @ + WaitTime]
  /\ extended' = [extended EXCEPT ![j] = "1"]
  /\ UNCHANGED <<active, score, users, sequence>>

(* Defect: only the first waiting period expires. *)
ExpiredUnextended == {j \in Waiting : extended[j] = "0" /\ timeLeft[j] <= 0}

(* _SWEEP.  A deadline that equals the clock has expired. *)
Expired == {j \in Waiting : extended[j] # "absent" /\ timeLeft[j] <= 0}

(* Defect: an expired job leaves its user busy. *)
SweepKeepsUsers ==
  /\ Expired # {}
  /\ LeaveQueue(Expired)
  /\ UNCHANGED <<active, users>>

Sweep ==
  /\ Expired # {}
  /\ LeaveQueue(Expired)
  /\ users' = [u \in Users |-> IF users[u] \in Expired THEN NoJob ELSE users[u]]
  /\ UNCHANGED active

(* Defect: a head whose deadline has passed is not promoted, nor the next. *)
PromotedInTime(j) ==
  {k \in Jobs : users[Owner[j]] = j /\ IsHead(k) /\ timeLeft[k] > 0}

(***************************************************************************)
(* _COMPLETE frees the slot of j before it looks at the users hash, and    *)
(* promotes the head of the FIFO only when that entry was j's.             *)
(***************************************************************************)
Promoted(j) == {k \in Jobs : users[Owner[j]] = j /\ IsHead(k)}

Complete(j) ==
  /\ j \in active
  /\ active' = (active \ {j}) \cup Promoted(j)
  /\ users' = [users EXCEPT ![Owner[j]] = IF @ = j THEN NoJob ELSE @]
  /\ LeaveQueue(Promoted(j))

(***************************************************************************)
(* One tick of the wall clock the callers pass to the scripts as `now'.    *)
(* No script tells apart two deadlines that have passed: -1 stands for     *)
(* them all.                                                               *)
(***************************************************************************)
Tick ==
  /\ Waiting # {}
  /\ timeLeft' = [j \in Jobs |->
                    IF j \in Waiting /\ timeLeft[j] >= 0 THEN timeLeft[j] - 1
                                                         ELSE timeLeft[j]]
  /\ UNCHANGED <<active, score, users, extended, sequence>>

Next ==
  \/ \E j \in Jobs, consent \in BOOLEAN : Admit(j, consent)
  \/ \E j \in Jobs : Cancel(j)
  \/ \E j \in Jobs : Extend(j)
  \/ \E j \in Jobs : Complete(j)
  \/ Sweep
  \/ Tick

Spec == Init /\ [][Next]_vars

(* Celery beat starts a sweep every five seconds, and clocks advance. *)
Fairness == WF_vars(Sweep) /\ WF_vars(Tick)

FairSpec == Spec /\ Fairness

-----------------------------------------------------------------------------
(* Every key holds values of its kind; a passed deadline reads -1. *)
TypeOK ==
  /\ active \subseteq Jobs
  /\ score \in [Jobs -> 0 .. MaxSequence]
  /\ users \in [Users -> Jobs \cup {NoJob}]
  /\ timeLeft \in [Jobs -> -1 .. 2 * WaitTime]
  /\ extended \in [Jobs -> {"absent", "0", "1"}]
  /\ sequence \in 0 .. MaxSequence

(***************************************************************************)
(* The users hash and the two queues agree: a user is busy with a job      *)
(* exactly while that job is active or waiting, never both.  This is what  *)
(* makes "one active or waiting analysis per user" true, and what a script *)
(* that forgets one of the keys breaks for good: nothing rebuilds the hash.*)
(***************************************************************************)
UsersMatchQueues ==
  /\ active \cap Waiting = {}
  /\ \A j \in Jobs : (j \in active \cup Waiting) <=> users[Owner[j]] = j
  /\ \A u \in Users : users[u] # NoJob => Owner[users[u]] = u

(* The slot count and the FIFO length never exceed their limits. *)
WithinLimits ==
  /\ Cardinality(active) <= ActiveLimit
  /\ Cardinality(Waiting) <= WaitLimit

(***************************************************************************)
(* Nobody waits beside a free slot.  Promotion happens only inside         *)
(* _COMPLETE, so a slot that is freed without a promotion would let        *)
(* newcomers pass everyone in the FIFO.                                    *)
(***************************************************************************)
NoIdleSlot == Waiting # {} => Cardinality(active) = ActiveLimit

(* A job has a deadline exactly while it waits, one period away at most    *)
(* until it was extended, and no two jobs share a score.                   *)
WaitRecords ==
  /\ \A j \in Jobs : j \in Waiting <=> extended[j] # "absent"
  /\ \A j \in Jobs : extended[j] = "0" => timeLeft[j] <= WaitTime
  /\ \A j, k \in Waiting : score[j] = score[k] => j = k
  /\ \A j \in Jobs : score[j] <= sequence

(***************************************************************************)
(* First come, first served: no job takes a slot while a job that was      *)
(* ahead of it, or any job at all if it was not waiting itself, stays in   *)
(* the FIFO.                                                               *)
(***************************************************************************)
NoOvertaking ==
  [][\A j, k \in Jobs :
       /\ j \notin active /\ j \in active'
       /\ k \in Waiting /\ (j \in Waiting => score[k] < score[j])
       => k \notin Waiting']_vars

(***************************************************************************)
(* The wait policy: a job enters the FIFO with a budget of two waiting     *)
(* periods, one granted and one it may ask for, and while it stays the     *)
(* budget never grows -- so nobody waits longer than the two periods.      *)
(***************************************************************************)
Budget(j) == timeLeft[j] + (IF extended[j] = "1" THEN 0 ELSE WaitTime)

WaitBudgetNeverGrows ==
  [][\A j \in Jobs : j \in Waiting' =>
       IF j \in Waiting THEN Budget(j)' <= Budget(j)
                        ELSE Budget(j)' = 2 * WaitTime]_vars

(***************************************************************************)
(* Every wait ends, in a slot, by cancellation or by expiry, even when     *)
(* nothing ever completes and the user extends whenever it can.            *)
(***************************************************************************)
EveryWaitEnds == \A j \in Jobs : (j \in Waiting) ~> (j \notin Waiting)
=============================================================================
