----------------------------- MODULE RateLimits -----------------------------
(***************************************************************************)
(* The failed logins of one address: a Redis counter that lives for a      *)
(* window, and a block that is set when the counter passes its limit.      *)
(* Times to live are in half seconds, which Redis rounds when it reports   *)
(* them, so the last half second of a key reads 0.                         *)
(***************************************************************************)
EXTENDS Integers

CONSTANTS
  FailedLogin,        \* failures that are not punished
  Window, BlockTime,  \* in half seconds
  MaxFailed,          \* bound of the model on the counter
  MaxOutages          \* bound of the model on blocks that Redis misses

ASSUME RateAssumption ==
  /\ {FailedLogin, Window, BlockTime, MaxFailed} \subseteq Nat \ {0}
  /\ MaxOutages \in Nat
  /\ BlockTime >= Window

VARIABLES
  failed,     \* the counter: [count, ttl], count 0 when there is no key
  blocked,    \* time to live of the block, 0 when there is none
  outages     \* blocks that were due when Redis was not available

limitVars == <<failed, blocked, outages>>

NoFailures == [count |-> 0, ttl |-> 0]

LimitsInit == failed = NoFailures /\ blocked = 0 /\ outages = 0

Reported(ttl) == ttl \div 2

(* Defect: the login path does not look for the block. *)
NeverBlocked == FALSE

(* get_ttl of the block key. *)
IsBlocked == Reported(blocked) > 0

(* Defect: the window of the counter never starts to run. *)
HitUnexpiring(counter) == [counter EXCEPT !.count = @ + 1]

(* _HIT_SCRIPT: the first hit of a window starts its time; `hit' takes a   *)
(* time of 0 for "not limited".                                            *)
Hit(counter) == [count |-> counter.count + 1,
                 ttl |-> IF counter.count = 0 THEN Window ELSE counter.ttl]

Limited(counter) == counter.count > FailedLogin /\ Reported(counter.ttl) > 0

CountFailure ==
  failed.count < MaxFailed /\ failed' = Hit(failed) /\ UNCHANGED <<blocked, outages>>

Block == blocked' = BlockTime /\ UNCHANGED <<failed, outages>>

BlockIsMissed ==
  outages < MaxOutages /\ outages' = outages + 1 /\ UNCHANGED <<failed, blocked>>

Older(ttl) == IF ttl = 0 THEN 0 ELSE ttl - 1

LimitsTick ==
  /\ failed.ttl > 0 \/ blocked > 0
  /\ failed' = IF failed.ttl <= 1 THEN NoFailures ELSE [failed EXCEPT !.ttl = @ - 1]
  /\ blocked' = Older(blocked)
  /\ UNCHANGED outages
=============================================================================
