------------------------ MODULE QueueAdmissionProofs ------------------------
(***************************************************************************)
(* The admission invariants hold for any number of jobs and users, any     *)
(* limits and any waiting period.  They are proved together: the FIFO      *)
(* never waits beside a free slot because _COMPLETE always promotes, it    *)
(* promotes because the users entry of an active job is its own, and the   *)
(* entry is its own because no script ever lets a user own two jobs.       *)
(***************************************************************************)
EXTENDS QueueAdmission, FiniteSetTheorems, WellFoundedInduction, TLAPS

IInv ==
  /\ TypeOK
  /\ UsersMatchQueues
  /\ WithinLimits
  /\ NoIdleSlot
  /\ WaitRecords

(* A nonempty set of waiting jobs has one with the least score: ZRANGE 0 0 *)
(* finds somebody to promote whenever somebody waits.                      *)
LEMMA HeadExists ==
  ASSUME TypeOK, Waiting # {}
  PROVE  \E k \in Jobs : IsHead(k)
<1> DEFINE T == {score[j] : j \in Waiting}
           R == OpToRel(<, Nat)
<1>1. T \subseteq Nat /\ T # {}
  BY DEF TypeOK, Waiting
<1>2. PICK x \in T : \A y \in T : ~(<<y, x>> \in R)
  <2> HIDE DEF T, R
  <2>1. IsWellFoundedOn(R, Nat)
    BY NatLessThanWellFounded DEF R
  <2> QED BY <2>1, <1>1, WFMin
<1>3. \A y \in T : ~(y < x)
  BY <1>1, <1>2 DEF OpToRel
<1>4. PICK k \in Waiting : x = score[k]
  BY <1>2
<1>5. \A j \in Waiting : score[k] <= score[j]
  <2> SUFFICES ASSUME NEW j \in Waiting PROVE score[k] <= score[j]
    OBVIOUS
  <2>1. score[j] \in T /\ score[k] \in T
    OBVIOUS
  <2>2. score[j] \in Nat /\ score[k] \in Nat
    BY <1>1, <2>1
  <2>3. ~(score[j] < score[k])
    BY <1>3, <1>4, <2>1
  <2> QED BY <2>2, <2>3
<1> QED BY <1>4, <1>5 DEF IsHead, Waiting

(* The two queues are finite, so their cardinalities are numbers. *)
LEMMA QueuesFinite ==
  ASSUME TypeOK
  PROVE  /\ IsFiniteSet(active) /\ Cardinality(active) \in Nat
         /\ IsFiniteSet(Waiting) /\ Cardinality(Waiting) \in Nat
BY QueueAssumption, FS_Subset, FS_CardinalityType DEF TypeOK, Waiting

(* What leaving the FIFO does to the set of waiting jobs and their records. *)
LEMMA LeaveQueueEffect ==
  ASSUME TypeOK, WaitRecords, NEW S \in SUBSET Jobs, LeaveQueue(S)
  PROVE  /\ Waiting' = Waiting \ S
         /\ score' \in [Jobs -> 0 .. MaxSequence]
         /\ timeLeft' \in [Jobs -> -1 .. 2 * WaitTime]
         /\ extended' \in [Jobs -> {"absent", "0", "1"}]
         /\ sequence' = sequence
         /\ WaitRecords'
<1>1. /\ score' \in [Jobs -> 0 .. MaxSequence]
      /\ timeLeft' \in [Jobs -> -1 .. 2 * WaitTime]
      /\ extended' \in [Jobs -> {"absent", "0", "1"}]
      /\ sequence' = sequence
  BY QueueAssumption DEF TypeOK, LeaveQueue
<1>2. Waiting' = Waiting \ S
  BY DEF Waiting, LeaveQueue
<1>3. WaitRecords'
  BY <1>1, <1>2, QueueAssumption DEF TypeOK, WaitRecords, LeaveQueue, Waiting
<1> QED BY <1>1, <1>2, <1>3

LEMMA InitEstablishes == Init => IInv
<1> SUFFICES ASSUME Init PROVE IInv
  OBVIOUS
<1>1. TypeOK
  BY QueueAssumption DEF Init, TypeOK
<1>2. Waiting = {}
  BY DEF Init, Waiting
<1>3. UsersMatchQueues
  BY <1>2, QueueAssumption DEF Init, UsersMatchQueues
<1>4. WithinLimits
  BY <1>2, QueueAssumption, FS_EmptySet DEF Init, WithinLimits
<1>5. NoIdleSlot
  BY <1>2 DEF NoIdleSlot
<1>6. WaitRecords
  BY <1>2, QueueAssumption DEF Init, WaitRecords
<1> QED BY <1>1, <1>3, <1>4, <1>5, <1>6 DEF IInv

LEMMA AdmitActivePreserves ==
  ASSUME IInv, NEW j \in Jobs, NEW consent \in BOOLEAN, AdmitActive(j, consent)
  PROVE  IInv'
<1> USE DEF IInv
<1>1. /\ users[Owner[j]] = NoJob
      /\ Cardinality(active) < ActiveLimit
      /\ active' = active \cup {j}
      /\ users' = [users EXCEPT ![Owner[j]] = j]
      /\ UNCHANGED <<score, timeLeft, extended, sequence>>
  BY DEF AdmitActive, AdmitOutcome
<1>2. Waiting' = Waiting
  BY <1>1 DEF Waiting
<1>3. Waiting = {} /\ j \notin active
  BY <1>1, QueuesFinite, QueueAssumption DEF NoIdleSlot, UsersMatchQueues
<1>4. TypeOK'
  BY <1>1, QueueAssumption DEF TypeOK
<1>5. UsersMatchQueues'
  BY <1>1, <1>2, <1>3, QueueAssumption DEF UsersMatchQueues, TypeOK
<1>6. WithinLimits'
  <2>1. Cardinality(active') = Cardinality(active) + 1
    BY <1>1, <1>3, QueuesFinite, FS_AddElement
  <2>2. Cardinality(Waiting') = Cardinality(Waiting)
    BY <1>2
  <2> QED BY <1>1, <2>1, <2>2, QueuesFinite, QueueAssumption DEF WithinLimits
<1>7. NoIdleSlot'
  BY <1>2, <1>3 DEF NoIdleSlot
<1>8. WaitRecords'
  BY <1>1, <1>2 DEF WaitRecords
<1> QED BY <1>4, <1>5, <1>6, <1>7, <1>8

LEMMA AdmitWaitingPreserves ==
  ASSUME IInv, NEW j \in Jobs, NEW consent \in BOOLEAN, AdmitWaiting(j, consent)
  PROVE  IInv'
<1> USE DEF IInv
<1>1. /\ users[Owner[j]] = NoJob
      /\ ~(Cardinality(active) < ActiveLimit)
      /\ ~(Cardinality(Waiting) >= WaitLimit)
      /\ sequence < MaxSequence
      /\ sequence' = sequence + 1
      /\ score' = [score EXCEPT ![j] = sequence + 1]
      /\ users' = [users EXCEPT ![Owner[j]] = j]
      /\ timeLeft' = [timeLeft EXCEPT ![j] = WaitTime]
      /\ extended' = [extended EXCEPT ![j] = "0"]
      /\ active' = active
  BY DEF AdmitWaiting, AdmitOutcome
<1>2. j \notin active /\ j \notin Waiting
  BY <1>1, QueueAssumption DEF UsersMatchQueues
<1>3. Waiting' = Waiting \cup {j}
  BY <1>1 DEF Waiting, TypeOK
<1>4. TypeOK'
  <2>1. timeLeft' \in [Jobs -> -1 .. 2 * WaitTime]
    BY <1>1, QueueAssumption DEF TypeOK
  <2>2. sequence + 1 \in 0 .. MaxSequence
    BY <1>1, QueueAssumption DEF TypeOK
  <2> QED BY <1>1, <2>1, <2>2, QueueAssumption DEF TypeOK
<1>5. UsersMatchQueues'
  <2>1. active' \cup Waiting' = active \cup Waiting \cup {j}
    BY <1>1, <1>3
  <2>2. active' \cap Waiting' = {}
    BY <1>1, <1>2, <1>3 DEF UsersMatchQueues
  <2>3. \A u \in Users : users'[u] = IF u = Owner[j] THEN j ELSE users[u]
    BY <1>1 DEF TypeOK
  <2>4. \A k \in Jobs : (k \in active' \cup Waiting') <=> users'[Owner[k]] = k
    BY <1>1, <2>1, <2>3, QueueAssumption DEF UsersMatchQueues
  <2>5. \A u \in Users : users'[u] # NoJob => Owner[users'[u]] = u
    BY <2>3 DEF UsersMatchQueues
  <2> QED BY <2>2, <2>4, <2>5 DEF UsersMatchQueues
<1>6. WithinLimits'
  <2>1. Cardinality(Waiting') = Cardinality(Waiting) + 1
    BY <1>2, <1>3, QueuesFinite, FS_AddElement
  <2>2. Cardinality(active') = Cardinality(active)
    BY <1>1
  <2> QED BY <1>1, <2>1, <2>2, QueuesFinite, QueueAssumption DEF WithinLimits
<1>7. NoIdleSlot'
  <2>1. Cardinality(active) = ActiveLimit
    BY <1>1, QueuesFinite, QueueAssumption DEF WithinLimits
  <2> QED BY <1>1, <2>1 DEF NoIdleSlot
<1>8. WaitRecords'
  <2>1. \A k \in Jobs : score[k] <= sequence /\ score[k] \in Nat /\ sequence \in Nat
    BY DEF TypeOK, WaitRecords
  <2>2. \A k \in Jobs : score'[k] = IF k = j THEN sequence + 1 ELSE score[k]
    BY <1>1 DEF TypeOK
  <2>3. \A k, l \in Waiting' : score'[k] = score'[l] => k = l
    BY <1>3, <2>1, <2>2 DEF WaitRecords, Waiting
  <2>4. \A k \in Jobs : score'[k] <= sequence'
    BY <1>1, <2>1, <2>2
  <2>5. \A k \in Jobs : k \in Waiting' <=> extended'[k] # "absent"
    BY <1>1, <1>3 DEF WaitRecords, TypeOK
  <2>6. \A k \in Jobs : extended'[k] = "0" => timeLeft'[k] <= WaitTime
    BY <1>1, QueueAssumption DEF WaitRecords, TypeOK
  <2> QED BY <2>3, <2>4, <2>5, <2>6 DEF WaitRecords
<1> QED BY <1>4, <1>5, <1>6, <1>7, <1>8

LEMMA CancelPreserves ==
  ASSUME IInv, NEW j \in Jobs, Cancel(j)
  PROVE  IInv'
<1> USE DEF IInv
<1>1. /\ users[Owner[j]] = j /\ j \in Waiting
      /\ LeaveQueue({j})
      /\ users' = [users EXCEPT ![Owner[j]] = NoJob]
      /\ active' = active
  BY DEF Cancel, CanCancel
<1>2. Waiting' = Waiting \ {j} /\ WaitRecords'
  BY <1>1, LeaveQueueEffect
<1>3. TypeOK'
  BY <1>1, LeaveQueueEffect, QueueAssumption DEF TypeOK
<1>4. UsersMatchQueues'
  BY <1>1, <1>2, QueueAssumption DEF UsersMatchQueues, TypeOK
<1>5. WithinLimits'
  <2>1. /\ IsFiniteSet(Waiting')
        /\ Cardinality(Waiting') = Cardinality(Waiting) - 1
    BY <1>1, <1>2, QueuesFinite, FS_RemoveElement
  <2> QED BY <1>1, <2>1, QueuesFinite, QueueAssumption DEF WithinLimits
<1>6. NoIdleSlot'
  BY <1>1, <1>2 DEF NoIdleSlot
<1> QED BY <1>2, <1>3, <1>4, <1>5, <1>6

LEMMA ExtendPreserves ==
  ASSUME IInv, NEW j \in Jobs, Extend(j)
  PROVE  IInv'
<1> USE DEF IInv
<1>1. /\ j \in Waiting /\ extended[j] = "0" /\ timeLeft[j] >= 0
      /\ timeLeft' = [timeLeft EXCEPT ![j] = @ + WaitTime]
      /\ extended' = [extended EXCEPT ![j] = "1"]
      /\ UNCHANGED <<active, score, users, sequence>>
  BY DEF Extend, CanExtend
<1>2. Waiting' = Waiting
  BY <1>1 DEF Waiting
<1>3. TypeOK'
  BY <1>1, QueueAssumption DEF TypeOK, WaitRecords
<1>4. UsersMatchQueues' /\ WithinLimits' /\ NoIdleSlot'
  BY <1>1, <1>2 DEF UsersMatchQueues, WithinLimits, NoIdleSlot
<1>5. WaitRecords'
  BY <1>1, <1>2 DEF WaitRecords, TypeOK
<1> QED BY <1>3, <1>4, <1>5

LEMMA SweepPreserves ==
  ASSUME IInv, Sweep
  PROVE  IInv'
<1> USE DEF IInv
<1>1. /\ LeaveQueue(Expired)
      /\ users' = [u \in Users |->
                     IF users[u] \in Expired THEN NoJob ELSE users[u]]
      /\ active' = active
      /\ Expired \in SUBSET Jobs /\ Expired \subseteq Waiting
  BY DEF Sweep, Expired, Waiting
<1>2. Waiting' = Waiting \ Expired /\ WaitRecords'
  BY <1>1, LeaveQueueEffect
<1>3. TypeOK'
  BY <1>1, LeaveQueueEffect, QueueAssumption DEF TypeOK
<1>4. UsersMatchQueues'
  BY <1>1, <1>2, QueueAssumption DEF UsersMatchQueues, TypeOK
<1>5. WithinLimits'
  <2>1. Cardinality(Waiting') <= Cardinality(Waiting) /\ Cardinality(Waiting') \in Nat
    BY <1>2, QueuesFinite, FS_Subset, FS_CardinalityType
  <2> QED BY <1>1, <2>1, QueuesFinite, QueueAssumption DEF WithinLimits
<1>6. NoIdleSlot'
  BY <1>1, <1>2 DEF NoIdleSlot
<1> QED BY <1>2, <1>3, <1>4, <1>5, <1>6

LEMMA CompletePreserves ==
  ASSUME IInv, NEW j \in Jobs, Complete(j)
  PROVE  IInv'
<1> USE DEF IInv
<1>1. /\ j \in active
      /\ active' = (active \ {j}) \cup Promoted(j)
      /\ users' = [users EXCEPT ![Owner[j]] = IF @ = j THEN NoJob ELSE @]
      /\ LeaveQueue(Promoted(j))
      /\ Promoted(j) \in SUBSET Jobs
  BY DEF Complete, Promoted
<1>2. users[Owner[j]] = j
  BY <1>1 DEF UsersMatchQueues
<1>3. Promoted(j) = {k \in Jobs : IsHead(k)}
  BY <1>2 DEF Promoted
<1>4. Waiting' = Waiting \ Promoted(j) /\ WaitRecords'
  BY <1>1, LeaveQueueEffect
<1>5. TypeOK'
  BY <1>1, LeaveQueueEffect, QueueAssumption DEF TypeOK
<1>6. Promoted(j) \subseteq Waiting
  BY <1>3 DEF IsHead
<1>7. UsersMatchQueues'
  BY <1>1, <1>2, <1>4, <1>6, QueueAssumption DEF UsersMatchQueues, TypeOK
<1>8. WithinLimits' /\ NoIdleSlot'
  <2>1. /\ IsFiniteSet(active \ {j})
        /\ Cardinality(active \ {j}) = Cardinality(active) - 1
    BY <1>1, QueuesFinite, FS_RemoveElement
  <2>2. CASE Waiting = {}
    <3>1. Promoted(j) = {} /\ Waiting' = {} /\ active' = active \ {j}
      BY <1>1, <1>4, <1>6, <2>2
    <3> QED BY <2>1, <3>1, QueuesFinite, FS_EmptySet, QueueAssumption
            DEF WithinLimits, NoIdleSlot
  <2>3. CASE Waiting # {}
    <3>1. PICK k \in Jobs : IsHead(k)
      BY <2>3, HeadExists
    <3>2. Promoted(j) = {k}
      BY <1>3, <3>1 DEF IsHead, WaitRecords, TypeOK, Waiting
    <3>3. k \notin active \ {j}
      BY <1>6, <3>2 DEF UsersMatchQueues
    <3>4. Cardinality(active') = Cardinality(active)
      <4>1. Cardinality((active \ {j}) \cup {k}) = Cardinality(active \ {j}) + 1
        BY <2>1, <3>3, FS_AddElement
      <4>2. active' = (active \ {j}) \cup {k}
        BY <1>1, <3>2
      <4> QED BY <2>1, <4>1, <4>2, QueuesFinite
    <3>5. Cardinality(Waiting') = Cardinality(Waiting) - 1
      BY <1>4, <1>6, <3>2, QueuesFinite, FS_RemoveElement
    <3> QED BY <2>3, <3>4, <3>5, QueuesFinite, QueueAssumption
            DEF WithinLimits, NoIdleSlot
  <2> QED BY <2>2, <2>3
<1> QED BY <1>4, <1>5, <1>7, <1>8

LEMMA TickPreserves ==
  ASSUME IInv, Tick
  PROVE  IInv'
<1> USE DEF IInv
<1>1. UNCHANGED <<active, score, users, extended, sequence>>
  BY DEF Tick
<1>2. Waiting' = Waiting
  BY <1>1 DEF Waiting
<1>3. /\ timeLeft' \in [Jobs -> -1 .. 2 * WaitTime]
      /\ \A k \in Jobs : timeLeft'[k] <= timeLeft[k]
  BY QueueAssumption DEF Tick, TypeOK
<1>4. TypeOK'
  BY <1>1, <1>3 DEF TypeOK
<1>5. UsersMatchQueues' /\ WithinLimits' /\ NoIdleSlot'
  BY <1>1, <1>2 DEF UsersMatchQueues, WithinLimits, NoIdleSlot
<1>6. WaitRecords'
  <2>1. \A k \in Jobs : extended'[k] = "0" => timeLeft'[k] <= WaitTime
    BY <1>1, <1>3, QueueAssumption DEF WaitRecords, TypeOK
  <2> QED BY <1>1, <1>2, <2>1 DEF WaitRecords
<1> QED BY <1>4, <1>5, <1>6

LEMMA NextPreserves == IInv /\ [Next]_vars => IInv'
<1> SUFFICES ASSUME IInv, [Next]_vars PROVE IInv'
  OBVIOUS
<1>1. ASSUME NEW j \in Jobs, NEW consent \in BOOLEAN, Admit(j, consent)
      PROVE  IInv'
  <2>1. CASE AdmitActive(j, consent)
    BY <2>1, AdmitActivePreserves
  <2>2. CASE AdmitWaiting(j, consent)
    BY <2>2, AdmitWaitingPreserves
  <2>3. CASE AdmitRefused(j, consent)
    BY <2>3 DEF AdmitRefused, vars, IInv, TypeOK, UsersMatchQueues,
                WithinLimits, NoIdleSlot, WaitRecords, Waiting
  <2> QED BY <1>1, <2>1, <2>2, <2>3 DEF Admit
<1>2. ASSUME NEW j \in Jobs, Cancel(j) PROVE IInv'
  BY <1>2, CancelPreserves
<1>3. ASSUME NEW j \in Jobs, Extend(j) PROVE IInv'
  BY <1>3, ExtendPreserves
<1>4. ASSUME NEW j \in Jobs, Complete(j) PROVE IInv'
  BY <1>4, CompletePreserves
<1>5. CASE Sweep
  BY <1>5, SweepPreserves
<1>6. CASE Tick
  BY <1>6, TickPreserves
<1>7. CASE UNCHANGED vars
  BY <1>7 DEF vars, IInv, TypeOK, UsersMatchQueues,
              WithinLimits, NoIdleSlot, WaitRecords, Waiting
<1> QED BY <1>1, <1>2, <1>3, <1>4, <1>5, <1>6, <1>7 DEF Next

(* The conjunction of the admission invariants is inductive. *)
THEOREM AdmissionInvariant == Spec => []IInv
<1> QED BY InitEstablishes, NextPreserves, PTL DEF Spec

(* Every key of the admission state keeps its type. *)
THEOREM AdmissionTypes == Spec => []TypeOK
<1>1. IInv => TypeOK
  BY DEF IInv
<1> QED BY <1>1, AdmissionInvariant, PTL

(* One active or waiting job per user, however the scripts interleave. *)
THEOREM OneJobPerUser == Spec => []UsersMatchQueues
<1>1. IInv => UsersMatchQueues
  BY DEF IInv
<1> QED BY <1>1, AdmissionInvariant, PTL

(* The limits on slots and on the FIFO hold, whatever they are set to. *)
THEOREM LimitsHold == Spec => []WithinLimits
<1>1. IInv => WithinLimits
  BY DEF IInv
<1> QED BY <1>1, AdmissionInvariant, PTL

(* A slot that is taken is taken by the head of the FIFO, or by a newcomer *)
(* when nobody waits.                                                      *)
LEMMA NextRespectsOrder ==
  ASSUME IInv, Next, NEW j \in Jobs, NEW k \in Jobs,
         j \notin active, j \in active',
         k \in Waiting, j \in Waiting => score[k] < score[j]
  PROVE  k \notin Waiting'
<1> USE DEF IInv
<1>1. ASSUME NEW i \in Jobs, NEW consent \in BOOLEAN, Admit(i, consent)
      PROVE  FALSE
  <2>1. AdmitActive(i, consent)
    BY <1>1 DEF Admit, AdmitWaiting, AdmitRefused, vars
  <2>2. Cardinality(active) < ActiveLimit
    BY <2>1 DEF AdmitActive, AdmitOutcome
  <2> QED BY <2>2, QueuesFinite, QueueAssumption DEF NoIdleSlot
<1>2. ASSUME NEW i \in Jobs, Complete(i)
      PROVE  k \notin Waiting'
  <2>1. j \in Promoted(i)
    BY <1>2 DEF Complete
  <2>2. IsHead(j)
    BY <2>1 DEF Promoted
  <2>3. score[j] <= score[k] /\ score[k] < score[j]
    BY <2>2 DEF IsHead
  <2>4. score[j] \in Nat /\ score[k] \in Nat
    BY DEF TypeOK
  <2> QED BY <2>3, <2>4
<1>3. ASSUME NEW i \in Jobs, Cancel(i) \/ Extend(i) PROVE FALSE
  BY <1>3 DEF Cancel, Extend
<1>4. ~Sweep /\ ~Tick
  BY DEF Sweep, Tick
<1> QED BY <1>1, <1>2, <1>3, <1>4 DEF Next

(* First come, first served, for any number of jobs and any limits. *)
THEOREM FirstComeFirstServed == Spec => NoOvertaking
<1>1. IInv /\ [Next]_vars =>
        [\A j, k \in Jobs :
           /\ j \notin active /\ j \in active'
           /\ k \in Waiting /\ (j \in Waiting => score[k] < score[j])
           => k \notin Waiting']_vars
  BY NextRespectsOrder
<1> QED BY <1>1, AdmissionInvariant, PTL DEF Spec, NoOvertaking

(* A slot is never free while a job waits: promotion loses nobody. *)
THEOREM SlotsStayBusy == Spec => []NoIdleSlot
<1>1. IInv => NoIdleSlot
  BY DEF IInv
<1> QED BY <1>1, AdmissionInvariant, PTL

(* The records of the waits stay consistent: a deadline exactly while a    *)
(* job waits, and no two jobs with one score.                              *)
THEOREM WaitsAreRecorded == Spec => []WaitRecords
<1>1. IInv => WaitRecords
  BY DEF IInv
<1> QED BY <1>1, AdmissionInvariant, PTL

(* What a script leaves alone keeps its budget. *)
LEMMA BudgetUnchanged ==
  ASSUME NEW j \in Jobs, timeLeft'[j] = timeLeft[j], extended'[j] = extended[j]
  PROVE  Budget(j)' = Budget(j)
BY DEF Budget

LEMMA BudgetIsNumber == ASSUME IInv, NEW j \in Jobs PROVE Budget(j) \in Int
BY QueueAssumption DEF IInv, TypeOK, Budget

(* Jobs that stay in the FIFO when others leave it keep their deadline. *)
LEMMA LeaveQueueKeepsBudgets ==
  ASSUME IInv, NEW S \in SUBSET Jobs, LeaveQueue(S), NEW j \in Jobs, j \in Waiting'
  PROVE  j \in Waiting /\ Budget(j)' = Budget(j)
<1>1. j \notin S
  BY DEF LeaveQueue, Waiting
<1>2. timeLeft'[j] = timeLeft[j] /\ extended'[j] = extended[j] /\ score'[j] = score[j]
  BY <1>1 DEF LeaveQueue
<1> QED BY <1>2, BudgetUnchanged DEF Waiting

LEMMA NextKeepsBudgets ==
  ASSUME IInv, Next, NEW j \in Jobs, j \in Waiting'
  PROVE  IF j \in Waiting THEN Budget(j)' <= Budget(j) ELSE Budget(j)' = 2 * WaitTime
<1> DEFINE Kept == j \in Waiting /\ Budget(j)' = Budget(j)
<1>0. Kept => j \in Waiting /\ Budget(j)' <= Budget(j)
  BY BudgetIsNumber
<1> HIDE DEF Kept
<1>1. ASSUME UNCHANGED <<score, timeLeft, extended>> PROVE Kept
  BY <1>1, BudgetUnchanged DEF Kept, Waiting
<1>2. ASSUME NEW i \in Jobs, NEW consent \in BOOLEAN, AdmitWaiting(i, consent)
      PROVE  IF j \in Waiting THEN Kept ELSE Budget(j)' = 2 * WaitTime
  <2>1. CASE j = i
    <3>1. j \notin Waiting
      BY <1>2, <2>1, QueueAssumption DEF AdmitWaiting, AdmitOutcome, IInv, UsersMatchQueues
    <3>2. timeLeft'[j] = WaitTime /\ extended'[j] = "0"
      BY <1>2, <2>1 DEF AdmitWaiting, IInv, TypeOK
    <3> QED BY <3>1, <3>2, QueueAssumption DEF Budget
  <2>2. CASE j # i
    <3>1. timeLeft'[j] = timeLeft[j] /\ extended'[j] = extended[j] /\ score'[j] = score[j]
      BY <1>2, <2>2 DEF AdmitWaiting, IInv, TypeOK
    <3> QED BY <3>1, BudgetUnchanged DEF Kept, Waiting
  <2> QED BY <2>1, <2>2
<1>3. ASSUME NEW i \in Jobs, Cancel(i) PROVE Kept
  BY <1>3, LeaveQueueKeepsBudgets DEF Cancel, Kept
<1>4. ASSUME NEW i \in Jobs, Extend(i) PROVE Kept
  <2>1. j \in Waiting
    BY <1>4 DEF Extend, Waiting
  <2>2. CASE j = i
    <3>1. extended[j] = "0" /\ extended'[j] = "1" /\ timeLeft'[j] = timeLeft[j] + WaitTime
      BY <1>4, <2>2 DEF Extend, CanExtend, IInv, TypeOK
    <3> QED BY <2>1, <3>1, QueueAssumption DEF Budget, Kept, IInv, TypeOK
  <2>3. CASE j # i
    <3>1. timeLeft'[j] = timeLeft[j] /\ extended'[j] = extended[j]
      BY <1>4, <2>3 DEF Extend, IInv, TypeOK
    <3> QED BY <2>1, <3>1, BudgetUnchanged DEF Kept
  <2> QED BY <2>2, <2>3
<1>5. ASSUME NEW i \in Jobs, Complete(i) PROVE Kept
  BY <1>5, LeaveQueueKeepsBudgets DEF Complete, Promoted, Kept
<1>6. ASSUME Sweep PROVE Kept
  BY <1>6, LeaveQueueKeepsBudgets DEF Sweep, Expired, Waiting, Kept
<1>7. CASE Tick
  <2>1. j \in Waiting
    BY <1>7 DEF Tick, Waiting
  <2>2. timeLeft'[j] <= timeLeft[j] /\ timeLeft'[j] \in Int /\ timeLeft[j] \in Int
    BY <1>7, QueueAssumption DEF Tick, IInv, TypeOK
  <2>3. extended'[j] = extended[j]
    BY <1>7 DEF Tick
  <2> QED BY <2>1, <2>2, <2>3, QueueAssumption DEF Budget
<1>8. ASSUME NEW i \in Jobs, NEW consent \in BOOLEAN, Admit(i, consent)
      PROVE  Kept \/ (IF j \in Waiting THEN Kept ELSE Budget(j)' = 2 * WaitTime)
  BY <1>1, <1>2, <1>8 DEF Admit, AdmitActive, AdmitRefused, vars
<1> QED BY <1>0, <1>3, <1>4, <1>5, <1>6, <1>7, <1>8 DEF Next

(* Nobody waits longer than the two periods of the policy. *)
THEOREM BudgetsNeverGrow == Spec => WaitBudgetNeverGrows
<1>1. IInv /\ [Next]_vars =>
        [\A j \in Jobs : j \in Waiting' =>
           IF j \in Waiting THEN Budget(j)' <= Budget(j)
                            ELSE Budget(j)' = 2 * WaitTime]_vars
  BY NextKeepsBudgets
<1> QED BY <1>1, AdmissionInvariant, PTL DEF Spec, WaitBudgetNeverGrows
=============================================================================
