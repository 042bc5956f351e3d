---------------------- MODULE AdmissionLifecycleProofs ----------------------
(***************************************************************************)
(* Proofs about AdmissionLifecycle, for any number of jobs, users and      *)
(* requests, any limits and any number of actors that stop half way.       *)
(*                                                                         *)
(* A job is held when it owns a slot or has ended.  Only the release of a  *)
(* job that has ended frees a slot, and no step opens an ended job again,  *)
(* so a job that is held stays held.  Whatever lets a job be delivered --  *)
(* the answer ACTIVE that a request carries to its commit, an outbox row,  *)
(* a promotion -- is about a held job, hence a delivered job is held, and  *)
(* as it has not ended it owns its slot.                                   *)
(***************************************************************************)
EXTENDS AdmissionLifecycle, FiniteSetTheorems, TLAPS

RequestRecords ==
  [pc : {"idle", "state", "admit", "commit", "cancel", "terminalize"},
   job : Jobs \cup {NoJob}, consent : BOOLEAN, new : BOOLEAN,
   seen : Statuses, outcome : Outcomes]

SweeperRecords == [todo : SUBSET Jobs, job : Jobs \cup {NoJob}, seen : Statuses]

(* What is known of a job with the slots a and the statuses s.             *)
Held(j, a, s) == j \in a \/ s[j] \in Terminal

(* A request works on a job; it creates the job while nobody has, has seen *)
(* a job that was there, or was told that its job is active.               *)
RequestFits(k, a, s) ==
  /\ k.pc # "idle" => k.job \in Jobs
  /\ k.new => k.job \in Jobs /\ s[k.job] = "NONE" /\ k.seen = "NONE"
  /\ k.seen # "NONE" => k.job \in Jobs /\ s[k.job] # "NONE"
  /\ k.pc = "commit" /\ k.outcome = "ACTIVE" => Held(k.job, a, s)

SweeperFits(k, s) ==
  k.seen # "NONE" => k.job \in Jobs /\ s[k.job] # "NONE"

-----------------------------------------------------------------------------
(* The records of the FIFO: a wait that was not extended has at most one   *)
(* period left, so that its extension has at most two.                     *)
QueueInv ==
  /\ Q!TypeOK
  /\ \A j \in Jobs : extended[j] = "0" => timeLeft[j] <= WaitTime

ActorTypes ==
  /\ status \in [Jobs -> Statuses]
  /\ outbox \subseteq Jobs /\ releasing \subseteq Jobs /\ promoted \subseteq Jobs
  /\ request \in [Requests -> RequestRecords]
  /\ sweeper \in SweeperRecords
  /\ failures \in 0 .. MaxFailures

Marked == outbox \cup promoted \cup Delivered

MarkedHeld == \A j \in Marked : Held(j, active, status)
ReleasingEnded == \A j \in releasing : status[j] \in Terminal
RequestsFit == \A r \in Requests : RequestFits(request[r], active, status)
OneCreator ==
  \A q, r \in Requests : request[q].new /\ request[r].new /\ request[q].job = request[r].job
                           => q = r
SweepFits == SweeperFits(sweeper, status)

ActorInv ==
  /\ ActorTypes
  /\ MarkedHeld
  /\ ReleasingEnded
  /\ RequestsFit
  /\ OneCreator
  /\ SweepFits

IInv == QueueInv /\ ActorInv

-----------------------------------------------------------------------------
(* The queue.                                                              *)
LEMMA QueueStarts == Q!Init => QueueInv
<1> SUFFICES ASSUME Q!Init PROVE QueueInv
  OBVIOUS
<1> QED
  BY LifecycleAssumption DEF Q!Init, QueueInv, Q!TypeOK

LEMMA LeavingKeeps ==
  ASSUME QueueInv, NEW S \in SUBSET Jobs, Q!LeaveQueue(S),
         active' \subseteq Jobs, users' \in [Users -> Jobs \cup {NoJob}]
  PROVE  QueueInv'
<1>1. score' \in [Jobs -> 0 .. MaxSequence]
  BY LifecycleAssumption DEF Q!LeaveQueue, QueueInv, Q!TypeOK
<1>2. timeLeft' \in [Jobs -> -1 .. 2 * WaitTime]
  BY LifecycleAssumption DEF Q!LeaveQueue, QueueInv, Q!TypeOK
<1>3. extended' \in [Jobs -> {"absent", "0", "1"}]
  BY DEF Q!LeaveQueue, QueueInv, Q!TypeOK
<1>4. sequence' \in 0 .. MaxSequence
  BY DEF Q!LeaveQueue, QueueInv, Q!TypeOK
<1>5. ASSUME NEW j \in Jobs, extended'[j] = "0" PROVE timeLeft'[j] <= WaitTime
  BY <1>5 DEF Q!LeaveQueue, QueueInv
<1> QED
  BY <1>1, <1>2, <1>3, <1>4, <1>5 DEF QueueInv, Q!TypeOK

LEMMA AdmitKeeps ==
  ASSUME QueueInv, NEW j \in Jobs, NEW consent \in BOOLEAN, Q!Admit(j, consent)
  PROVE  QueueInv'
<1>1. Owner[j] \in Users
  BY LifecycleAssumption
<1>2. CASE Q!AdmitActive(j, consent)
  BY <1>1, <1>2 DEF Q!AdmitActive, QueueInv, Q!TypeOK
<1>3. CASE Q!AdmitWaiting(j, consent)
  <2> USE DEF Q!AdmitWaiting, QueueInv, Q!TypeOK
  <2>1. sequence' \in 0 .. MaxSequence /\ score' \in [Jobs -> 0 .. MaxSequence]
    BY <1>3, LifecycleAssumption
  <2>2. users' \in [Users -> Jobs \cup {NoJob}] /\ active' \subseteq Jobs
    BY <1>1, <1>3
  <2>3. WaitTime \in -1 .. 2 * WaitTime
    BY LifecycleAssumption
  <2>4. timeLeft' \in [Jobs -> -1 .. 2 * WaitTime]
    BY <1>3, <2>3
  <2>5. extended' \in [Jobs -> {"absent", "0", "1"}]
    BY <1>3
  <2>6. ASSUME NEW i \in Jobs, extended'[i] = "0" PROVE timeLeft'[i] <= WaitTime
    BY <1>3, <2>6, LifecycleAssumption
  <2> QED
    BY <2>1, <2>2, <2>4, <2>5, <2>6
<1>4. CASE Q!AdmitRefused(j, consent)
  BY <1>4 DEF Q!AdmitRefused, Q!vars, QueueInv, Q!TypeOK
<1> QED
  BY <1>2, <1>3, <1>4 DEF Q!Admit

LEMMA QueueKeeps ==
  ASSUME QueueInv, [Q!Next]_(Q!vars)
  PROVE  QueueInv'
<1>1. ASSUME NEW j \in Jobs, NEW consent \in BOOLEAN, Q!Admit(j, consent)
      PROVE  QueueInv'
  BY <1>1, AdmitKeeps
<1>2. ASSUME NEW j \in Jobs, Q!Cancel(j)
      PROVE  QueueInv'
  <2>1. /\ Q!LeaveQueue({j}) /\ {j} \subseteq Jobs /\ active' = active
        /\ users' = [users EXCEPT ![Owner[j]] = NoJob]
    BY <1>2 DEF Q!Cancel
  <2>2. active' \subseteq Jobs /\ users' \in [Users -> Jobs \cup {NoJob}]
    BY <2>1 DEF QueueInv, Q!TypeOK
  <2> QED
    BY <2>1, <2>2, LeavingKeeps
<1>3. ASSUME NEW j \in Jobs, Q!Extend(j)
      PROVE  QueueInv'
  <2> USE DEF QueueInv, Q!TypeOK
  <2>1. /\ timeLeft' = [timeLeft EXCEPT ![j] = timeLeft[j] + WaitTime]
        /\ extended' = [extended EXCEPT ![j] = "1"]
        /\ UNCHANGED <<active, score, users, sequence>>
    BY <1>3 DEF Q!Extend
  <2>2. timeLeft[j] + WaitTime \in -1 .. 2 * WaitTime
    BY <1>3, LifecycleAssumption DEF Q!Extend, Q!CanExtend
  <2>3. timeLeft' \in [Jobs -> -1 .. 2 * WaitTime]
    BY <2>1, <2>2
  <2>4. ASSUME NEW i \in Jobs, extended'[i] = "0" PROVE timeLeft'[i] <= WaitTime
    BY <2>1, <2>4
  <2> QED
    BY <2>1, <2>3, <2>4
<1>4. ASSUME NEW j \in Jobs, Q!Complete(j)
      PROVE  QueueInv'
  <2>1. Q!LeaveQueue(Q!Promoted(j)) /\ Q!Promoted(j) \subseteq Jobs
    BY <1>4 DEF Q!Complete, Q!Promoted
  <2>2. active' \subseteq Jobs /\ users' \in [Users -> Jobs \cup {NoJob}]
    BY <1>4, <2>1 DEF Q!Complete, QueueInv, Q!TypeOK
  <2> QED
    BY <2>1, <2>2, LeavingKeeps
<1>5. CASE Q!Sweep
  <2>1. Q!LeaveQueue(Q!Expired) /\ Q!Expired \subseteq Jobs
    BY <1>5 DEF Q!Sweep, Q!Expired, Q!Waiting
  <2>2. active' \subseteq Jobs /\ users' \in [Users -> Jobs \cup {NoJob}]
    BY <1>5 DEF Q!Sweep, QueueInv, Q!TypeOK
  <2> QED
    BY <2>1, <2>2, LeavingKeeps
<1>6. CASE Q!Tick
  <2> USE DEF QueueInv, Q!TypeOK
  <2>1. /\ UNCHANGED <<active, score, users, extended, sequence>>
        /\ timeLeft' = [j \in Jobs |-> IF j \in Q!Waiting /\ timeLeft[j] >= 0
                                       THEN timeLeft[j] - 1 ELSE timeLeft[j]]
    BY <1>6 DEF Q!Tick
  <2>2. \A j \in Jobs : timeLeft'[j] \in -1 .. 2 * WaitTime /\ timeLeft'[j] <= timeLeft[j]
    BY <2>1, LifecycleAssumption
  <2>3. timeLeft' \in [Jobs -> -1 .. 2 * WaitTime]
    BY <2>1, <2>2
  <2>4. ASSUME NEW i \in Jobs, extended'[i] = "0" PROVE timeLeft'[i] <= WaitTime
    BY <2>1, <2>2, <2>4, LifecycleAssumption
  <2> QED
    BY <2>1, <2>3, <2>4
<1>7. CASE UNCHANGED Q!vars
  BY <1>7 DEF Q!vars, QueueInv, Q!TypeOK
<1> QED
  BY <1>1, <1>2, <1>3, <1>4, <1>5, <1>6, <1>7 DEF Q!Next

-----------------------------------------------------------------------------
(* What no step undoes: an end, an inserted row, a slot of an open job.    *)
Advance ==
  /\ \A j \in Jobs : status[j] \in Terminal => status'[j] \in Terminal
  /\ \A j \in Jobs : status[j] # "NONE" => status'[j] # "NONE"
  /\ \A j \in active : Held(j, active', status')

LEMMA HeldStays ==
  ASSUME IInv, Advance, NEW j \in Jobs, Held(j, active, status)
  PROVE  Held(j, active', status')
BY DEF Advance, Held

(* Known jobs are jobs. *)
LEMMA KnownJobs ==
  ASSUME IInv
  PROVE  active \subseteq Jobs /\ Marked \subseteq Jobs /\ releasing \subseteq Jobs
BY DEF IInv, QueueInv, Q!TypeOK, ActorInv, ActorTypes, Marked, Delivered

LEMMA SameStatus ==
  ASSUME IInv, status' = status, \A j \in active : j \in active' \/ status[j] \in Terminal
  PROVE  Advance
BY DEF Advance, Held

(* A request that does not move fits while its job stays as it was.        *)
LEMMA FitsStays ==
  ASSUME IInv, Advance, NEW q \in Requests,
         request[q].new => status'[request[q].job] = status[request[q].job]
  PROVE  RequestFits(request[q], active', status')
<1>1. RequestFits(request[q], active, status)
      /\ (request[q].pc # "idle" => request[q].job \in Jobs)
  BY DEF IInv, ActorInv, RequestsFit, RequestFits
<1>2. request[q].job \in Jobs /\ Held(request[q].job, active, status) =>
        Held(request[q].job, active', status')
  BY HeldStays
<1> QED
  BY <1>1, <1>2 DEF RequestFits, Advance

LEMMA RequestsStay ==
  ASSUME IInv, Advance, request' = request,
         \A j \in Jobs : status[j] = "NONE" => status'[j] = "NONE"
  PROVE  RequestsFit' /\ OneCreator'
<1>1. ASSUME NEW q \in Requests PROVE RequestFits(request[q], active', status')
  <2>1. request[q].new => status'[request[q].job] = status[request[q].job]
    BY DEF IInv, ActorInv, RequestsFit, RequestFits
  <2> QED
    BY <2>1, FitsStays
<1> QED
  BY <1>1 DEF IInv, ActorInv, RequestsFit, OneCreator

LEMMA RequestMoves ==
  ASSUME IInv, Advance, NEW r \in Requests, NEW k \in RequestRecords,
         request' = [request EXCEPT ![r] = k], RequestFits(k, active', status'),
         \A j \in Jobs : status[j] = "NONE" /\ status'[j] # "NONE" =>
                            request[r].new /\ request[r].job = j,
         k.new => \A q \in Requests \ {r} : ~(request[q].new /\ request[q].job = k.job)
  PROVE  request' \in [Requests -> RequestRecords] /\ RequestsFit' /\ OneCreator'
<1>1. request \in [Requests -> RequestRecords]
  BY DEF IInv, ActorInv, ActorTypes
<1>2. \A q \in Requests : request'[q] = IF q = r THEN k ELSE request[q]
  BY <1>1
<1>3. ASSUME NEW q \in Requests, q # r PROVE RequestFits(request[q], active', status')
  <2>1. request[q].new => request[q].job \in Jobs /\ status[request[q].job] = "NONE"
    BY DEF IInv, ActorInv, RequestsFit, RequestFits
  <2>2. ~(request[q].new /\ request[r].new /\ request[q].job = request[r].job)
    BY <1>3 DEF IInv, ActorInv, OneCreator
  <2> QED
    BY <2>1, <2>2, FitsStays
<1>4. RequestsFit'
  BY <1>2, <1>3 DEF RequestsFit
<1>5. OneCreator'
  BY <1>2 DEF IInv, ActorInv, OneCreator
<1> QED
  BY <1>1, <1>4, <1>5

(* What is marked, and what is to be released, after a step.               *)
LEMMA MarksFollow ==
  ASSUME IInv, Advance,
         \A j \in Marked' : j \in Marked \/ Held(j, active', status'),
         \A j \in releasing' : j \in releasing \/ status'[j] \in Terminal
  PROVE  MarkedHeld' /\ ReleasingEnded'
<1>1. \A j \in Marked : Held(j, active', status')
  BY KnownJobs, HeldStays DEF IInv, ActorInv, MarkedHeld
<1>2. \A j \in releasing : status'[j] \in Terminal
  BY KnownJobs DEF IInv, ActorInv, ReleasingEnded, Advance
<1> QED
  BY <1>1, <1>2 DEF MarkedHeld, ReleasingEnded

LEMMA SweeperStays ==
  ASSUME IInv, Advance, sweeper' = sweeper
  PROVE  SweepFits'
BY DEF IInv, ActorInv, SweepFits, SweeperFits, Advance

-----------------------------------------------------------------------------
(* Four kinds of steps.  A request that reads, or asks Redis.              *)
LEMMA RequestWorks ==
  ASSUME IInv, NEW r \in Requests, NEW k \in RequestRecords,
         request' = [request EXCEPT ![r] = k], RequestFits(k, active', status),
         k.new => \A q \in Requests \ {r} : ~(request[q].new /\ request[q].job = k.job),
         UNCHANGED <<database, releasing, promoted, sweeper, failures>>,
         active \subseteq active'
  PROVE  ActorInv' /\ Advance
<1>1. status' = status /\ UNCHANGED <<outbox, releasing, promoted, sweeper, failures>>
  BY DEF database
<1>2. Advance
  BY <1>1, SameStatus
<1>3. request' \in [Requests -> RequestRecords] /\ RequestsFit' /\ OneCreator'
  BY <1>1, <1>2, RequestMoves
<1>4. MarkedHeld' /\ ReleasingEnded'
  BY <1>1, <1>2, MarksFollow DEF Marked, Delivered
<1>5. SweepFits'
  BY <1>1, <1>2, SweeperStays
<1>6. ActorTypes'
  BY <1>1, <1>3 DEF IInv, ActorInv, ActorTypes
<1> QED
  BY <1>2, <1>3, <1>4, <1>5, <1>6 DEF ActorInv

(* A request that returns, its transaction committed or rolled back.       *)
LEMMA RequestReturns ==
  ASSUME IInv, NEW r \in Requests, NEW j \in Jobs, j = request[r].job, NEW x \in Statuses,
         status' = [status EXCEPT ![j] = x],
         \/ x = status[j]
         \/ x = "CANCELLED" /\ status[j] # "NONE"
         \/ x \in {"PENDING", "LOST"} /\ request[r].new,
         Return(r), UNCHANGED <<active, releasing, promoted, sweeper>>,
         failures' \in 0 .. MaxFailures, outbox' \in {outbox, outbox \cup {j}},
         j \in outbox' => j \in outbox \/ Held(j, active, status)
  PROVE  ActorInv' /\ Advance
<1>1. status \in [Jobs -> Statuses]
  BY DEF IInv, ActorInv, ActorTypes
<1>2. \A i \in Jobs : status'[i] = IF i = j THEN x ELSE status[i]
  BY <1>1
<1>3. request[r].new => status[j] = "NONE"
  BY DEF IInv, ActorInv, RequestsFit, RequestFits
<1>4. Advance
  <2>1. status[j] \in Terminal => x \in Terminal
    BY <1>3 DEF Terminal
  <2>2. status[j] # "NONE" => x # "NONE"
    BY <1>3
  <2> QED
    BY <1>2, <2>1, <2>2 DEF Advance, Held
<1>5. request' \in [Requests -> RequestRecords] /\ RequestsFit' /\ OneCreator'
  <2>1. IdleRequest \in RequestRecords
    BY FALSE \in BOOLEAN DEF IdleRequest, RequestRecords, Statuses, Outcomes
  <2>2. RequestFits(IdleRequest, active', status') /\ ~IdleRequest.new
    BY DEF IdleRequest, RequestFits
  <2>3. \A i \in Jobs : status[i] = "NONE" /\ status'[i] # "NONE" =>
                           request[r].new /\ request[r].job = i
    BY <1>2
  <2>4. request' = [request EXCEPT ![r] = IdleRequest]
    BY DEF Return
  <2> HIDE DEF IdleRequest
  <2> QED
    BY <1>4, <2>1, <2>2, <2>3, <2>4, RequestMoves
<1>6. MarkedHeld' /\ ReleasingEnded'
  <2>1. \A i \in Delivered' : i \in Delivered
    BY <1>2, <1>3 DEF Delivered
  <2>2. j \in outbox' => j \in outbox \/ Held(j, active', status')
    BY <1>4, HeldStays
  <2> QED
    BY <1>4, <2>1, <2>2, MarksFollow DEF Marked
<1>7. SweepFits'
  BY <1>4, SweeperStays
<1>8. ActorTypes'
  BY <1>1, <1>2, <1>5 DEF IInv, ActorInv, ActorTypes
<1> QED
  BY <1>4, <1>5, <1>6, <1>7, <1>8 DEF ActorInv

(* A release, a promotion or a sweep, which writes no status.              *)
LEMMA OthersWork ==
  ASSUME IInv, UNCHANGED <<status, request>>,
         \A j \in active : j \in active' \/ status[j] \in Terminal,
         outbox' \subseteq Jobs, promoted' \subseteq Jobs, releasing' \subseteq releasing,
         \A j \in outbox' \cup promoted' : j \in Marked \/ Held(j, active', status),
         failures' \in 0 .. MaxFailures,
         sweeper' \in SweeperRecords, SweeperFits(sweeper', status)
  PROVE  ActorInv' /\ Advance
<1>1. Advance
  BY SameStatus
<1>2. RequestsFit' /\ OneCreator'
  BY <1>1, RequestsStay
<1>3. MarkedHeld' /\ ReleasingEnded'
  <2>1. \A j \in Marked' : j \in Marked \/ Held(j, active', status')
    BY DEF Marked, Delivered
  <2> QED
    BY <1>1, <2>1, MarksFollow
<1>4. SweepFits'
  BY DEF SweepFits
<1>5. ActorTypes'
  BY DEF IInv, ActorInv, ActorTypes
<1> QED
  BY <1>1, <1>2, <1>3, <1>4, <1>5 DEF ActorInv

(* A publication, a claim or an end, which writes the status of one job.   *)
LEMMA StatusMoves ==
  ASSUME IInv, NEW j \in Jobs, NEW x \in Statuses \ {"NONE"},
         status' = [status EXCEPT ![j] = x],
         status[j] # "NONE", status[j] \in Terminal => x \in Terminal,
         x \in {"QUEUED", "RUNNING"} => Held(j, active, status),
         UNCHANGED <<active, outbox, request, promoted, failures>>,
         \/ releasing' = releasing
         \/ releasing' = releasing \cup {j} /\ x \in Terminal,
         sweeper' \in SweeperRecords, SweeperFits(sweeper', status')
  PROVE  ActorInv' /\ Advance
<1>1. status \in [Jobs -> Statuses]
  BY DEF IInv, ActorInv, ActorTypes
<1>2. \A i \in Jobs : status'[i] = IF i = j THEN x ELSE status[i]
  BY <1>1
<1>3. Advance
  BY <1>2 DEF Advance, Held
<1>4. RequestsFit' /\ OneCreator'
  BY <1>2, <1>3, RequestsStay
<1>5. MarkedHeld' /\ ReleasingEnded'
  <2>1. \A i \in Delivered' : i \in Delivered \/ Held(i, active', status')
    BY <1>2, <1>3, HeldStays DEF Delivered
  <2>2. \A i \in releasing' : i \in releasing \/ status'[i] \in Terminal
    BY <1>2
  <2> QED
    BY <1>3, <2>1, <2>2, MarksFollow DEF Marked
<1>6. SweepFits'
  BY DEF SweepFits
<1>7. ActorTypes'
  BY <1>1, <1>2 DEF IInv, ActorInv, ActorTypes
<1> QED
  BY <1>3, <1>4, <1>5, <1>6, <1>7 DEF ActorInv

-----------------------------------------------------------------------------
(* Requests.                                                               *)
LEMMA RequestKinds ==
  ASSUME IInv, NEW r \in Requests
  PROVE  /\ request[r] \in RequestRecords
         /\ RequestFits(request[r], active, status)
         /\ request[r].pc # "idle" => request[r].job \in Jobs
         /\ request[r].new =>
              \A q \in Requests \ {r} : ~(request[q].new /\ request[q].job = request[r].job)
BY DEF IInv, ActorInv, ActorTypes, RequestsFit, RequestFits, OneCreator

LEMMA BeginKeeps ==
  ASSUME IInv, NEW r \in Requests, NEW j \in Jobs, NEW consent \in BOOLEAN,
         NEW pc \in {"state", "cancel"}, Begin(r, pc, j, consent),
         status[j] = "NONE" => \A q \in Requests : ~(request[q].new /\ request[q].job = j),
         UNCHANGED <<redis, database, releasing, promoted, sweeper, failures>>
  PROVE  ActorInv' /\ Advance
<1> DEFINE k == [pc |-> pc, job |-> j, consent |-> consent, new |-> status[j] = "NONE",
                 seen |-> status[j], outcome |-> "none"]
<1>1. k \in RequestRecords
  <2>1. status[j] \in Statuses /\ (status[j] = "NONE") \in BOOLEAN
    BY DEF IInv, ActorInv, ActorTypes
  <2> QED
    BY <2>1 DEF RequestRecords, Outcomes
<1>2. /\ RequestFits(k, active', status) /\ k.job = j
      /\ k.new => status[j] = "NONE"
  BY DEF RequestFits
<1>3. request' = [request EXCEPT ![r] = k]
  BY DEF Begin
<1>4. active' = active
  BY DEF redis
<1> HIDE DEF k
<1> QED
  BY <1>1, <1>2, <1>3, <1>4, RequestWorks

LEMMA BeginningsKeep ==
  ASSUME IInv, NEW r \in Requests, NEW j \in Jobs,
         (\E consent \in BOOLEAN : BeginIngest(r, j, consent))
           \/ BeginConsent(r, j) \/ BeginCancel(r, j)
  PROVE  ActorInv' /\ Advance
<1>1. ASSUME NEW consent \in BOOLEAN, BeginIngest(r, j, consent)
      PROVE  ActorInv' /\ Advance
  BY <1>1, BeginKeeps DEF BeginIngest
<1>2. CASE BeginConsent(r, j)
  <2>1. TRUE \in BOOLEAN /\ "PENDING" # "NONE"
    OBVIOUS
  <2> QED
    BY <1>2, <2>1, BeginKeeps DEF BeginConsent
<1>3. CASE BeginCancel(r, j)
  <2>1. FALSE \in BOOLEAN
    OBVIOUS
  <2> QED
    BY <1>3, <2>1, BeginKeeps DEF BeginCancel
<1> QED
  BY <1>1, <1>2, <1>3

(* Only the release of a job takes a slot away. *)
LEMMA SlotsStay ==
  ASSUME NEW j \in Jobs, NEW consent \in BOOLEAN,
         Q!Admit(j, consent) \/ Q!Cancel(j) \/ Q!Extend(j) \/ Q!Sweep \/ Q!Tick
  PROVE  active \subseteq active'
BY DEF Q!Admit, Q!AdmitActive, Q!AdmitWaiting, Q!AdmitRefused, Q!vars, Q!Cancel,
   Q!Extend, Q!Sweep, Q!Tick

LEMMA AskStateKeeps ==
  ASSUME IInv, NEW r \in Requests, AskState(r)
  PROVE  ActorInv' /\ Advance
<1> DEFINE j == request[r].job
           known == CASE j \in active     -> "ACTIVE"
                      [] j \in Q!Waiting  -> "WAITING"
                      [] OTHER            -> "none"
           k == [request[r] EXCEPT !.outcome = known,
                                   !.pc = IF known = "none" THEN "admit" ELSE "commit"]
<1>1. /\ request[r].pc = "state" /\ UNCHANGED <<redis, database, releasing, promoted, sweeper, failures>>
      /\ request' = [request EXCEPT ![r].outcome = known,
                         ![r].pc = IF known = "none" THEN "admit" ELSE "commit"]
  BY DEF AskState
<1>2. known \in {"ACTIVE", "WAITING", "none"} /\ (known = "ACTIVE" => j \in active)
  OBVIOUS
<1> HIDE DEF known
<1>3. request[r] \in RequestRecords
  BY RequestKinds
<1>4. /\ k \in RequestRecords /\ k.pc # "idle" /\ k.outcome = known
      /\ k.job = request[r].job /\ k.new = request[r].new /\ k.seen = request[r].seen
  BY <1>2, <1>3 DEF RequestRecords, Outcomes
<1>5. request' = [request EXCEPT ![r] = k]
  BY <1>1, <1>3 DEF RequestRecords
<1>6. active' = active
  BY <1>1 DEF redis
<1> HIDE DEF k
<1>7. RequestFits(k, active', status)
  BY <1>1, <1>2, <1>4, <1>6, RequestKinds DEF RequestFits, Held
<1>8. k.new => \A q \in Requests \ {r} : ~(request[q].new /\ request[q].job = k.job)
  BY <1>4, RequestKinds
<1>9. active \subseteq active'
  BY <1>6
<1> QED
  BY <1>1, <1>4, <1>5, <1>7, <1>8, <1>9, RequestWorks

LEMMA AskAdmissionKeeps ==
  ASSUME IInv, NEW r \in Requests, AskAdmission(r)
  PROVE  ActorInv' /\ Advance
<1> DEFINE j == request[r].job
           outcome == Q!AdmitOutcome(j, request[r].consent)
           k == [request[r] EXCEPT !.outcome = outcome, !.pc = "commit"]
<1>1. /\ request[r].pc = "admit" /\ UNCHANGED <<database, releasing, promoted, sweeper, failures>>
      /\ Q!Admit(j, request[r].consent)
      /\ request' = [request EXCEPT ![r].outcome = outcome, ![r].pc = "commit"]
  BY DEF AskAdmission
<1>2. outcome \in Outcomes
  BY DEF Outcomes, Q!AdmitOutcome
<1>3. request[r] \in RequestRecords /\ j \in Jobs /\ request[r].consent \in BOOLEAN
  BY <1>1, RequestKinds DEF RequestRecords
<1>4. active \subseteq active'
  BY <1>1, <1>3, SlotsStay
<1>5. outcome = "ACTIVE" => j \in active'
  BY <1>1 DEF Q!Admit, Q!AdmitActive, Q!AdmitWaiting, Q!AdmitRefused
<1> HIDE DEF outcome
<1>6. /\ k \in RequestRecords /\ k.pc = "commit" /\ k.outcome = outcome
      /\ k.job = request[r].job /\ k.new = request[r].new /\ k.seen = request[r].seen
  BY <1>2, <1>3 DEF RequestRecords
<1>7. request' = [request EXCEPT ![r] = k]
  BY <1>1, <1>3 DEF RequestRecords
<1> HIDE DEF k
<1>8. RequestFits(k, active', status)
  BY <1>1, <1>3, <1>5, <1>6, RequestKinds DEF RequestFits, Held
<1>9. k.new => \A q \in Requests \ {r} : ~(request[q].new /\ request[q].job = k.job)
  BY <1>6, RequestKinds
<1> QED
  BY <1>1, <1>4, <1>6, <1>7, <1>8, <1>9, RequestWorks

LEMMA CommitAdmissionKeeps ==
  ASSUME IInv, NEW r \in Requests, CommitAdmission(r)
  PROVE  ActorInv' /\ Advance
<1> DEFINE j == request[r].job
<1>1. /\ request[r].pc = "commit" /\ Return(r)
      /\ UNCHANGED <<redis, releasing, promoted, sweeper, failures>>
  BY DEF CommitAdmission
<1>2. j \in Jobs /\ status[j] \in Statuses /\ failures' \in 0 .. MaxFailures /\ active' = active
  BY <1>1, RequestKinds DEF IInv, ActorInv, ActorTypes, redis
<1>3. request[r].outcome = "ACTIVE" => Held(j, active, status)
  BY <1>1, RequestKinds DEF RequestFits
<1>4. PICK x \in {"PENDING", "LOST"} :
        /\ status' = [status EXCEPT ![j] = IF request[r].new THEN x ELSE status[j]]
        /\ \/ outbox' = outbox
           \/ outbox' = outbox \cup {j} /\ request[r].outcome = "ACTIVE"
  <2>1. CASE request[r].outcome \in {"QUEUE_FULL", "USER_BUSY"}
    BY <2>1 DEF CommitAdmission, RolledBack
  <2>2. CASE request[r].outcome \notin {"QUEUE_FULL", "USER_BUSY"}
    BY <2>2 DEF CommitAdmission, Deliverable
  <2> QED
    BY <2>1, <2>2
<1>5. "PENDING" \in Statuses /\ "LOST" \in Statuses
  BY DEF Statuses
<1> HIDE DEF j
<1> QED
  BY <1>1, <1>2, <1>3, <1>4, <1>5, RequestReturns DEF j

LEMMA CancelInRedisKeeps ==
  ASSUME IInv, NEW r \in Requests, CancelInRedis(r)
  PROVE  ActorInv' /\ Advance
<1>1. /\ request[r].pc = "cancel" /\ UNCHANGED <<database, releasing, promoted, sweeper, failures>>
      /\ request[r] \in RequestRecords /\ request[r].job \in Jobs
  BY RequestKinds DEF CancelInRedis
<1>2. CASE /\ Q!Cancel(request[r].job)
           /\ request' = [request EXCEPT ![r].pc = "terminalize"]
  <2> DEFINE k == [request[r] EXCEPT !.pc = "terminalize"]
  <2>1. /\ k \in RequestRecords /\ k.pc = "terminalize"
        /\ k.job = request[r].job /\ k.new = request[r].new /\ k.seen = request[r].seen
    BY <1>1 DEF RequestRecords
  <2>2. request' = [request EXCEPT ![r] = k]
    BY <1>1, <1>2 DEF RequestRecords
  <2> HIDE DEF k
  <2>3. RequestFits(k, active', status)
    BY <1>1, <2>1, RequestKinds DEF RequestFits
  <2>4. active \subseteq active'
    BY <1>1, <1>2 DEF Q!Cancel
  <2>5. k.new => \A q \in Requests \ {r} : ~(request[q].new /\ request[q].job = k.job)
    BY <2>1, RequestKinds
  <2> QED
    BY <1>1, <2>1, <2>2, <2>3, <2>4, <2>5, RequestWorks
<1>3. CASE Return(r) /\ UNCHANGED redis
  <2>1. IdleRequest \in RequestRecords
    BY FALSE \in BOOLEAN DEF IdleRequest, RequestRecords, Statuses, Outcomes
  <2>2. RequestFits(IdleRequest, active', status) /\ ~IdleRequest.new
    BY DEF IdleRequest, RequestFits
  <2>3. request' = [request EXCEPT ![r] = IdleRequest] /\ active' = active
    BY <1>3 DEF Return, redis
  <2> HIDE DEF IdleRequest
  <2> QED
    BY <1>1, <2>1, <2>2, <2>3, RequestWorks
<1> QED
  BY <1>2, <1>3 DEF CancelInRedis

LEMMA CommitCancelKeeps ==
  ASSUME IInv, NEW r \in Requests, CommitCancel(r)
  PROVE  ActorInv' /\ Advance
<1> DEFINE j == request[r].job
           x == IF request[r].seen \in {"PENDING", "QUEUED"} THEN "CANCELLED" ELSE status[j]
<1>1. /\ request[r].pc = "terminalize" /\ Return(r)
      /\ status' = [status EXCEPT ![j] = x]
      /\ UNCHANGED <<redis, outbox, releasing, promoted, sweeper, failures>>
  BY DEF CommitCancel
<1>2. j \in Jobs /\ status[j] \in Statuses /\ failures' \in 0 .. MaxFailures /\ active' = active
  BY <1>1, RequestKinds DEF IInv, ActorInv, ActorTypes, redis
<1>3. x = status[j] \/ (x = "CANCELLED" /\ status[j] # "NONE")
  BY RequestKinds DEF RequestFits
<1>4. x \in Statuses
  BY <1>2 DEF Statuses, Terminal
<1> HIDE DEF j, x
<1> QED
  BY <1>1, <1>2, <1>3, <1>4, RequestReturns DEF j

LEMMA RequestFailsKeeps ==
  ASSUME IInv, NEW r \in Requests, RequestFails(r)
  PROVE  ActorInv' /\ Advance
<1> DEFINE j == request[r].job
           x == IF request[r].new THEN "LOST" ELSE status[j]
<1>1. /\ request[r].pc # "idle" /\ Return(r) /\ failures < MaxFailures
      /\ failures' = failures + 1 /\ status' = [status EXCEPT ![j] = x]
      /\ UNCHANGED <<redis, outbox, releasing, promoted, sweeper>>
  BY DEF RequestFails, RolledBack
<1>2. failures \in 0 .. MaxFailures /\ MaxFailures \in Nat
  BY LifecycleAssumption DEF IInv, ActorInv, ActorTypes
<1>3. failures' \in 0 .. MaxFailures
  BY <1>1, <1>2
<1>4. j \in Jobs /\ status[j] \in Statuses /\ active' = active
  BY <1>1, RequestKinds DEF IInv, ActorInv, ActorTypes, redis
<1>5. x \in Statuses /\ (x = status[j] \/ (x = "LOST" /\ request[r].new))
  BY <1>4 DEF Statuses
<1> HIDE DEF j, x
<1> QED
  BY <1>1, <1>3, <1>4, <1>5, RequestReturns DEF j

-----------------------------------------------------------------------------
(* Releases, promotions, the sweep and the clock.                          *)
LEMMA ActorKinds ==
  ASSUME IInv
  PROVE  /\ outbox \subseteq Jobs /\ promoted \subseteq Jobs /\ releasing \subseteq Jobs
         /\ outbox \cup promoted \subseteq Marked
         /\ failures \in 0 .. MaxFailures /\ sweeper \in SweeperRecords
         /\ SweeperFits(sweeper, status)
         /\ \A j \in releasing : status[j] \in Terminal
         /\ \A j \in Marked : Held(j, active, status)
BY DEF IInv, ActorInv, ActorTypes, Marked, SweepFits, ReleasingEnded, MarkedHeld

LEMMA OneMoreFailure ==
  ASSUME IInv, failures < MaxFailures, failures' = failures + 1
  PROVE  failures' \in 0 .. MaxFailures
BY LifecycleAssumption DEF IInv, ActorInv, ActorTypes

LEMMA QueueOnlyKeeps ==
  ASSUME IInv, (\E j \in Jobs : Extend(j)) \/ Tick
  PROVE  ActorInv' /\ Advance
<1>1. /\ active' = active
      /\ UNCHANGED <<status, request, outbox, releasing, promoted, sweeper, failures>>
  BY DEF Extend, Tick, Q!Extend, Q!Tick, database
<1> QED
  BY <1>1, ActorKinds, OthersWork

LEMMA ReleaseSlotKeeps ==
  ASSUME IInv, NEW j \in Jobs, ReleaseSlot(j)
  PROVE  ActorInv' /\ Advance
<1>1. /\ j \in releasing /\ releasing' = releasing \ {j}
      /\ UNCHANGED <<status, outbox, request, sweeper, failures>>
  BY DEF ReleaseSlot, database
<1>2. \/ active' = (active \ {j}) \cup Q!Promoted(j) /\ promoted' = promoted \cup Q!Promoted(j)
      \/ active' = active /\ promoted' = promoted
  BY DEF ReleaseSlot, Q!Complete, redis
<1>3. Q!Promoted(j) \subseteq Jobs
  BY DEF Q!Promoted
<1>4. \A i \in active : i \in active' \/ status[i] \in Terminal
  BY <1>1, <1>2, ActorKinds
<1>5. /\ promoted' \subseteq Jobs
      /\ \A i \in outbox' \cup promoted' : i \in Marked \/ Held(i, active', status)
  BY <1>1, <1>2, <1>3, ActorKinds DEF Held
<1>6. releasing' \subseteq releasing /\ sweeper' \in SweeperRecords /\ SweeperFits(sweeper', status)
      /\ failures' \in 0 .. MaxFailures /\ outbox' \subseteq Jobs
  BY <1>1, ActorKinds
<1> QED
  BY <1>1, <1>4, <1>5, <1>6, OthersWork

LEMMA EnsurePromotedOutboxKeeps ==
  ASSUME IInv, NEW j \in Jobs, EnsurePromotedOutbox(j)
  PROVE  ActorInv' /\ Advance
<1>1. /\ j \in promoted /\ promoted' = promoted \ {j} /\ outbox' \in {outbox, outbox \cup {j}}
      /\ UNCHANGED <<active, status, request, releasing, sweeper, failures>>
  BY DEF EnsurePromotedOutbox, redis
<1> QED
  BY <1>1, ActorKinds, OthersWork

LEMMA FailuresKeep ==
  ASSUME IInv, (\E j \in Jobs : ReleaseFails(j)) \/ SweeperDies
  PROVE  ActorInv' /\ Advance
<1>1. /\ UNCHANGED <<active, status, outbox, request>>
      /\ promoted' \subseteq promoted /\ releasing' \subseteq releasing
      /\ failures < MaxFailures /\ failures' = failures + 1
      /\ sweeper' \in {sweeper, IdleSweeper}
  BY DEF ReleaseFails, SweeperDies, redis, database
<1>2. IdleSweeper \in SweeperRecords /\ SweeperFits(IdleSweeper, status)
  BY DEF IdleSweeper, SweeperRecords, SweeperFits, Statuses
<1> QED
  BY <1>1, <1>2, ActorKinds, OneMoreFailure, OthersWork

LEMMA ExpireWaitingKeeps ==
  ASSUME IInv, ExpireWaiting
  PROVE  ActorInv' /\ Advance
<1> DEFINE k == [IdleSweeper EXCEPT !.todo = Q!Expired]
<1>1. /\ active' = active /\ sweeper' = k
      /\ UNCHANGED <<status, outbox, request, releasing, promoted, failures>>
  BY DEF ExpireWaiting, Q!Sweep, database
<1>2. k \in SweeperRecords /\ SweeperFits(k, status)
  BY DEF IdleSweeper, SweeperRecords, SweeperFits, Statuses, Q!Expired, Q!Waiting
<1> HIDE DEF k
<1> QED
  BY <1>1, <1>2, ActorKinds, OthersWork

LEMMA SweepReadKeeps ==
  ASSUME IInv, NEW j \in Jobs, SweepRead(j)
  PROVE  ActorInv' /\ Advance
<1> DEFINE k == [todo |-> sweeper.todo \ {j}, job |-> j, seen |-> status[j]]
<1>1. /\ sweeper' = k
      /\ UNCHANGED <<active, status, outbox, request, releasing, promoted, failures>>
  BY DEF SweepRead, redis, database
<1>2. k \in SweeperRecords /\ SweeperFits(k, status)
  BY ActorKinds DEF SweeperRecords, SweeperFits, IInv, ActorInv, ActorTypes
<1> HIDE DEF k
<1> QED
  BY <1>1, <1>2, ActorKinds, OthersWork

-----------------------------------------------------------------------------
(* Deliveries and ends.                                                    *)
LEMMA SweepTerminalizeKeeps ==
  ASSUME IInv, SweepTerminalize
  PROVE  ActorInv' /\ Advance
<1> DEFINE j == sweeper.job
           k == [sweeper EXCEPT !.job = NoJob, !.seen = "NONE"]
<1>1. /\ j # NoJob /\ sweeper' = k
      /\ UNCHANGED <<active, outbox, request, promoted, failures>>
  BY DEF SweepTerminalize, redis
<1>2. k \in SweeperRecords /\ (\A s : SweeperFits(k, s))
  BY ActorKinds DEF SweeperRecords, SweeperFits, Statuses
<1> HIDE DEF k
<1>3. CASE sweeper.seen \in Endable
  <2>1. j \in Jobs /\ status[j] # "NONE"
    BY <1>3, ActorKinds DEF SweeperFits, Endable
  <2>2. status' = [status EXCEPT ![j] = "EXPIRED"] /\ releasing' = releasing \cup {j}
    BY <1>3 DEF SweepTerminalize
  <2>3. "EXPIRED" \in Statuses \ {"NONE"} /\ "EXPIRED" \in Terminal
    BY DEF Statuses, Terminal
  <2> HIDE DEF j
  <2> QED
    BY <1>1, <1>2, <2>1, <2>2, <2>3, StatusMoves
<1>4. CASE sweeper.seen \notin Endable
  <2>1. UNCHANGED <<status, releasing>>
    BY <1>4 DEF SweepTerminalize
  <2> QED
    BY <1>1, <1>2, <2>1, ActorKinds, OthersWork
<1> QED
  BY <1>3, <1>4

LEMMA DeliveriesKeep ==
  ASSUME IInv, NEW j \in Jobs, Publish(j) \/ Execute(j) \/ EndJob(j)
  PROVE  ActorInv' /\ Advance
<1>1. /\ UNCHANGED <<active, outbox, request, promoted, failures>> /\ sweeper' = sweeper
      /\ status[j] \in {"PENDING", "QUEUED", "RUNNING"}
  BY DEF Publish, Execute, EndJob, Publishable, redis
<1>2. status[j] # "NONE" /\ status[j] \notin Terminal
  BY <1>1 DEF Terminal
<1>3. PICK x \in {"QUEUED", "RUNNING", "SUCCEEDED", "FAILED"} :
        /\ status' = [status EXCEPT ![j] = x]
        /\ \/ x \in {"QUEUED", "RUNNING"} /\ releasing' = releasing /\ j \in Marked
           \/ x \in {"SUCCEEDED", "FAILED"} /\ releasing' = releasing \cup {j}
  <2>1. CASE Publish(j)
    BY <2>1 DEF Publish, Marked
  <2>2. CASE Execute(j)
    BY <2>2 DEF Execute, Marked, Delivered
  <2>3. CASE EndJob(j)
    BY <2>3 DEF EndJob
  <2> QED
    BY <2>1, <2>2, <2>3
<1>4. x \in Statuses \ {"NONE"} /\ (x \in {"SUCCEEDED", "FAILED"} => x \in Terminal)
  BY DEF Statuses, Terminal
<1>5. sweeper' \in SweeperRecords /\ SweeperFits(sweeper', status')
  <2>1. sweeper.seen # "NONE" => sweeper.job \in Jobs /\ status[sweeper.job] # "NONE"
    BY ActorKinds DEF SweeperFits
  <2>2. status \in [Jobs -> Statuses]
    BY DEF IInv, ActorInv, ActorTypes
  <2> QED
    BY <1>1, <1>3, <1>4, <2>1, <2>2, ActorKinds DEF SweeperFits
<1>6. x \in {"QUEUED", "RUNNING"} => Held(j, active, status)
  BY <1>3, ActorKinds
<1> QED
  BY <1>1, <1>2, <1>3, <1>4, <1>5, <1>6, StatusMoves

-----------------------------------------------------------------------------
(* Every step is a script of the queue, or does not touch Redis.           *)
LEMMA StepIsAdmission ==
  ASSUME IInv, [Next]_vars
  PROVE  [Q!Next]_(Q!vars)
<1>1. CASE UNCHANGED redis
  BY <1>1 DEF redis, Q!vars
<1>2. ASSUME NEW r \in Requests, AskAdmission(r)
      PROVE  Q!Next
  <2>1. /\ request[r].job \in Jobs /\ request[r].consent \in BOOLEAN
        /\ Q!Admit(request[r].job, request[r].consent)
    BY <1>2, RequestKinds DEF AskAdmission, RequestRecords
  <2> QED
    BY <2>1 DEF Q!Next
<1>3. ASSUME NEW r \in Requests, CancelInRedis(r)
      PROVE  Q!Next \/ UNCHANGED redis
  <2>1. request[r].job \in Jobs
    BY <1>3, RequestKinds DEF CancelInRedis
  <2> QED
    BY <1>3, <2>1 DEF CancelInRedis, Q!Next
<1>4. ASSUME NEW j \in Jobs, Extend(j) \/ ReleaseSlot(j)
      PROVE  Q!Next \/ UNCHANGED redis
  BY <1>4 DEF Extend, ReleaseSlot, Q!Next
<1>5. CASE ExpireWaiting \/ Tick
  BY <1>5 DEF ExpireWaiting, Tick, Q!Next
<1>6. ASSUME NEW r \in Requests, NEW j \in Jobs,
             (\E consent \in BOOLEAN : BeginIngest(r, j, consent))
               \/ BeginConsent(r, j) \/ BeginCancel(r, j)
      PROVE  UNCHANGED redis
  BY <1>6 DEF BeginIngest, BeginConsent, BeginCancel
<1>7. ASSUME NEW r \in Requests,
             AskState(r) \/ CommitAdmission(r) \/ CommitCancel(r) \/ RequestFails(r)
      PROVE  UNCHANGED redis
  BY <1>7 DEF AskState, CommitAdmission, CommitCancel, RequestFails
<1>8. ASSUME NEW j \in Jobs,
             \/ Publish(j) \/ Execute(j) \/ EndJob(j)
             \/ EnsurePromotedOutbox(j) \/ ReleaseFails(j) \/ SweepRead(j)
      PROVE  UNCHANGED redis
  BY <1>8 DEF Publish, Execute, EndJob, EnsurePromotedOutbox, ReleaseFails, SweepRead
<1>9. CASE SweepTerminalize \/ SweeperDies \/ UNCHANGED vars
  BY <1>9, <1>1 DEF SweepTerminalize, SweeperDies, vars
<1> QED
  BY <1>1, <1>2, <1>3, <1>4, <1>5, <1>6, <1>7, <1>8, <1>9 DEF Next, RequestStep, SweepStep

(* IInv is inductive, and no step undoes what Advance names.               *)
LEMMA InitHolds == Init => IInv
<1> SUFFICES ASSUME Init PROVE IInv
  OBVIOUS
<1>1. QueueInv
  BY QueueStarts DEF Init
<1>2. IdleRequest \in RequestRecords /\ ~IdleRequest.new
      /\ \A a, s : RequestFits(IdleRequest, a, s)
  BY FALSE \in BOOLEAN DEF IdleRequest, RequestRecords, RequestFits, Statuses, Outcomes
<1>3. IdleSweeper \in SweeperRecords /\ SweeperFits(IdleSweeper, status)
  BY DEF IdleSweeper, SweeperRecords, SweeperFits, Statuses
<1>4. ActorTypes
  BY <1>2, <1>3, LifecycleAssumption DEF Init, ActorTypes, Statuses
<1>5. MarkedHeld /\ ReleasingEnded
  BY DEF Init, MarkedHeld, ReleasingEnded, Marked, Delivered
<1>6. RequestsFit /\ OneCreator /\ SweepFits
  BY <1>2, <1>3 DEF Init, RequestsFit, OneCreator, SweepFits
<1> QED
  BY <1>1, <1>4, <1>5, <1>6 DEF IInv, ActorInv

LEMMA NextKeeps ==
  ASSUME IInv, [Next]_vars
  PROVE  IInv' /\ Advance
<1>1. QueueInv'
  BY StepIsAdmission, QueueKeeps DEF IInv
<1>2. CASE UNCHANGED vars
  <2>1. UNCHANGED <<active, status, outbox, request, releasing, promoted, sweeper, failures>>
    BY <1>2 DEF vars, redis, database
  <2>2. ActorInv' /\ Advance
    BY <2>1, ActorKinds, OthersWork
  <2> QED
    BY <1>1, <2>2 DEF IInv
<1>3. CASE Next
  <2>1. ASSUME NEW r \in Requests, RequestStep(r) \/ RequestFails(r)
        PROVE  ActorInv' /\ Advance
    BY <2>1, AskStateKeeps, AskAdmissionKeeps, CommitAdmissionKeeps, CancelInRedisKeeps,
       CommitCancelKeeps, RequestFailsKeeps DEF RequestStep
  <2>2. ASSUME NEW j \in Jobs,
               \/ Extend(j) \/ Publish(j) \/ Execute(j) \/ EndJob(j)
               \/ ReleaseSlot(j) \/ EnsurePromotedOutbox(j) \/ ReleaseFails(j)
        PROVE  ActorInv' /\ Advance
    BY <2>2, QueueOnlyKeeps, DeliveriesKeep, ReleaseSlotKeeps, EnsurePromotedOutboxKeeps,
       FailuresKeep
  <2>3. ASSUME ExpireWaiting \/ SweepTerminalize \/ SweeperDies \/ Tick
               \/ \E j \in Jobs : SweepRead(j)
        PROVE  ActorInv' /\ Advance
    <3>1. ASSUME NEW j \in Jobs, SweepRead(j) PROVE ActorInv' /\ Advance
      BY <3>1, SweepReadKeeps
    <3> QED
      BY <2>3, <3>1, ExpireWaitingKeeps, SweepTerminalizeKeeps, FailuresKeep, QueueOnlyKeeps
  <2>4. ASSUME NEW r \in Requests, NEW j \in Jobs,
               (\E consent \in BOOLEAN : BeginIngest(r, j, consent))
                 \/ BeginConsent(r, j) \/ BeginCancel(r, j)
        PROVE  ActorInv' /\ Advance
    BY <2>4, BeginningsKeep
  <2>5. ActorInv' /\ Advance
    BY <1>3, <2>1, <2>2, <2>3, <2>4 DEF Next, SweepStep
  <2> QED
    BY <1>1, <2>5 DEF IInv
<1> QED
  BY <1>2, <1>3

(* Requests, releases, promotions and the sweep keep to what they know of  *)
(* the jobs they work on (GameIngestionService, AnalysisJobService and the *)
(* lifecycle sweep), in every interleaving and wherever they stop.         *)
THEOREM LifecycleInvariant == Spec => []IInv
<1>1. IInv /\ [Next]_vars => IInv'
  BY NextKeeps
<1> QED
  BY InitHolds, <1>1, PTL DEF Spec

(* Type correctness of both stores and of every actor.                     *)
THEOREM LifecycleTypes == Spec => []TypeOK
<1>1. IInv => TypeOK
  BY DEF IInv, QueueInv, ActorInv, ActorTypes, TypeOK, RequestRecords, SweeperRecords
<1> QED
  BY <1>1, LifecycleInvariant, PTL

(* A job that ended, was cancelled or expired is never opened again.       *)
THEOREM EndsAreFinal == Spec => EndedStaysEnded
<1>1. IInv /\ [Next]_vars =>
        [\A j \in Jobs : status[j] \in Terminal => status'[j] \in Terminal]_vars
  BY NextKeeps DEF Advance
<1> QED
  BY <1>1, LifecycleInvariant, PTL DEF Spec, EndedStaysEnded

(* Refinement: what the actors do to Redis, with retries and failures, is  *)
(* a run of the queue specification, so that the theorems about the queue  *)
(* (QueueAdmissionProofs) hold of it here.                                 *)
THEOREM LifecycleImplementsAdmission == Spec => ImplementsAdmission
<1>1. Init => Q!Init
  BY DEF Init
<1>2. IInv /\ [Next]_vars => [Q!Next]_(Q!vars)
  BY StepIsAdmission
<1> QED
  BY <1>1, <1>2, LifecycleInvariant, PTL DEF Spec, ImplementsAdmission, Q!Spec

-----------------------------------------------------------------------------
(***************************************************************************)
(* The limits.  What QueueAdmissionProofs shows of the queue by itself,    *)
(* shown of the queue here: whose entry a user has, that no two jobs have  *)
(* one score, so that one slot is given for one, and the number of slots.  *)
(***************************************************************************)
QueueSound ==
  /\ Q!UsersMatchQueues
  /\ Q!WaitRecords
  /\ Cardinality(active) <= ActiveLimit

LEMMA SlotsFinite ==
  ASSUME QueueInv
  PROVE  IsFiniteSet(active) /\ Cardinality(active) \in Nat
BY LifecycleAssumption, FS_Subset, FS_CardinalityType DEF QueueInv, Q!TypeOK

(* The queue counts as this module does. *)
LEMMA SameCount == \A S : Q!Cardinality(S) = Cardinality(S)
BY DEF Q!Cardinality, Cardinality

LEMMA LeavingKeepsRecords ==
  ASSUME QueueInv, Q!WaitRecords, NEW S \in SUBSET Jobs, Q!LeaveQueue(S)
  PROVE  Q!Waiting' = Q!Waiting \ S /\ Q!WaitRecords'
<1>1. Q!Waiting' = Q!Waiting \ S
  BY DEF Q!Waiting, Q!LeaveQueue
<1>2. Q!WaitRecords'
  BY <1>1, LifecycleAssumption DEF QueueInv, Q!TypeOK, Q!WaitRecords, Q!LeaveQueue, Q!Waiting
<1> QED
  BY <1>1, <1>2

LEMMA AdmitActiveKeepsLimits ==
  ASSUME QueueInv, QueueSound, NEW j \in Jobs, NEW consent \in BOOLEAN,
         Q!AdmitActive(j, consent)
  PROVE  QueueSound'
<1> USE DEF QueueSound
<1>1. /\ users[Owner[j]] = NoJob
      /\ Cardinality(active) < ActiveLimit
      /\ active' = active \cup {j}
      /\ users' = [users EXCEPT ![Owner[j]] = j]
      /\ UNCHANGED <<score, timeLeft, extended, sequence>>
  BY SameCount DEF Q!AdmitActive, Q!AdmitOutcome
<1>2. Q!Waiting' = Q!Waiting
  BY <1>1 DEF Q!Waiting
<1>3. j \notin active /\ j \notin Q!Waiting
  BY <1>1, LifecycleAssumption DEF Q!UsersMatchQueues
<1>4. Q!UsersMatchQueues'
  BY <1>1, <1>2, <1>3, LifecycleAssumption DEF Q!UsersMatchQueues, QueueInv, Q!TypeOK
<1>5. Cardinality(active') = Cardinality(active) + 1
  BY <1>1, <1>3, SlotsFinite, FS_AddElement
<1>6. Cardinality(active') <= ActiveLimit
  BY <1>1, <1>5, SlotsFinite, LifecycleAssumption
<1>7. Q!WaitRecords'
  BY <1>1, <1>2 DEF Q!WaitRecords
<1> QED
  BY <1>4, <1>6, <1>7

LEMMA AdmitWaitingKeepsLimits ==
  ASSUME QueueInv, QueueSound, NEW j \in Jobs, NEW consent \in BOOLEAN,
         Q!AdmitWaiting(j, consent)
  PROVE  QueueSound'
<1> USE DEF QueueSound
<1>1. /\ users[Owner[j]] = NoJob
      /\ sequence' = sequence + 1
      /\ score' = [score EXCEPT ![j] = sequence + 1]
      /\ users' = [users EXCEPT ![Owner[j]] = j]
      /\ timeLeft' = [timeLeft EXCEPT ![j] = WaitTime]
      /\ extended' = [extended EXCEPT ![j] = "0"]
      /\ active' = active
  BY DEF Q!AdmitWaiting, Q!AdmitOutcome
<1>2. j \notin active /\ j \notin Q!Waiting
  BY <1>1, LifecycleAssumption DEF Q!UsersMatchQueues
<1>3. Q!Waiting' = Q!Waiting \cup {j}
  BY <1>1 DEF Q!Waiting, QueueInv, Q!TypeOK
<1>4. Q!UsersMatchQueues'
  <2>1. active' \cup Q!Waiting' = active \cup Q!Waiting \cup {j}
    BY <1>1, <1>3
  <2>2. active' \cap Q!Waiting' = {}
    BY <1>1, <1>2, <1>3 DEF Q!UsersMatchQueues
  <2>3. \A u \in Users : users'[u] = IF u = Owner[j] THEN j ELSE users[u]
    BY <1>1 DEF QueueInv, Q!TypeOK
  <2>4. \A k \in Jobs : (k \in active' \cup Q!Waiting') <=> users'[Owner[k]] = k
    BY <1>1, <2>1, <2>3, LifecycleAssumption DEF Q!UsersMatchQueues
  <2>5. \A u \in Users : users'[u] # NoJob => Owner[users'[u]] = u
    BY <2>3 DEF Q!UsersMatchQueues
  <2> QED
    BY <2>2, <2>4, <2>5 DEF Q!UsersMatchQueues
<1>5. Q!WaitRecords'
  <2>1. \A k \in Jobs : score[k] <= sequence /\ score[k] \in Nat /\ sequence \in Nat
    BY DEF QueueInv, Q!TypeOK, Q!WaitRecords
  <2>2. \A k \in Jobs : score'[k] = IF k = j THEN sequence + 1 ELSE score[k]
    BY <1>1 DEF QueueInv, Q!TypeOK
  <2>3. \A k, l \in Q!Waiting' : score'[k] = score'[l] => k = l
    BY <1>3, <2>1, <2>2 DEF Q!WaitRecords, Q!Waiting
  <2>4. \A k \in Jobs : score'[k] <= sequence'
    BY <1>1, <2>1, <2>2
  <2>5. \A k \in Jobs : k \in Q!Waiting' <=> extended'[k] # "absent"
    BY <1>1, <1>3 DEF Q!WaitRecords, QueueInv, Q!TypeOK
  <2>6. \A k \in Jobs : extended'[k] = "0" => timeLeft'[k] <= WaitTime
    BY <1>1, LifecycleAssumption DEF Q!WaitRecords, QueueInv, Q!TypeOK
  <2> QED
    BY <2>3, <2>4, <2>5, <2>6 DEF Q!WaitRecords
<1> QED
  BY <1>1, <1>4, <1>5

LEMMA CompleteKeepsLimits ==
  ASSUME QueueInv, QueueSound, NEW j \in Jobs, Q!Complete(j)
  PROVE  QueueSound'
<1> USE DEF QueueSound
<1>1. /\ j \in active
      /\ active' = (active \ {j}) \cup Q!Promoted(j)
      /\ users' = [users EXCEPT ![Owner[j]] = IF @ = j THEN NoJob ELSE @]
      /\ Q!LeaveQueue(Q!Promoted(j))
      /\ Q!Promoted(j) \in SUBSET Jobs /\ Q!Promoted(j) \subseteq Q!Waiting
  BY DEF Q!Complete, Q!Promoted, Q!IsHead
<1>2. users[Owner[j]] = j
  BY <1>1 DEF Q!UsersMatchQueues
<1>3. Q!Waiting' = Q!Waiting \ Q!Promoted(j) /\ Q!WaitRecords'
  BY <1>1, LeavingKeepsRecords
<1>4. Q!UsersMatchQueues'
  BY <1>1, <1>2, <1>3, LifecycleAssumption DEF Q!UsersMatchQueues, QueueInv, Q!TypeOK
<1>5. /\ IsFiniteSet(active \ {j})
      /\ Cardinality(active \ {j}) = Cardinality(active) - 1
  BY <1>1, SlotsFinite, FS_RemoveElement
<1>6. CASE Q!Promoted(j) = {}
  <2>1. active' = active \ {j}
    BY <1>1, <1>6
  <2> QED
    BY <1>3, <1>4, <1>5, <2>1, SlotsFinite, LifecycleAssumption
<1>7. CASE Q!Promoted(j) # {}
  <2>1. PICK k \in Q!Promoted(j) : TRUE
    BY <1>7
  <2>2. Q!Promoted(j) = {k}
    <3>1. ASSUME NEW l \in Q!Promoted(j) PROVE l = k
      <4>1. /\ score[l] <= score[k] /\ score[k] <= score[l]
            /\ l \in Q!Waiting /\ k \in Q!Waiting
        BY <2>1 DEF Q!Promoted, Q!IsHead
      <4>2. score[l] \in Nat /\ score[k] \in Nat
        BY <2>1 DEF QueueInv, Q!TypeOK, Q!Promoted
      <4> QED
        BY <4>1, <4>2 DEF Q!WaitRecords
    <3> QED
      BY <2>1, <3>1
  <2>3. k \notin active \ {j}
    BY <1>1, <2>1 DEF Q!UsersMatchQueues
  <2>4. Cardinality((active \ {j}) \cup {k}) = Cardinality(active \ {j}) + 1
    BY <1>5, <2>3, FS_AddElement
  <2>5. Cardinality(active') = Cardinality(active)
    <3>1. active' = (active \ {j}) \cup {k}
      BY <1>1, <2>2
    <3> QED
      BY <1>5, <2>4, <3>1, SlotsFinite
  <2> QED
    BY <1>3, <1>4, <2>5
<1> QED
  BY <1>6, <1>7

LEMMA QueueKeepsLimits ==
  ASSUME QueueInv, QueueSound, [Q!Next]_(Q!vars)
  PROVE  QueueSound'
<1> USE DEF QueueSound
<1>1. ASSUME NEW j \in Jobs, NEW consent \in BOOLEAN, Q!Admit(j, consent)
      PROVE  QueueSound'
  <2>1. CASE Q!AdmitRefused(j, consent)
    BY <2>1 DEF Q!AdmitRefused, Q!vars, Q!UsersMatchQueues, Q!WaitRecords, Q!Waiting
  <2> QED
    BY <1>1, <2>1, AdmitActiveKeepsLimits, AdmitWaitingKeepsLimits DEF Q!Admit
<1>2. ASSUME NEW j \in Jobs, Q!Cancel(j)
      PROVE  QueueSound'
  <2>1. /\ users[Owner[j]] = j /\ j \in Q!Waiting
        /\ Q!LeaveQueue({j})
        /\ users' = [users EXCEPT ![Owner[j]] = NoJob]
        /\ active' = active
    BY <1>2 DEF Q!Cancel, Q!CanCancel
  <2>2. Q!Waiting' = Q!Waiting \ {j} /\ Q!WaitRecords'
    BY <2>1, LeavingKeepsRecords
  <2>3. Q!UsersMatchQueues'
    BY <2>1, <2>2, LifecycleAssumption DEF Q!UsersMatchQueues, QueueInv, Q!TypeOK
  <2> QED
    BY <2>1, <2>2, <2>3
<1>3. ASSUME NEW j \in Jobs, Q!Extend(j)
      PROVE  QueueSound'
  <2>1. /\ j \in Q!Waiting /\ extended[j] = "0"
        /\ timeLeft' = [timeLeft EXCEPT ![j] = @ + WaitTime]
        /\ extended' = [extended EXCEPT ![j] = "1"]
        /\ UNCHANGED <<active, score, users, sequence>>
    BY <1>3 DEF Q!Extend, Q!CanExtend
  <2>2. Q!Waiting' = Q!Waiting
    BY <2>1 DEF Q!Waiting
  <2>3. Q!UsersMatchQueues'
    BY <2>1, <2>2 DEF Q!UsersMatchQueues
  <2>4. Q!WaitRecords'
    BY <2>1, <2>2 DEF Q!WaitRecords, QueueInv, Q!TypeOK
  <2> QED
    BY <2>1, <2>3, <2>4
<1>4. ASSUME NEW j \in Jobs, Q!Complete(j)
      PROVE  QueueSound'
  BY <1>4, CompleteKeepsLimits
<1>5. CASE Q!Sweep
  <2>1. /\ Q!LeaveQueue(Q!Expired)
        /\ users' = [u \in Users |-> IF users[u] \in Q!Expired THEN NoJob ELSE users[u]]
        /\ active' = active
        /\ Q!Expired \in SUBSET Jobs /\ Q!Expired \subseteq Q!Waiting
    BY <1>5 DEF Q!Sweep, Q!Expired, Q!Waiting
  <2>2. Q!Waiting' = Q!Waiting \ Q!Expired /\ Q!WaitRecords'
    BY <2>1, LeavingKeepsRecords
  <2>3. Q!UsersMatchQueues'
    BY <2>1, <2>2, LifecycleAssumption DEF Q!UsersMatchQueues, QueueInv, Q!TypeOK
  <2> QED
    BY <2>1, <2>2, <2>3
<1>6. CASE Q!Tick
  <2>1. UNCHANGED <<active, score, users, extended, sequence>>
    BY <1>6 DEF Q!Tick
  <2>2. Q!Waiting' = Q!Waiting
    BY <2>1 DEF Q!Waiting
  <2>3. \A k \in Jobs : timeLeft'[k] <= timeLeft[k] /\ timeLeft[k] \in Int /\ timeLeft'[k] \in Int
    BY <1>6, LifecycleAssumption DEF Q!Tick, QueueInv, Q!TypeOK
  <2>4. \A k \in Jobs : extended'[k] = "0" => timeLeft'[k] <= WaitTime
    BY <2>1, <2>3, LifecycleAssumption DEF Q!WaitRecords
  <2>5. Q!UsersMatchQueues'
    BY <2>1, <2>2 DEF Q!UsersMatchQueues
  <2> QED
    BY <2>1, <2>2, <2>4, <2>5 DEF Q!WaitRecords
<1>7. CASE UNCHANGED Q!vars
  BY <1>7 DEF Q!vars, Q!UsersMatchQueues, Q!WaitRecords, Q!Waiting
<1> QED
  BY <1>1, <1>2, <1>3, <1>4, <1>5, <1>6, <1>7 DEF Q!Next

LEMMA LimitsStart == Q!Init => QueueSound
<1> SUFFICES ASSUME Q!Init PROVE QueueSound
  OBVIOUS
<1>1. Q!Waiting = {}
  BY DEF Q!Init, Q!Waiting
<1>2. Cardinality(active) <= ActiveLimit
  BY LifecycleAssumption, FS_EmptySet DEF Q!Init
<1> QED
  BY <1>1, <1>2, LifecycleAssumption DEF Q!Init, QueueSound, Q!UsersMatchQueues, Q!WaitRecords

(* The users hash, the FIFO and the slots agree and keep the limit on      *)
(* slots while requests, releases and sweeps use them and stop half way.   *)
THEOREM QueueStaysSound == Spec => []QueueSound
<1>1. Init => QueueSound
  BY LimitsStart DEF Init
<1>2. IInv /\ QueueSound /\ [Next]_vars => QueueSound'
  BY StepIsAdmission, QueueKeepsLimits DEF IInv
<1> QED
  BY <1>1, <1>2, LifecycleInvariant, PTL DEF Spec

(* No analysis is queued for a worker or runs without a slot of its own,   *)
(* so no more of them are in PostgreSQL than there are slots in Redis, and *)
(* a user has one of them at most.                                         *)
THEOREM DeliveriesHoldSlots == Spec => []DeliveredHoldsSlot
<1>1. ASSUME IInv, QueueSound
      PROVE  DeliveredHoldsSlot
  <2>1. Delivered \subseteq active
    BY <1>1, ActorKinds DEF Marked, Held, Delivered, Terminal
  <2>2. Cardinality(Delivered) <= ActiveLimit
    <3>1. IsFiniteSet(active) /\ Cardinality(active) \in Nat /\ Cardinality(active) <= ActiveLimit
      BY <1>1, SlotsFinite DEF IInv, QueueSound
    <3>2. Cardinality(Delivered) <= Cardinality(active) /\ Cardinality(Delivered) \in Nat
      BY <2>1, <3>1, FS_Subset, FS_CardinalityType
    <3> QED
      BY <3>1, <3>2, LifecycleAssumption
  <2>3. \A i, j \in Delivered : Owner[i] = Owner[j] => i = j
    <3>1. \A j \in Delivered : j \in Jobs /\ users[Owner[j]] = j
      BY <1>1, <2>1 DEF QueueSound, Q!UsersMatchQueues, Delivered
    <3> QED
      BY <3>1
  <2> QED
    BY <2>1, <2>2, <2>3 DEF DeliveredHoldsSlot
<1> QED
  BY <1>1, LifecycleInvariant, QueueStaysSound, PTL
=============================================================================
