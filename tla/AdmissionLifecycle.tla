------------------------- MODULE AdmissionLifecycle -------------------------
(***************************************************************************)
(* Admission in Redis composed with the job rows in PostgreSQL.  Neither   *)
(* store knows of the other: API requests, the capacity release that       *)
(* follows a terminal commit and the lifecycle sweep each write one store  *)
(* and then the other, in steps that interleave.                           *)
(*                                                                         *)
(* A Lua script is one step (QueueAdmission); a transaction is one step,   *)
(* at its commit.  An unavailable Redis, a crash and a rolled back         *)
(* transaction are the same event here: an actor stops between two steps.  *)
(* AnalysisJobs has the inside of the steps Publish, Execute and EndJob.   *)
(***************************************************************************)
EXTENDS Integers, FiniteSets

CONSTANTS Jobs, Users, Owner, ActiveLimit, WaitLimit, WaitTime, MaxSequence, NoJob,
  Requests,      \* API requests that may be in progress together
  MaxFailures    \* bound of the model on actors that stop half way

(* What the queue assumes of its constants, and a bound that is a number.  *)
ASSUME LifecycleAssumption ==
  /\ IsFiniteSet(Jobs) /\ NoJob \notin Jobs
  /\ Owner \in [Jobs -> Users]
  /\ ActiveLimit \in Nat \ {0} /\ WaitLimit \in Nat
  /\ WaitTime \in Nat \ {0} /\ MaxSequence \in Nat
  /\ MaxFailures \in Nat

VARIABLES
  active, score, users, timeLeft, extended, sequence,   \* Redis
  status,        \* committed status of a job: "NONE" before its row exists,
                 \* "LOST" when the transaction that chose its id rolled back
  outbox,        \* jobs with a committed outbox row for the first delivery
  request,       \* API requests in progress
  releasing,     \* jobs ended in PostgreSQL, whose complete_active is to come
  promoted,      \* jobs promoted in Redis, whose outbox row is to come
  sweeper,       \* the lifecycle sweep
  failures       \* actors that stopped half way so far

redis == <<active, score, users, timeLeft, extended, sequence>>
database == <<status, outbox>>
vars == <<redis, database, request, releasing, promoted, sweeper, failures>>

Q == INSTANCE QueueAdmission

(* "EXPIRED" is FAILED with the error code queue_wait_expired. *)
Terminal == {"SUCCEEDED", "FAILED", "CANCELLED", "EXPIRED"}
Statuses == {"NONE", "LOST", "PENDING", "QUEUED", "RUNNING"} \cup Terminal

Outcomes == {"none", "ACTIVE", "WAITING", "CONSENT_REQUIRED", "QUEUE_FULL", "USER_BUSY"}

IdleRequest == [pc |-> "idle", job |-> NoJob, consent |-> FALSE, new |-> FALSE,
                seen |-> "NONE", outcome |-> "none"]
IdleSweeper == [todo |-> {}, job |-> NoJob, seen |-> "NONE"]

Init ==
  /\ Q!Init
  /\ status = [j \in Jobs |-> "NONE"]
  /\ outbox = {}
  /\ request = [r \in Requests |-> IdleRequest]
  /\ releasing = {}
  /\ promoted = {}
  /\ sweeper = IdleSweeper
  /\ failures = 0

Begin(r, pc, j, consent) ==
  request' = [request EXCEPT ![r] = [pc |-> pc, job |-> j, consent |-> consent,
                new |-> status[j] = "NONE", seen |-> status[j], outcome |-> "none"]]
Return(r) == request' = [request EXCEPT ![r] = IdleRequest]

-----------------------------------------------------------------------------
(***************************************************************************)
(* ingest_completed_game.  The unique index on the ingestion key makes a   *)
(* second insert of the same game wait for the first transaction; a game   *)
(* that is there already is admitted again while its job is PENDING.       *)
(***************************************************************************)
BeginIngest(r, j, consent) ==
  /\ request[r].pc = "idle"
  /\ \/ status[j] = "NONE" /\ \A q \in Requests : ~(request[q].new /\ request[q].job = j)
     \/ status[j] = "PENDING"
  /\ Begin(r, "state", j, consent)
  /\ UNCHANGED <<redis, database, releasing, promoted, sweeper, failures>>

(* consent_to_queue: the row is read, not locked. *)
BeginConsent(r, j) ==
  /\ request[r].pc = "idle"
  /\ status[j] = "PENDING"
  /\ Begin(r, "state", j, TRUE)
  /\ UNCHANGED <<redis, database, releasing, promoted, sweeper, failures>>

(* _admit_pending_job asks for the state of the job before it admits it. *)
AskState(r) ==
  LET j == request[r].job
      known == CASE j \in active     -> "ACTIVE"
                 [] j \in Q!Waiting  -> "WAITING"
                 [] OTHER            -> "none" IN
  /\ request[r].pc = "state"
  /\ request' = [request EXCEPT ![r].outcome = known,
                                ![r].pc = IF known = "none" THEN "admit" ELSE "commit"]
  /\ UNCHANGED <<redis, database, releasing, promoted, sweeper, failures>>

AskAdmission(r) ==
  LET j == request[r].job
      consent == request[r].consent IN
  /\ request[r].pc = "admit"
  /\ Q!Admit(j, consent)
  /\ request' = [request EXCEPT ![r].outcome = Q!AdmitOutcome(j, consent),
                                ![r].pc = "commit"]
  /\ UNCHANGED <<database, releasing, promoted, sweeper, failures>>

(***************************************************************************)
(* The transaction commits with an outbox row for an ACTIVE job, without   *)
(* one for a job that waits or needs consent; QUEUE_FULL and USER_BUSY     *)
(* raise and roll it back, and the id chosen for a new job is lost.        *)
(***************************************************************************)
RolledBack(r) ==
  [status EXCEPT ![request[r].job] = IF request[r].new THEN "LOST" ELSE @]

(* Defect: the outbox row is written with the job, as before admission. *)
DeliverableAlways == Outcomes

Deliverable == {"ACTIVE"}

CommitAdmission(r) ==
  LET j == request[r].job
      outcome == request[r].outcome IN
  /\ request[r].pc = "commit"
  /\ IF outcome \in {"QUEUE_FULL", "USER_BUSY"}
     THEN status' = RolledBack(r) /\ UNCHANGED outbox
     ELSE /\ status' = [status EXCEPT ![j] = IF request[r].new THEN "PENDING" ELSE @]
          /\ outbox' = IF outcome \in Deliverable THEN outbox \cup {j} ELSE outbox
  /\ Return(r)
  /\ UNCHANGED <<redis, releasing, promoted, sweeper, failures>>

-----------------------------------------------------------------------------
(***************************************************************************)
(* cancel_waiting_job: the row is read, the job taken out of the FIFO, and *)
(* the row ended with the status that was read, which the session keeps.   *)
(* A leased status has no transition to CANCELLED and raises.              *)
(***************************************************************************)
BeginCancel(r, j) ==
  /\ request[r].pc = "idle"
  /\ status[j] \notin {"NONE", "LOST"}
  /\ Begin(r, "cancel", j, FALSE)
  /\ UNCHANGED <<redis, database, releasing, promoted, sweeper, failures>>

CancelInRedis(r) ==
  LET j == request[r].job IN
  /\ request[r].pc = "cancel"
  /\ \/ /\ Q!Cancel(j)
        /\ request' = [request EXCEPT ![r].pc = "terminalize"]
     \/ /\ ~Q!CanCancel(j)
        /\ Return(r)
        /\ UNCHANGED redis
  /\ UNCHANGED <<database, releasing, promoted, sweeper, failures>>

CommitCancel(r) ==
  /\ request[r].pc = "terminalize"
  /\ status' = [status EXCEPT ![request[r].job] =
                  IF request[r].seen \in {"PENDING", "QUEUED"} THEN "CANCELLED" ELSE @]
  /\ Return(r)
  /\ UNCHANGED <<redis, outbox, releasing, promoted, sweeper, failures>>

(* extend_waiting_job writes Redis only; its second script is a read. *)
Extend(j) ==
  /\ status[j] \notin {"NONE", "LOST"}
  /\ Q!Extend(j)
  /\ UNCHANGED <<database, request, releasing, promoted, sweeper, failures>>

(* Defect: the request that stops drops its slot, and promotes nobody. *)
RequestFailsUnadmits(r) ==
  /\ request[r].pc # "idle"
  /\ failures < MaxFailures
  /\ failures' = failures + 1
  /\ status' = RolledBack(r)
  /\ active' = active \ {request[r].job}
  /\ Return(r)
  /\ UNCHANGED <<score, users, timeLeft, extended, sequence, outbox, releasing, promoted, sweeper>>

(* The request stops: its script may have run, its transaction rolls back. *)
RequestFails(r) ==
  /\ request[r].pc # "idle"
  /\ failures < MaxFailures
  /\ failures' = failures + 1
  /\ status' = RolledBack(r)
  /\ Return(r)
  /\ UNCHANGED <<redis, outbox, releasing, promoted, sweeper>>

-----------------------------------------------------------------------------
(* Defect: the publisher does not look at the status of the job. *)
PublishableAny == Statuses \ {"NONE", "LOST", "RUNNING"}

Publishable == {"PENDING"}

Publish(j) ==
  /\ j \in outbox
  /\ status[j] \in Publishable
  /\ status' = [status EXCEPT ![j] = "QUEUED"]
  /\ UNCHANGED <<redis, outbox, request, releasing, promoted, sweeper, failures>>

Execute(j) ==
  /\ status[j] = "QUEUED"
  /\ status' = [status EXCEPT ![j] = "RUNNING"]
  /\ UNCHANGED <<redis, outbox, request, releasing, promoted, sweeper, failures>>

(* The terminal commit of the worker, or of the sweep for a lost worker. *)
EndJob(j) ==
  /\ status[j] = "RUNNING"
  /\ \E end \in {"SUCCEEDED", "FAILED"} : status' = [status EXCEPT ![j] = end]
  /\ releasing' = releasing \cup {j}
  /\ UNCHANGED <<redis, outbox, request, promoted, sweeper, failures>>

(* _release_capacity: complete_active, then the outbox row of the job it   *)
(* promoted, under a lock on that job and only if that job is PENDING.     *)
ReleaseSlot(j) ==
  /\ j \in releasing
  /\ releasing' = releasing \ {j}
  /\ \/ /\ Q!Complete(j)
        /\ promoted' = promoted \cup Q!Promoted(j)
     \/ /\ j \notin active
        /\ UNCHANGED <<redis, promoted>>
  /\ UNCHANGED <<database, request, sweeper, failures>>

EnsurePromotedOutbox(j) ==
  /\ j \in promoted
  /\ promoted' = promoted \ {j}
  /\ outbox' = IF status[j] = "PENDING" THEN outbox \cup {j} ELSE outbox
  /\ UNCHANGED <<redis, status, request, releasing, sweeper, failures>>

(* RELEASE_DEFERRED_REDIS_UNAVAILABLE, or the process dies: nobody tries   *)
(* again.                                                                  *)
ReleaseFails(j) ==
  /\ j \in releasing \cup promoted
  /\ failures < MaxFailures
  /\ failures' = failures + 1
  /\ \/ j \in releasing /\ releasing' = releasing \ {j} /\ UNCHANGED promoted
     \/ j \in promoted /\ promoted' = promoted \ {j} /\ UNCHANGED releasing
  /\ UNCHANGED <<redis, database, request, sweeper>>

-----------------------------------------------------------------------------
(* _expire_waiting_jobs: the expired jobs leave Redis together and are     *)
(* then failed one by one by _terminalize_external_failure.                *)
ExpireWaiting ==
  /\ sweeper = IdleSweeper
  /\ Q!Sweep
  /\ sweeper' = [IdleSweeper EXCEPT !.todo = Q!Expired]
  /\ UNCHANGED <<database, request, releasing, promoted, failures>>

SweepRead(j) ==
  /\ sweeper.job = NoJob
  /\ j \in sweeper.todo
  /\ sweeper' = [todo |-> sweeper.todo \ {j}, job |-> j, seen |-> status[j]]
  /\ UNCHANGED <<redis, database, request, releasing, promoted, failures>>

(* Defect: only a job that was delivered is failed. *)
EndableDelivered == {"QUEUED", "RUNNING"}

Endable == {"PENDING", "QUEUED", "RUNNING"}

SweepTerminalize ==
  LET j == sweeper.job IN
  /\ j # NoJob
  /\ IF sweeper.seen \in Endable
     THEN /\ status' = [status EXCEPT ![j] = "EXPIRED"]
          /\ releasing' = releasing \cup {j}
     ELSE UNCHANGED <<status, releasing>>
  /\ sweeper' = [sweeper EXCEPT !.job = NoJob, !.seen = "NONE"]
  /\ UNCHANGED <<redis, outbox, request, promoted, failures>>

SweeperDies ==
  /\ sweeper # IdleSweeper
  /\ failures < MaxFailures
  /\ failures' = failures + 1
  /\ sweeper' = IdleSweeper
  /\ UNCHANGED <<redis, database, request, releasing, promoted>>

(* A request and a sweep last less than a tick of the queue's clock. *)
Tick ==
  /\ \A r \in Requests : request[r].pc = "idle"
  /\ sweeper = IdleSweeper
  /\ Q!Tick
  /\ UNCHANGED <<database, request, releasing, promoted, sweeper, failures>>

-----------------------------------------------------------------------------
RequestStep(r) ==
  AskState(r) \/ AskAdmission(r) \/ CommitAdmission(r) \/ CancelInRedis(r) \/ CommitCancel(r)

SweepStep == (\E j \in Jobs : SweepRead(j)) \/ SweepTerminalize

Next ==
  \/ \E r \in Requests, j \in Jobs :
       (\E consent \in BOOLEAN : BeginIngest(r, j, consent))
         \/ BeginConsent(r, j) \/ BeginCancel(r, j)
  \/ \E r \in Requests : RequestStep(r) \/ RequestFails(r)
  \/ \E j \in Jobs : Extend(j) \/ Publish(j) \/ Execute(j) \/ EndJob(j)
  \/ \E j \in Jobs : ReleaseSlot(j) \/ EnsurePromotedOutbox(j) \/ ReleaseFails(j)
  \/ ExpireWaiting \/ SweepStep \/ SweeperDies
  \/ Tick

Spec == Init /\ [][Next]_vars

(* A sweep that is not killed goes through its list. *)
FairSpec == Spec /\ WF_vars(SweepStep)

-----------------------------------------------------------------------------
(* Every store and every actor keeps values of its kind. *)
TypeOK ==
  /\ Q!TypeOK
  /\ status \in [Jobs -> Statuses]
  /\ outbox \subseteq Jobs /\ releasing \subseteq Jobs /\ promoted \subseteq Jobs
  /\ request \in [Requests ->
       [pc : {"idle", "state", "admit", "commit", "cancel", "terminalize"},
        job : Jobs \cup {NoJob}, consent : BOOLEAN, new : BOOLEAN,
        seen : Statuses, outcome : Outcomes]]
  /\ sweeper \in [todo : SUBSET Jobs, job : Jobs \cup {NoJob}, seen : Statuses]
  /\ failures \in 0 .. MaxFailures

(***************************************************************************)
(* No analysis is delivered or runs without a slot of its own, whatever    *)
(* requests, sweeps and releases do to each other and wherever they stop.  *)
(* The queue bounds the jobs in Redis, PostgreSQL decides what runs: so    *)
(* the limits of the one, on slots and on the jobs of a user, limit what   *)
(* the other lets run.                                                     *)
(***************************************************************************)
Delivered == {j \in Jobs : status[j] \in {"QUEUED", "RUNNING"}}
DeliveredHoldsSlot ==
  /\ Delivered \subseteq active
  /\ Cardinality(Delivered) <= ActiveLimit
  /\ \A i, j \in Delivered : Owner[i] = Owner[j] => i = j

(* A job that ended, was cancelled or expired is never opened again, by no *)
(* late publication, promotion or consent.                                 *)
EndedStaysEnded ==
  [][\A j \in Jobs : status[j] \in Terminal => status'[j] \in Terminal]_vars

(* A wait that expired in Redis is ended in PostgreSQL too, whatever the   *)
(* user does meanwhile, unless the sweep itself is killed.                 *)
ExpiredJobEnds ==
  \A j \in Jobs : j \in sweeper.todo ~> (status[j] \in Terminal \/ failures > 0)

(***************************************************************************)
(* What requests, releases and sweeps do to Redis, with their retries and  *)
(* wherever they stop, are runs of the queue specification: what holds of  *)
(* the queue alone, its proved limits and its FIFO order, holds here.      *)
(***************************************************************************)
ImplementsAdmission == Q!Spec

-----------------------------------------------------------------------------
(***************************************************************************)
(* docs/operations/production-runtime-policy-alignment-r5-r2.md: "terminal *)
(* release creates promoted job outbox".  A promotion that nothing         *)
(* interrupts leaves the promoted job with an outbox row.                  *)
(***************************************************************************)
PromotionCreatesOutbox ==
  [][\A j \in Jobs :
       j \in promoted /\ j \notin promoted' /\ failures' = failures => j \in outbox']_vars

(***************************************************************************)
(* The same line, "capacity release": while nothing stops half way, a job  *)
(* whose wait was cancelled or expired owns no slot, save one that is      *)
(* about to be released or that a request has just taken.                  *)
(***************************************************************************)
EndedWaitHoldsNoSlot ==
  failures = 0 =>
    \A j \in active : status[j] \in {"CANCELLED", "EXPIRED"} =>
      j \in releasing \/ \E r \in Requests : request[r].job = j
=============================================================================
