----------------------------- MODULE AnalysisJobs ----------------------------
(***************************************************************************)
(* The life of an analysis job between PostgreSQL, the Celery broker and   *)
(* the processes that serve it: the outbox publisher, the worker           *)
(* processes that execute _run_analysis and the lifecycle sweep.           *)
(*                                                                         *)
(* A transaction is one action, at its commit, except where the code lets  *)
(* other processes act between its parts: the publisher sends before it    *)
(* locks the job row and commits a whole batch at the end, and the sweep   *)
(* reads the row before the statement that locks it.  An action that takes *)
(* a row lock is disabled while a publisher holds that lock.               *)
(***************************************************************************)
EXTENDS Integers, FiniteSets

CONSTANTS
  Jobs,          \* analysis jobs
  Workers,       \* Celery processes that execute analysis tasks
  HostOf,        \* the host name a process signs its lease with (worker_id)
  Publishers,    \* executions of the outbox publication task
  Sweepers,      \* executions of the lifecycle sweep
  AutoRetry,     \* settings.analysis_automatic_retry_enabled
  MaxClaims,     \* bound of the model on lease_generation
  MaxMessages,   \* bound of the model on the copies of a job's message
  MaxCrashes,    \* bound of the model on process failures
  None           \* no worker, no job, no event

ASSUME JobsAssumption ==
  /\ AutoRetry \in BOOLEAN
  /\ MaxClaims \in Nat /\ MaxMessages \in Nat /\ MaxCrashes \in Nat
  /\ None \notin Jobs
  /\ \A w \in Workers : HostOf[w] # None

VARIABLES
  row,           \* analysis_jobs: one record per job
  outbox,        \* analysis_job_outbox: status of the row of each event
  runs,          \* analysis_runs: the generations persisted for a job
  game,          \* the submitted game: "submitted", "available" or "deleted"
  broker,        \* copies of the job's message in the Celery queue
  worker,        \* local state of the worker processes
  publisher,     \* local state of the publishers
  sweeper,       \* local state of the sweeps
  crashes        \* process failures so far

database == <<row, outbox, runs, game>>
vars == <<row, outbox, runs, game, broker, worker, publisher, sweeper, crashes>>

JSM == INSTANCE JobStateMachine WITH status <- [j \in Jobs |-> row[j].status],
                                     LateFailures <- Sweepers # {}

Terminal == JSM!Terminal

(***************************************************************************)
(* A definition whose comment begins with "Defect:" is no part of the      *)
(* specification.  It is a slip the code could contain, kept beside the    *)
(* definition it would replace to show which property would catch it.      *)
(*                                                                         *)
(* Outbox rows are unique per job and delivery generation: 0 for the first *)
(* delivery, the attempt count for a retry.  Claiming and scheduling a     *)
(* retry each add one to the attempt count.                                *)
(***************************************************************************)
Deliveries == 0 .. 2 * MaxClaims
Events == [job : Jobs, delivery : Deliveries]
Event(j, d) == [job |-> j, delivery |-> d]

Due == {e \in Events : outbox[e] = "PENDING"}

(* The row lock a publisher keeps from its update of the job to its commit. *)
Locked(j) == \E p \in Publishers : \E e \in publisher[p].marked : e.job = j

(* What create_if_absent inserts, if there is no such job. *)
NewJob == [status |-> "PENDING", worker |-> None, gen |-> 0, attempts |-> 0,
           expired |-> FALSE]

IdleWorker == [pc |-> "idle", job |-> None, gen |-> 0, onTime |-> FALSE]
IdlePublisher == [pc |-> "idle", todo |-> {}, sent |-> None, marked |-> {}]
IdleSweeper == [todo |-> {}, job |-> None, seen |-> "NONE"]

Init ==
  /\ row = [j \in Jobs |-> [NewJob EXCEPT !.status = "NONE"]]
  /\ outbox = [e \in Events |-> "absent"]
  /\ runs = [j \in Jobs |-> {}]
  /\ game = [j \in Jobs |-> "submitted"]
  /\ broker = [j \in Jobs |-> 0]
  /\ worker = [w \in Workers |-> IdleWorker]
  /\ publisher = [p \in Publishers |-> IdlePublisher]
  /\ sweeper = [s \in Sweepers |-> IdleSweeper]
  /\ crashes = 0

-----------------------------------------------------------------------------
(* create_for_completed_game: the job of a verified game with moves, none  *)
(* of whose results has been made available.                               *)
CreateJob(j) ==
  /\ game[j] = "submitted"
  /\ row[j].status = "NONE"
  /\ row' = [row EXCEPT ![j] = NewJob]
  /\ UNCHANGED <<outbox, runs, game, broker, worker, publisher, sweeper, crashes>>

(* ensure_outbox for a job that was admitted to a slot while PENDING. *)
EnsureOutbox(j) ==
  /\ row[j].status = "PENDING"
  /\ ~Locked(j)
  /\ outbox[Event(j, 0)] = "absent"
  /\ outbox' = [outbox EXCEPT ![Event(j, 0)] = "PENDING"]
  /\ UNCHANGED <<row, runs, game, broker, worker, publisher, sweeper, crashes>>

-----------------------------------------------------------------------------
(***************************************************************************)
(* OutboxPublisher.publish_due.  list_publishable_outbox locks the due     *)
(* rows no other publisher holds (SKIP LOCKED); each event is sent first   *)
(* and marked afterwards; _publish_outbox commits the batch.               *)
(***************************************************************************)
HeldEvents == UNION {publisher[p].todo \cup publisher[p].marked : p \in Publishers}

BeginPublish(p) ==
  /\ publisher[p].pc = "idle"
  /\ Due \ HeldEvents # {}
  /\ publisher' = [publisher EXCEPT ![p].pc = "send", ![p].todo = Due \ HeldEvents]
  /\ UNCHANGED <<database, broker, worker, sweeper, crashes>>

(* CeleryAnalysisQueue.enqueue_analysis_job *)
Enqueue(j) ==
  /\ broker[j] < MaxMessages
  /\ broker' = [broker EXCEPT ![j] = @ + 1]

Send(p, e) ==
  /\ publisher[p].pc = "send"
  /\ e \in publisher[p].todo
  /\ Enqueue(e.job)
  /\ publisher' = [publisher EXCEPT ![p].pc = "mark", ![p].sent = e]
  /\ UNCHANGED <<database, worker, sweeper, crashes>>

(* The broker is down: record_outbox_failure leaves the event due later. *)
SendFails(p, e) ==
  /\ publisher[p].pc = "send"
  /\ e \in publisher[p].todo
  /\ crashes < MaxCrashes
  /\ crashes' = crashes + 1
  /\ publisher' = [publisher EXCEPT ![p].todo = @ \ {e}]
  /\ UNCHANGED <<database, broker, worker, sweeper>>

(* No other publisher keeps the row of j. *)
Lockable(p, j) ==
  \A q \in Publishers \ {p} : \A e \in publisher[q].marked : e.job # j

(* mark_outbox_published: stage both updates, take the lock on the job. *)
Mark(p) ==
  LET e == publisher[p].sent IN
  /\ publisher[p].pc = "mark"
  /\ Lockable(p, e.job)
  /\ publisher' = [publisher EXCEPT ![p].pc = "send", ![p].sent = None,
                                    ![p].todo = @ \ {e}, ![p].marked = @ \cup {e}]
  /\ UNCHANGED <<database, broker, worker, sweeper, crashes>>

(* Defect: a retry only is moved on. *)
QueueableRetry == {"RETRY_SCHEDULED"}

(* The statuses that mark_outbox_published changes to QUEUED. *)
Queueable == {"PENDING", "RETRY_SCHEDULED"}

CommitPublish(p) ==
  LET done == publisher[p].marked
      queued == {e.job : e \in done} IN
  /\ publisher[p].pc = "send"
  /\ publisher[p].todo = {}
  /\ outbox' = [e \in Events |-> IF e \in done THEN "PUBLISHED" ELSE outbox[e]]
  /\ row' = [j \in Jobs |->
               IF j \in queued /\ row[j].status \in Queueable
               THEN [row[j] EXCEPT !.status = "QUEUED"] ELSE row[j]]
  /\ publisher' = [publisher EXCEPT ![p] = IdlePublisher]
  /\ UNCHANGED <<runs, game, broker, worker, sweeper, crashes>>

(* The publisher dies before its commit: what it sent stays sent. *)
PublisherDies(p) ==
  /\ publisher[p].pc # "idle"
  /\ crashes < MaxCrashes
  /\ crashes' = crashes + 1
  /\ publisher' = [publisher EXCEPT ![p] = IdlePublisher]
  /\ UNCHANGED <<database, broker, worker, sweeper>>

-----------------------------------------------------------------------------
(* AnalysisJobRepository._owns_lease for the generation w was granted. *)
OwnsLease(w) ==
  /\ row[worker[w].job].worker = HostOf[w]
  /\ row[worker[w].job].gen = worker[w].gen

(* The row after a lease ends: worker_id and the lease are cleared. *)
Unleased(r, s) == [r EXCEPT !.status = s, !.worker = None, !.expired = FALSE]

Goto(w, label) == worker' = [worker EXCEPT ![w].pc = label]
Finish(w) == worker' = [worker EXCEPT ![w] = IdleWorker]

Receive(w, j) ==
  /\ worker[w].pc = "idle"
  /\ broker[j] > 0
  /\ broker' = [broker EXCEPT ![j] = @ - 1]
  /\ worker' = [worker EXCEPT ![w] = [IdleWorker EXCEPT !.pc = "claim", !.job = j]]
  /\ UNCHANGED <<database, publisher, sweeper, crashes>>

(* Defect: a second delivery to the host that owns the lease resumes it. *)
ClaimResumesOwn(w) ==
  LET j == worker[w].job
      resume == row[j].status = "CLAIMED" /\ row[j].worker = HostOf[w] IN
  /\ worker[w].pc = "claim"
  /\ ~Locked(j)
  /\ row[j].status = "QUEUED" \/ resume
  /\ row[j].gen < MaxClaims
  /\ row' = [row EXCEPT ![j] = [status |-> "CLAIMED", worker |-> HostOf[w],
                                gen |-> IF resume THEN @.gen ELSE @.gen + 1,
                                attempts |-> @.attempts, expired |-> FALSE]]
  /\ worker' = [worker EXCEPT ![w].pc = "start", ![w].gen = row'[j].gen]
  /\ UNCHANGED <<outbox, runs, game, broker, publisher, sweeper, crashes>>

(* claim_job: the next generation, with a fresh lease. *)
Claimed(r, host) ==
  [status |-> "CLAIMED", worker |-> host, gen |-> r.gen + 1,
   attempts |-> r.attempts + 1, expired |-> FALSE]

Claim(w) ==
  LET j == worker[w].job IN
  /\ worker[w].pc = "claim"
  /\ ~Locked(j)
  /\ row[j].status = "QUEUED"
  /\ row[j].gen < MaxClaims
  /\ row' = [row EXCEPT ![j] = Claimed(@, HostOf[w])]
  /\ worker' = [worker EXCEPT ![w].pc = "start", ![w].gen = row[j].gen + 1]
  /\ UNCHANGED <<outbox, runs, game, broker, publisher, sweeper, crashes>>

(* "duplicate_or_ineligible": the message is acknowledged and forgotten. *)
IgnoreDelivery(w) ==
  /\ worker[w].pc = "claim"
  /\ ~Locked(worker[w].job)
  /\ row[worker[w].job].status # "QUEUED"
  /\ Finish(w)
  /\ UNCHANGED <<database, broker, publisher, sweeper, crashes>>

(* start_job *)
MayStart(w) == row[worker[w].job].status = "CLAIMED" /\ OwnsLease(w)

Start(w) ==
  LET j == worker[w].job IN
  /\ worker[w].pc = "start"
  /\ ~Locked(j)
  /\ IF MayStart(w)
     THEN row' = [row EXCEPT ![j].status = "RUNNING"] /\ Goto(w, "check")
     ELSE Finish(w) /\ UNCHANGED row
  /\ UNCHANGED <<outbox, runs, game, broker, publisher, sweeper, crashes>>

(* The execution authority check, an unlocked read of the row. *)
HasAuthority(w) ==
  /\ row[worker[w].job].status = "RUNNING"
  /\ OwnsLease(w)
  /\ ~row[worker[w].job].expired

CheckAuthority(w) ==
  /\ worker[w].pc = "check"
  /\ IF HasAuthority(w) THEN Goto(w, "analyse") ELSE Finish(w)
  /\ UNCHANGED <<database, broker, publisher, sweeper, crashes>>

(***************************************************************************)
(* The engine runs outside any transaction.  Later the lease is compared   *)
(* with the instant the analysis finished, which onTime remembers.  A      *)
(* failure is retried if classify_failure calls it retryable and automatic *)
(* retry is on.                                                            *)
(***************************************************************************)
Analyse(w) ==
  /\ worker[w].pc = "analyse"
  /\ worker' = [worker EXCEPT ![w].pc = "persist",
                              ![w].onTime = ~row[worker[w].job].expired]
  /\ UNCHANGED <<database, broker, publisher, sweeper, crashes>>

FailureHandlers == IF AutoRetry THEN {"fail", "retry"} ELSE {"fail"}
UnexpectedHandler == IF AutoRetry THEN "retry" ELSE "fail"

AnalysisRaises(w) ==
  /\ worker[w].pc \in {"check", "analyse", "persist"}
  /\ \E handler \in FailureHandlers : Goto(w, handler)
  /\ UNCHANGED <<database, broker, publisher, sweeper, crashes>>

(***************************************************************************)
(* persist_and_complete_owned_generation: one transaction writes the run,  *)
(* completes the job, makes the analysis available and deletes the         *)
(* submitted data, or it raises and changes nothing.                       *)
(***************************************************************************)
MayComplete(w) == row[worker[w].job].status = "RUNNING" /\ OwnsLease(w)

MayPersist(w) ==
  /\ MayComplete(w)
  /\ worker[w].onTime
  /\ game[worker[w].job] = "submitted"

Persist(w) ==
  LET j == worker[w].job IN
  /\ worker[w].pc = "persist"
  /\ ~Locked(j)
  /\ IF MayPersist(w)
     THEN /\ row' = [row EXCEPT ![j] = Unleased(@, "SUCCEEDED")]
          /\ runs' = [runs EXCEPT ![j] = @ \cup {worker[w].gen}]
          /\ game' = [game EXCEPT ![j] = "available"]
          /\ Goto(w, "release")
     ELSE Goto(w, UnexpectedHandler) /\ UNCHANGED <<row, runs, game>>
  /\ UNCHANGED <<outbox, broker, publisher, sweeper, crashes>>

(* _release_capacity after success; an error there enters the handler of   *)
(* the analysis although the job has already succeeded.                    *)
Release(w) ==
  /\ worker[w].pc = "release"
  /\ Finish(w) \/ Goto(w, UnexpectedHandler)
  /\ UNCHANGED <<database, broker, publisher, sweeper, crashes>>

(* Defect: the cleanup of a failed job is forgotten. *)
TerminalDataKept(data) == data

(* TerminalGameDataCleanup keeps the result of a job that has one. *)
TerminalData(data) == IF data = "available" THEN data ELSE "deleted"

(* AnalysisJobRepository.fail_job *)
MayFail(w) == row[worker[w].job].status \notin Terminal /\ OwnsLease(w)

(* AnalysisJobTerminalFailureService.fail_job *)
Fail(w) ==
  LET j == worker[w].job IN
  /\ worker[w].pc = "fail"
  /\ ~Locked(j)
  /\ IF MayFail(w)
     THEN /\ row' = [row EXCEPT ![j] = Unleased(@, "FAILED")]
          /\ game' = [game EXCEPT ![j] = TerminalData(@)]
     ELSE UNCHANGED <<row, game>>
  /\ Finish(w)
  /\ UNCHANGED <<outbox, runs, broker, publisher, sweeper, crashes>>

(* Defect: the retry is not fenced by the lease. *)
MayRetryUnfenced(w) == TRUE

(* Defect: the retry counts the attempt twice. *)
NextAttemptTwice(j) == row[j].attempts + 2

(* Defect: the retry reuses the outbox row of the first delivery. *)
RetryEventFirst(j) == Event(j, 0)

MayRetry(w) == row[worker[w].job].status \in {"CLAIMED", "RUNNING"} /\ OwnsLease(w)
NextAttempt(j) == row[j].attempts + 1
RetryEvent(j) == Event(j, NextAttempt(j))

(* schedule_retry, with the outbox row of the next delivery. *)
Rescheduled(j) == [Unleased(row[j], "RETRY_SCHEDULED") EXCEPT !.attempts = NextAttempt(j)]

Retry(w) ==
  LET j == worker[w].job IN
  /\ worker[w].pc = "retry"
  /\ ~Locked(j)
  /\ IF MayRetry(w)
     THEN /\ row' = [row EXCEPT ![j] = Rescheduled(j)]
          /\ outbox' = [outbox EXCEPT ![RetryEvent(j)] =
                          IF @ = "absent" THEN "PENDING" ELSE @]
     ELSE UNCHANGED <<row, outbox>>
  /\ Finish(w)
  /\ UNCHANGED <<runs, game, broker, publisher, sweeper, crashes>>

(***************************************************************************)
(* The process of w is killed, by the hard time limit or by the system.    *)
(* task_reject_on_worker_lost is off, so the parent acknowledges the       *)
(* message and raises task_failure.  terminalize_hard_worker_failure       *)
(* looks for the payload in args, but CeleryAnalysisQueue sends it in      *)
(* kwargs: the payload is rejected and the job left as it is.              *)
(***************************************************************************)
Kill(w) ==
  /\ worker[w].pc \notin {"idle", "killed"}
  /\ crashes < MaxCrashes
  /\ crashes' = crashes + 1
  /\ Goto(w, "killed")
  /\ UNCHANGED <<database, broker, publisher, sweeper>>

TaskFailureSignal(w) ==
  /\ worker[w].pc = "killed"
  /\ Finish(w)
  /\ UNCHANGED <<database, broker, publisher, sweeper, crashes>>

(* The whole host dies: acks_late makes the broker deliver again. *)
HostDies(w) ==
  /\ worker[w].pc \notin {"idle", "killed"}
  /\ crashes < MaxCrashes
  /\ crashes' = crashes + 1
  /\ broker[worker[w].job] < MaxMessages
  /\ broker' = [broker EXCEPT ![worker[w].job] = @ + 1]
  /\ Finish(w)
  /\ UNCHANGED <<database, publisher, sweeper>>

-----------------------------------------------------------------------------
(* Time passes the lease_expires_at of a leased job. *)
LeaseExpires(j) ==
  /\ row[j].status \in {"CLAIMED", "RUNNING"}
  /\ ~row[j].expired
  /\ row' = [row EXCEPT ![j].expired = TRUE]
  /\ UNCHANGED <<outbox, runs, game, broker, worker, publisher, sweeper, crashes>>

(* Defect: a job that was claimed and never started is not looked for. *)
ExpiredRunning == {j \in Jobs : row[j].status = "RUNNING" /\ row[j].expired}

ExpiredActive == {j \in Jobs : row[j].status \in {"CLAIMED", "RUNNING"} /\ row[j].expired}

(* _sweep_lifecycle: list_expired_active_jobs, then one job after another. *)
ListExpired(s) ==
  /\ sweeper[s] = IdleSweeper
  /\ ExpiredActive # {}
  /\ sweeper' = [sweeper EXCEPT ![s].todo = ExpiredActive]
  /\ UNCHANGED <<database, broker, worker, publisher, crashes>>

(***************************************************************************)
(* _terminalize_external_failure reads the row without a lock.  The object *)
(* stays in the session, whose identity map hands the same attributes to   *)
(* the locking query of terminalize_job: the status tested is `seen', and  *)
(* the columns that looked cleared already are not written.                *)
(***************************************************************************)
ReadJob(s, j) ==
  /\ sweeper[s].job = None
  /\ j \in sweeper[s].todo
  /\ sweeper' = [sweeper EXCEPT ![s] = [todo |-> @.todo \ {j}, job |-> j,
                                        seen |-> row[j].status]]
  /\ UNCHANGED <<database, broker, worker, publisher, crashes>>

Terminalized(r, seen) ==
  IF seen \in {"CLAIMED", "RUNNING"} THEN Unleased(r, "FAILED")
  ELSE [r EXCEPT !.status = "FAILED"]

(* AnalysisJobTerminalService.terminalize: the row and the submitted data. *)
Terminalize(s) ==
  LET j == sweeper[s].job IN
  /\ j # None
  /\ ~Locked(j)
  /\ IF sweeper[s].seen \notin Terminal
     THEN /\ row' = [row EXCEPT ![j] = Terminalized(@, sweeper[s].seen)]
          /\ game' = [game EXCEPT ![j] = TerminalData(@)]
     ELSE UNCHANGED <<row, game>>
  /\ sweeper' = [sweeper EXCEPT ![s].job = None, ![s].seen = "NONE"]
  /\ UNCHANGED <<outbox, runs, broker, worker, publisher, crashes>>

-----------------------------------------------------------------------------
PublisherStep(p) ==
  \/ BeginPublish(p)
  \/ \E e \in Events : Send(p, e) \/ SendFails(p, e)
  \/ Mark(p)
  \/ CommitPublish(p)
  \/ PublisherDies(p)

WorkerStep(w) ==
  \/ \E j \in Jobs : Receive(w, j)
  \/ Claim(w) \/ IgnoreDelivery(w) \/ Start(w) \/ CheckAuthority(w)
  \/ Analyse(w) \/ AnalysisRaises(w) \/ Persist(w) \/ Release(w)
  \/ Fail(w) \/ Retry(w)
  \/ Kill(w) \/ TaskFailureSignal(w) \/ HostDies(w)

SweeperStep(s) ==
  \/ ListExpired(s)
  \/ \E j \in Jobs : ReadJob(s, j)
  \/ Terminalize(s)

Next ==
  \/ \E j \in Jobs : CreateJob(j) \/ EnsureOutbox(j) \/ LeaseExpires(j)
  \/ \E p \in Publishers : PublisherStep(p)
  \/ \E w \in Workers : WorkerStep(w)
  \/ \E s \in Sweepers : SweeperStep(s)

Spec == Init /\ [][Next]_vars

(***************************************************************************)
(* Leases run out and the sweep, which beat starts every five seconds,     *)
(* goes through its list; a publisher that is not killed ends its batch.   *)
(* Nothing is assumed of the workers: any of them may hang for ever.       *)
(***************************************************************************)
Fairness ==
  /\ \A j \in Jobs : WF_vars(LeaseExpires(j))
  /\ \A s \in Sweepers : WF_vars(SweeperStep(s))
  /\ \A p \in Publishers :
       WF_vars(BeginPublish(p) \/ (\E e \in Events : Send(p, e))
                 \/ Mark(p) \/ CommitPublish(p))

FairSpec == Spec /\ Fairness

-----------------------------------------------------------------------------
Rows ==
  [status : JSM!Statuses \cup {"NONE"}, worker : {HostOf[w] : w \in Workers} \cup {None},
   gen : 0 .. MaxClaims, attempts : Deliveries, expired : BOOLEAN]

WorkerStates ==
  [pc : {"idle", "claim", "start", "check", "analyse", "persist",
         "release", "fail", "retry", "killed"},
   job : Jobs \cup {None}, gen : 0 .. MaxClaims, onTime : BOOLEAN]

PublisherStates ==
  [pc : {"idle", "send", "mark"}, todo : SUBSET Events,
   sent : Events \cup {None}, marked : SUBSET Events]

SweeperStates ==
  [todo : SUBSET Jobs, job : Jobs \cup {None}, seen : JSM!Statuses \cup {"NONE"}]

(* Type invariant: columns and processes keep values of their kinds. *)
TypeOK ==
  /\ row \in [Jobs -> Rows]
  /\ outbox \in [Events -> {"absent", "PENDING", "PUBLISHED"}]
  /\ runs \in [Jobs -> SUBSET (1 .. MaxClaims)]
  /\ game \in [Jobs -> {"submitted", "available", "deleted"}]
  /\ broker \in [Jobs -> 0 .. MaxMessages]
  /\ worker \in [Workers -> WorkerStates]
  /\ publisher \in [Publishers -> PublisherStates]
  /\ sweeper \in [Sweepers -> SweeperStates]
  /\ crashes \in 0 .. MaxCrashes

(***************************************************************************)
(* The lease generation fences executions: processes of one host sign with *)
(* the same worker_id, so two executions may only be told apart by the     *)
(* generation, and no generation is ever granted twice -- even with        *)
(* duplicated messages, retries and lost processes.                        *)
(***************************************************************************)
GenerationsAreUnique ==
  \A v, w \in Workers :
    v # w /\ worker[v].job = worker[w].job /\ worker[v].gen > 0
      => worker[v].gen # worker[w].gen

(***************************************************************************)
(* A job has at most one persisted run, that of its current generation,    *)
(* and a successful job has one: no second result appears beside the first *)
(* and no stale execution leaves one behind.                               *)
(***************************************************************************)
OneRunPerJob ==
  \A j \in Jobs :
    /\ runs[j] \subseteq {row[j].gen}
    /\ row[j].status = "SUCCEEDED" => runs[j] # {}
    /\ runs[j] # {} <=> game[j] = "available"

(***************************************************************************)
(* Submitted game data survives while, and only while, the job is open:    *)
(* deleted in the transaction that ends the job, on every path, never      *)
(* under an execution that could still need it.                            *)
(***************************************************************************)
DataLivesWithJob ==
  \A j \in Jobs : game[j] = "submitted" <=> row[j].status \notin Terminal

(***************************************************************************)
(* A job that waits for a delivery is never forgotten by the outbox: its   *)
(* row is not marked published before the job is queued, and a scheduled   *)
(* retry has its own row due.                                              *)
(***************************************************************************)
WaitingJobIsDue ==
  \A j \in Jobs :
    /\ row[j].status = "PENDING" => outbox[Event(j, 0)] # "PUBLISHED"
    /\ row[j].status = "RETRY_SCHEDULED" =>
         outbox[Event(j, row[j].attempts)] = "PENDING"

(***************************************************************************)
(* Every row change is a transition of analysis/state.py, save the late    *)
(* FAILED of the sweep that FirstTerminalWriteWins is about: no stale      *)
(* worker, duplicated message or error after the terminal commit reopens,  *)
(* retries or fails a job that has ended.                                  *)
(***************************************************************************)
ImplementsStateMachine == JSM!Spec

(***************************************************************************)
(* A leased job does not stay leased: whatever becomes of the worker, its  *)
(* lease runs out and the sweep ends the job.                              *)
(***************************************************************************)
Leased(j) == row[j].status \in {"CLAIMED", "RUNNING"}
LeaseAlwaysEnds == \A j \in Jobs : Leased(j) ~> ~Leased(j)

(* A due outbox row reaches the broker: its job does not stay PENDING. *)
DueJobIsQueued ==
  \A j \in Jobs : outbox[Event(j, 0)] = "PENDING" ~> row[j].status # "PENDING"

-----------------------------------------------------------------------------
(***************************************************************************)
(* docs/operations/production-runtime-policy-alignment-r5-r2.md: "first    *)
(* terminal write wins; late completion rejected".                         *)
(***************************************************************************)
FirstTerminalWriteWins ==
  [][\A j \in Jobs : row[j].status \in Terminal => row'[j].status = row[j].status]_vars

(***************************************************************************)
(* worker.py audits a delivery it does not execute as                      *)
(* "analysis_job_duplicate_delivery_ignored": a delivery that is ignored   *)
(* is a duplicate, of a job already claimed, or finds the job ended.       *)
(***************************************************************************)
OnlyDuplicatesAreIgnored ==
  [][\A w \in Workers :
       worker[w].pc = "claim" /\ worker'[w].pc = "idle" /\ crashes' = crashes
         => row[worker[w].job].gen > 0 \/ row[worker[w].job].status \in Terminal]_vars

(***************************************************************************)
(* The same document: the analysis timeout ends in the "hard-failure       *)
(* terminal path".  When the signal handler of a killed execution returns, *)
(* the job it was running is terminal.                                     *)
(***************************************************************************)
HardFailureTerminalizes ==
  [][\A w \in Workers :
       /\ worker[w].pc = "killed" /\ worker'[w].pc = "idle"
       /\ row[worker[w].job].status = "RUNNING" /\ OwnsLease(w)
       => row'[worker[w].job].status \in Terminal]_vars
=============================================================================
