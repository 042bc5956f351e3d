------------------------- MODULE AnalysisJobsProofs -------------------------
(***************************************************************************)
(* The fences of AnalysisJobs hold for any number of jobs, processes,      *)
(* publishers and sweeps.  They lean on one another: a generation is never *)
(* granted twice because a worker's is at most the row's; a claim finds no *)
(* run because only an open job has its submitted data; a retry has its    *)
(* outbox row to itself because no row is numbered past the attempts.      *)
(***************************************************************************)
EXTENDS AnalysisJobs, TLAPS

(* A process that is not idle executes a job, under a generation that was  *)
(* granted: it is not ahead of the row.                                    *)
WorkersHoldJobs ==
  \A w \in Workers :
    IF worker[w].pc = "idle" THEN worker[w] = IdleWorker
    ELSE worker[w].job \in Jobs /\ worker[w].gen <= row[worker[w].job].gen

(* A claim and the retry that may follow it count one attempt each. *)
AttemptsCounted ==
  \A j \in Jobs :
    /\ row[j].attempts <= 2 * row[j].gen
    /\ row[j].status \in {"CLAIMED", "RUNNING"} => row[j].attempts < 2 * row[j].gen

(* A job without a row has no lease and no delivery; none is cancelled     *)
(* here, for that is a matter of the queue.                                *)
RowsBegin ==
  \A j \in Jobs :
    /\ row[j].status = "NONE" =>
         /\ row[j].worker = None /\ row[j].gen = 0 /\ row[j].attempts = 0
         /\ outbox[Event(j, 0)] = "absent"
    /\ row[j].status # "CANCELLED"

(* No delivery is numbered past the attempts. *)
DeliveriesNumbered ==
  \A e \in Events : outbox[e] # "absent" => e.delivery <= row[e.job].attempts

(* A publisher holds events that exist, and has sent one of them. *)
PublishersHoldEvents ==
  \A p \in Publishers :
    /\ \A e \in publisher[p].todo \cup publisher[p].marked : outbox[e] # "absent"
    /\ publisher[p].pc = "mark" => publisher[p].sent \in publisher[p].todo

(* A sweep holds jobs that exist. *)
SweepersHoldJobs ==
  \A s \in Sweepers : \A j \in Jobs :
    j \in sweeper[s].todo \/ j = sweeper[s].job => row[j].status # "NONE"

IInv ==
  /\ TypeOK
  /\ GenerationsAreUnique /\ OneRunPerJob /\ DataLivesWithJob /\ WaitingJobIsDue
  /\ WorkersHoldJobs /\ AttemptsCounted /\ RowsBegin
  /\ DeliveriesNumbered /\ PublishersHoldEvents /\ SweepersHoldJobs
-----------------------------------------------------------------------------
LEMMA InitialStates ==
  /\ [NewJob EXCEPT !.status = "NONE"] \in Rows
  /\ NewJob \in Rows
  /\ IdleWorker \in WorkerStates
  /\ IdlePublisher \in PublisherStates
  /\ IdleSweeper \in SweeperStates
<1> USE JobsAssumption
<1>1. FALSE \in BOOLEAN
  OBVIOUS
<1>2. 0 \in Deliveries /\ 0 \in 0 .. MaxClaims
  BY DEF Deliveries
<1>3. [NewJob EXCEPT !.status = "NONE"] \in Rows /\ NewJob \in Rows
  BY <1>1, <1>2 DEF NewJob, Rows, JSM!Statuses
<1>4. IdleWorker \in WorkerStates
  BY <1>1, <1>2 DEF IdleWorker, WorkerStates
<1>5. IdlePublisher \in PublisherStates
  BY DEF IdlePublisher, PublisherStates
<1>6. IdleSweeper \in SweeperStates
  BY DEF IdleSweeper, SweeperStates
<1> QED BY <1>3, <1>4, <1>5, <1>6

LEMMA InitEstablishes == Init => IInv
<1> SUFFICES ASSUME Init PROVE IInv
  OBVIOUS
<1> USE JobsAssumption DEF Init
<1>1. TypeOK
  BY InitialStates DEF TypeOK
<1>2. GenerationsAreUnique /\ WorkersHoldJobs
  BY DEF GenerationsAreUnique, WorkersHoldJobs, IdleWorker
<1>3. OneRunPerJob /\ DataLivesWithJob
  BY DEF OneRunPerJob, DataLivesWithJob, NewJob, Terminal, JSM!Terminal
<1>4. WaitingJobIsDue /\ AttemptsCounted
  BY DEF WaitingJobIsDue, AttemptsCounted, NewJob
<1>5. RowsBegin
  BY DEF RowsBegin, NewJob, Event, Events, Deliveries
<1>6. DeliveriesNumbered
  BY DEF DeliveriesNumbered
<1>7. PublishersHoldEvents /\ SweepersHoldJobs
  BY DEF PublishersHoldEvents, SweepersHoldJobs, IdlePublisher, IdleSweeper
<1> QED BY <1>1, <1>2, <1>3, <1>4, <1>5, <1>6, <1>7 DEF IInv

-----------------------------------------------------------------------------
(* What a process of a worker may become between two claims: idle, or busy *)
(* with its job and generation, or with a job of which it has no lease.    *)
Successor(w, k) ==
  /\ k \in WorkerStates
  /\ \/ k = IdleWorker
     \/ /\ k.pc # "idle" /\ k.job \in Jobs
        /\ k.gen = 0 \/ (k.job = worker[w].job /\ k.gen = worker[w].gen)

(* No generation of a row is taken back. *)
GenerationsGrow == \A j \in Jobs : row[j].gen <= row'[j].gen

LEMMA WorkerMoves ==
  ASSUME IInv, NEW w \in Workers, NEW k, Successor(w, k),
         worker' = [worker EXCEPT ![w] = k],
         row' \in [Jobs -> Rows], GenerationsGrow
  PROVE  /\ worker' \in [Workers -> WorkerStates]
         /\ WorkersHoldJobs' /\ GenerationsAreUnique'
<1> USE DEF IInv, TypeOK, Successor
<1>1. worker' \in [Workers -> WorkerStates]
  OBVIOUS
<1>2. \A j \in Jobs : row[j].gen \in Nat /\ row'[j].gen \in Nat
  BY DEF Rows
<1>3. \A v \in Workers : worker'[v] = IF v = w THEN k ELSE worker[v]
  OBVIOUS
<1>4. \A v \in Workers : worker[v].gen \in Nat
  BY DEF WorkerStates
<1>5. WorkersHoldJobs'
  <2> SUFFICES ASSUME NEW v \in Workers
               PROVE  IF worker'[v].pc = "idle" THEN worker'[v] = IdleWorker
                      ELSE worker'[v].job \in Jobs /\ worker'[v].gen <= row'[worker'[v].job].gen
    BY DEF WorkersHoldJobs
  <2>1. CASE v # w
    BY <1>2, <1>3, <1>4, <2>1 DEF WorkersHoldJobs, GenerationsGrow
  <2>2. CASE v = w /\ k = IdleWorker
    BY <1>3, <2>2 DEF IdleWorker
  <2>3. CASE v = w /\ k.pc # "idle" /\ k.job \in Jobs /\ k.gen = 0
    BY <1>2, <1>3, <2>3
  <2>4. CASE v = w /\ k.pc # "idle" /\ k.job \in Jobs /\ k.job = worker[w].job /\ k.gen = worker[w].gen
    <3>1. k.gen <= row[k.job].gen
      BY <2>4, <1>2 DEF WorkersHoldJobs, IdleWorker
    <3> QED BY <1>2, <1>3, <1>4, <2>4, <3>1 DEF GenerationsGrow
  <2> QED BY <2>1, <2>2, <2>3, <2>4
<1>6. GenerationsAreUnique'
  <2> SUFFICES ASSUME NEW u \in Workers, NEW v \in Workers, u # v,
                      worker'[u].job = worker'[v].job, worker'[u].gen > 0,
                      worker'[u].gen = worker'[v].gen
               PROVE  FALSE
    BY DEF GenerationsAreUnique
  <2>1. \A x \in Workers : worker'[x].gen > 0 =>
          worker'[x].job = worker[x].job /\ worker'[x].gen = worker[x].gen
    BY <1>3, <1>4 DEF IdleWorker
  <2> QED BY <2>1 DEF GenerationsAreUnique
<1> QED BY <1>1, <1>5, <1>6

LEMMA WorkersStay ==
  ASSUME IInv, worker' = worker, row' \in [Jobs -> Rows], GenerationsGrow
  PROVE  WorkersHoldJobs' /\ GenerationsAreUnique'
<1>1. \A j \in Jobs : row[j].gen \in Nat /\ row'[j].gen \in Nat
  BY DEF IInv, TypeOK, Rows
<1>2. \A v \in Workers : worker[v].gen \in Nat
  BY DEF IInv, TypeOK, WorkerStates
<1> QED BY <1>1, <1>2 DEF IInv, WorkersHoldJobs, GenerationsAreUnique, GenerationsGrow

(* A step that leaves the database alone. *)
LEMMA WorkerStepPreserves ==
  ASSUME IInv, NEW w \in Workers, NEW k, Successor(w, k),
         worker' = [worker EXCEPT ![w] = k],
         broker' \in [Jobs -> 0 .. MaxMessages], crashes' \in 0 .. MaxCrashes,
         UNCHANGED <<database, publisher, sweeper>>
  PROVE  IInv'
<1> USE DEF database
<1>1. row' \in [Jobs -> Rows] /\ GenerationsGrow
  BY DEF IInv, TypeOK, GenerationsGrow, Rows
<1>2. /\ worker' \in [Workers -> WorkerStates]
      /\ WorkersHoldJobs' /\ GenerationsAreUnique'
  BY <1>1, WorkerMoves
<1>3. TypeOK'
  BY <1>2 DEF IInv, TypeOK
<1>4. OneRunPerJob' /\ DataLivesWithJob' /\ WaitingJobIsDue' /\ AttemptsCounted'
  BY DEF IInv, OneRunPerJob, DataLivesWithJob, WaitingJobIsDue, AttemptsCounted
<1>5. RowsBegin' /\ DeliveriesNumbered' /\ PublishersHoldEvents' /\ SweepersHoldJobs'
  BY DEF IInv, RowsBegin, DeliveriesNumbered, PublishersHoldEvents, SweepersHoldJobs
<1> QED BY <1>2, <1>3, <1>4, <1>5 DEF IInv

LEMMA PublisherStepPreserves ==
  ASSUME IInv, NEW p \in Publishers, NEW k \in PublisherStates,
         publisher' = [publisher EXCEPT ![p] = k],
         \A e \in k.todo \cup k.marked : outbox[e] # "absent",
         k.pc = "mark" => k.sent \in k.todo,
         broker' \in [Jobs -> 0 .. MaxMessages], crashes' \in 0 .. MaxCrashes,
         UNCHANGED <<database, worker, sweeper>>
  PROVE  IInv'
<1> USE DEF database
<1>1. row' \in [Jobs -> Rows] /\ GenerationsGrow
  BY DEF IInv, TypeOK, GenerationsGrow, Rows
<1>2. WorkersHoldJobs' /\ GenerationsAreUnique'
  BY <1>1, WorkersStay
<1>3. publisher' \in [Publishers -> PublisherStates]
  BY DEF IInv, TypeOK
<1>4. TypeOK'
  BY <1>3 DEF IInv, TypeOK
<1>5. OneRunPerJob' /\ DataLivesWithJob' /\ WaitingJobIsDue' /\ AttemptsCounted'
  BY DEF IInv, OneRunPerJob, DataLivesWithJob, WaitingJobIsDue, AttemptsCounted
<1>6. RowsBegin' /\ DeliveriesNumbered' /\ SweepersHoldJobs'
  BY DEF IInv, RowsBegin, DeliveriesNumbered, SweepersHoldJobs
<1>7. PublishersHoldEvents'
  <2>1. \A q \in Publishers : publisher'[q] = IF q = p THEN k ELSE publisher[q]
    BY DEF IInv, TypeOK
  <2> QED BY <2>1 DEF IInv, PublishersHoldEvents
<1> QED BY <1>2, <1>4, <1>5, <1>6, <1>7 DEF IInv

LEMMA SweeperStepPreserves ==
  ASSUME IInv, NEW s \in Sweepers, NEW k \in SweeperStates,
         sweeper' = [sweeper EXCEPT ![s] = k],
         \A j \in Jobs : j \in k.todo \/ j = k.job => row[j].status # "NONE",
         UNCHANGED <<database, broker, worker, publisher, crashes>>
  PROVE  IInv'
<1> USE DEF database
<1>1. row' \in [Jobs -> Rows] /\ GenerationsGrow
  BY DEF IInv, TypeOK, GenerationsGrow, Rows
<1>2. WorkersHoldJobs' /\ GenerationsAreUnique'
  BY <1>1, WorkersStay
<1>3. sweeper' \in [Sweepers -> SweeperStates]
  BY DEF IInv, TypeOK
<1>4. TypeOK'
  BY <1>3 DEF IInv, TypeOK
<1>5. OneRunPerJob' /\ DataLivesWithJob' /\ WaitingJobIsDue' /\ AttemptsCounted'
  BY DEF IInv, OneRunPerJob, DataLivesWithJob, WaitingJobIsDue, AttemptsCounted
<1>6. RowsBegin' /\ DeliveriesNumbered' /\ PublishersHoldEvents'
  BY DEF IInv, RowsBegin, DeliveriesNumbered, PublishersHoldEvents
<1>7. SweepersHoldJobs'
  <2>1. \A t \in Sweepers : sweeper'[t] = IF t = s THEN k ELSE sweeper[t]
    BY DEF IInv, TypeOK
  <2> QED BY <2>1 DEF IInv, SweepersHoldJobs
<1> QED BY <1>2, <1>4, <1>5, <1>6, <1>7 DEF IInv

-----------------------------------------------------------------------------
(* One row changes, and neither outbox nor publishers do: what follows of  *)
(* the deliveries.                                                         *)
RowBecomes(j, k) ==
  /\ row' = [row EXCEPT ![j] = k]
  /\ k \in Rows
  /\ k.gen >= row[j].gen
  /\ k.attempts >= row[j].attempts
  /\ k.attempts <= 2 * k.gen
  /\ k.status \in {"CLAIMED", "RUNNING"} => k.attempts < 2 * k.gen
  /\ k.status \notin {"NONE", "CANCELLED", "RETRY_SCHEDULED"}
  /\ k.status = "PENDING" => outbox[Event(j, 0)] = "absent"
  /\ UNCHANGED <<outbox, publisher>>

LEMMA RowIs ==
  ASSUME IInv, NEW j \in Jobs, NEW k, row' = [row EXCEPT ![j] = k], k \in Rows
  PROVE  /\ row' \in [Jobs -> Rows]
         /\ \A i \in Jobs : row'[i] = IF i = j THEN k ELSE row[i]
         /\ \A i \in Jobs : {row[i].gen, row'[i].gen} \subseteq Nat
         /\ \A i \in Jobs : {row[i].attempts, row'[i].attempts} \subseteq Nat
<1>1. /\ row' \in [Jobs -> Rows]
      /\ \A i \in Jobs : row'[i] = IF i = j THEN k ELSE row[i]
  BY DEF IInv, TypeOK
<1>2. \A r \in Rows : r.gen \in Nat /\ r.attempts \in Nat
  BY JobsAssumption DEF Rows, Deliveries
<1> QED BY <1>1, <1>2 DEF IInv, TypeOK

LEMMA RowChanges ==
  ASSUME IInv, NEW j \in Jobs, NEW k, RowBecomes(j, k)
  PROVE  /\ row' \in [Jobs -> Rows] /\ GenerationsGrow
         /\ AttemptsCounted' /\ RowsBegin' /\ DeliveriesNumbered'
         /\ WaitingJobIsDue' /\ PublishersHoldEvents'
         /\ \A i \in Jobs : row[i].status # "NONE" => row'[i].status # "NONE"
<1> USE DEF IInv, RowBecomes
<1>1. /\ row' \in [Jobs -> Rows]
      /\ \A i \in Jobs : row'[i] = IF i = j THEN k ELSE row[i]
      /\ \A i \in Jobs : {row[i].gen, row'[i].gen} \subseteq Nat
      /\ \A i \in Jobs : {row[i].attempts, row'[i].attempts} \subseteq Nat
  BY RowIs
<1>2. GenerationsGrow
  BY <1>1 DEF GenerationsGrow
<1>3. AttemptsCounted'
  BY <1>1 DEF AttemptsCounted
<1>4. RowsBegin'
  BY <1>1 DEF RowsBegin
<1>5. DeliveriesNumbered'
  <2> SUFFICES ASSUME NEW e \in Events, outbox[e] # "absent"
               PROVE  e.delivery <= row'[e.job].attempts
    BY DEF DeliveriesNumbered
  <2>1. e.job \in Jobs /\ e.delivery \in Nat
    BY JobsAssumption DEF Events, Deliveries
  <2>2. e.delivery <= row[e.job].attempts
    BY DEF DeliveriesNumbered
  <2> QED BY <1>1, <2>1, <2>2
<1>6. WaitingJobIsDue'
  BY <1>1 DEF WaitingJobIsDue
<1>7. PublishersHoldEvents'
  BY DEF PublishersHoldEvents
<1> QED BY <1>1, <1>2, <1>3, <1>4, <1>5, <1>6, <1>7

(* A row that keeps its counts, outside the statuses that await delivery. *)
LEMMA CountsKept ==
  ASSUME IInv, NEW j \in Jobs, NEW k \in Rows, row' = [row EXCEPT ![j] = k],
         k.gen = row[j].gen, k.attempts = row[j].attempts,
         k.status \notin {"NONE", "CANCELLED", "PENDING", "RETRY_SCHEDULED"},
         k.status \in {"CLAIMED", "RUNNING"} => row[j].status \in {"CLAIMED", "RUNNING"},
         UNCHANGED <<outbox, publisher>>
  PROVE  RowBecomes(j, k)
<1>1. {row[j].gen, row[j].attempts} \subseteq Nat
  BY RowIs
<1> QED BY <1>1 DEF RowBecomes, IInv, AttemptsCounted

(* A job that was open and stays open keeps its submitted data. *)
LEMMA OpenStays ==
  ASSUME IInv, NEW j \in Jobs, NEW k \in Rows, row' = [row EXCEPT ![j] = k],
         row[j].status \notin Terminal, k.status \notin Terminal,
         UNCHANGED <<runs, game>>
  PROVE  OneRunPerJob' /\ DataLivesWithJob'
<1>1. \A i \in Jobs : row'[i] = IF i = j THEN k ELSE row[i]
  BY RowIs
<1>2. game[j] = "submitted" /\ runs[j] = {}
  BY DEF IInv, DataLivesWithJob, OneRunPerJob
<1>3. DataLivesWithJob'
  BY <1>1 DEF IInv, DataLivesWithJob
<1>4. OneRunPerJob'
  BY <1>1, <1>2 DEF IInv, OneRunPerJob, Terminal, JSM!Terminal
<1> QED BY <1>3, <1>4

(* A job fails, if it was not taken for ended before. *)
LEMMA FailureCleans ==
  ASSUME IInv, NEW j \in Jobs, NEW k \in Rows, row' = [row EXCEPT ![j] = k],
         k.status = "FAILED", k.gen = row[j].gen,
         game' = [game EXCEPT ![j] = TerminalData(@)], UNCHANGED runs
  PROVE  /\ OneRunPerJob' /\ DataLivesWithJob'
         /\ game' \in [Jobs -> {"submitted", "available", "deleted"}]
<1>1. \A i \in Jobs : row'[i] = IF i = j THEN k ELSE row[i]
  BY RowIs
<1>2. /\ game' \in [Jobs -> {"submitted", "available", "deleted"}]
      /\ \A i \in Jobs : game'[i] = IF i = j THEN TerminalData(game[i]) ELSE game[i]
  BY DEF IInv, TypeOK, TerminalData
<1>3. DataLivesWithJob'
  BY <1>1, <1>2 DEF IInv, DataLivesWithJob, TerminalData, Terminal, JSM!Terminal
<1>4. OneRunPerJob'
  BY <1>1, <1>2 DEF IInv, OneRunPerJob, TerminalData
<1> QED BY <1>2, <1>3, <1>4

-----------------------------------------------------------------------------
(* What JobStateMachine allows a step to do to the status of a job. *)
MayMove(from, to) ==
  \/ to = from
  \/ to \in JSM!Allowed[from]
  \/ Sweepers # {} /\ from = "SUCCEEDED" /\ to = "FAILED"

StatusesFollow == \A j \in Jobs : MayMove(row[j].status, row'[j].status)

(* The transitions that the actions take. *)
LEMMA Transitions ==
  /\ MayMove("NONE", "PENDING")
  /\ MayMove("PENDING", "QUEUED") /\ MayMove("RETRY_SCHEDULED", "QUEUED")
  /\ MayMove("QUEUED", "CLAIMED") /\ MayMove("CLAIMED", "RUNNING")
  /\ MayMove("RUNNING", "SUCCEEDED")
  /\ MayMove("CLAIMED", "RETRY_SCHEDULED") /\ MayMove("RUNNING", "RETRY_SCHEDULED")
  /\ \A from \in {"PENDING", "QUEUED", "CLAIMED", "RUNNING", "RETRY_SCHEDULED", "FAILED"} :
       MayMove(from, "FAILED")
BY DEF MayMove, JSM!Allowed

LEMMA OneMoves ==
  ASSUME IInv, NEW j \in Jobs, NEW k \in Rows, row' = [row EXCEPT ![j] = k],
         MayMove(row[j].status, k.status)
  PROVE  StatusesFollow
<1>1. \A i \in Jobs : row'[i] = IF i = j THEN k ELSE row[i]
  BY RowIs
<1> QED BY <1>1 DEF StatusesFollow, MayMove

-----------------------------------------------------------------------------
(* The two ways in which a process goes on without a new generation. *)
Moves(w, k) == Successor(w, k) /\ worker' = [worker EXCEPT ![w] = k]

Labels == {"claim", "start", "check", "analyse", "persist", "release", "fail", "retry", "killed"}

LEMMA GotoMoves ==
  ASSUME IInv, NEW w \in Workers, NEW label \in Labels, worker[w].pc # "idle", Goto(w, label)
  PROVE  \E k : Moves(w, k)
<1> DEFINE k == [worker[w] EXCEPT !.pc = label]
<1>1. worker[w] \in WorkerStates /\ worker[w].job \in Jobs
  BY DEF IInv, TypeOK, WorkersHoldJobs
<1>2. Successor(w, k)
  BY <1>1 DEF Successor, WorkerStates, Labels
<1>3. worker' = [worker EXCEPT ![w] = k]
  BY DEF Goto, IInv, TypeOK
<1> QED BY <1>2, <1>3 DEF Moves

LEMMA FinishMoves ==
  ASSUME NEW w \in Workers, Finish(w)
  PROVE  \E k : Moves(w, k)
<1>1. Successor(w, IdleWorker)
  BY InitialStates DEF Successor
<1> QED BY <1>1 DEF Moves, Finish

LEMMA HandlerLabels == FailureHandlers \subseteq Labels /\ UnexpectedHandler \in Labels
BY DEF FailureHandlers, UnexpectedHandler, Labels

LEMMA BusyHoldsJob ==
  ASSUME IInv, NEW w \in Workers, worker[w].pc # "idle"
  PROVE  /\ worker[w] \in WorkerStates /\ worker[w].job \in Jobs
         /\ row[worker[w].job] \in Rows
BY DEF IInv, TypeOK, WorkersHoldJobs

(* The steps of a process that leave the database alone. *)
LEMMA ReceivePreserves ==
  ASSUME IInv, NEW w \in Workers, NEW j \in Jobs, Receive(w, j)
  PROVE  IInv'
<1> DEFINE k == [IdleWorker EXCEPT !.pc = "claim", !.job = j]
<1>1. Successor(w, k)
  BY InitialStates DEF Successor, WorkerStates, IdleWorker
<1>2. broker' \in [Jobs -> 0 .. MaxMessages]
  <2>1. broker[j] - 1 \in 0 .. MaxMessages
    BY JobsAssumption DEF Receive, IInv, TypeOK
  <2> QED BY <2>1 DEF Receive, IInv, TypeOK
<1>3. crashes' \in 0 .. MaxCrashes
  BY DEF Receive, IInv, TypeOK
<1> QED BY <1>1, <1>2, <1>3, WorkerStepPreserves DEF Receive

QuietStep(w) ==
  \/ IgnoreDelivery(w) \/ CheckAuthority(w) \/ Analyse(w) \/ AnalysisRaises(w)
  \/ Release(w) \/ Kill(w) \/ TaskFailureSignal(w) \/ HostDies(w)

LEMMA QuietStepPreserves ==
  ASSUME IInv, NEW w \in Workers, QuietStep(w)
  PROVE  IInv' /\ UNCHANGED row
<1>1. UNCHANGED <<database, publisher, sweeper>> /\ worker[w].pc # "idle"
  BY DEF QuietStep, IgnoreDelivery, CheckAuthority, Analyse, AnalysisRaises, Release,
         Kill, TaskFailureSignal, HostDies
<1>2. broker' \in [Jobs -> 0 .. MaxMessages] /\ crashes' \in 0 .. MaxCrashes
  <2>1. CASE Kill(w)
    BY <2>1, JobsAssumption DEF Kill, IInv, TypeOK
  <2>2. CASE HostDies(w)
    <3> DEFINE j == worker[w].job
    <3>1. j \in Jobs /\ broker[j] + 1 \in 0 .. MaxMessages
      BY <2>2, BusyHoldsJob, JobsAssumption DEF HostDies, IInv, TypeOK
    <3> QED BY <2>2, <3>1, JobsAssumption DEF HostDies, IInv, TypeOK
  <2>3. CASE ~Kill(w) /\ ~HostDies(w)
    BY <2>3 DEF QuietStep, IgnoreDelivery, CheckAuthority, Analyse, AnalysisRaises, Release,
                TaskFailureSignal, IInv, TypeOK
  <2> QED BY <2>1, <2>2, <2>3
<1>3. (\E label \in Labels : Goto(w, label)) \/ Finish(w) \/ Analyse(w)
  BY HandlerLabels DEF QuietStep, IgnoreDelivery, CheckAuthority, AnalysisRaises, Release,
                       Kill, TaskFailureSignal, HostDies, Labels
<1>4. CASE Analyse(w)
  <2> DEFINE k == [worker[w] EXCEPT !.pc = "persist", !.onTime = ~row[worker[w].job].expired]
  <2>1. (~row[worker[w].job].expired) \in BOOLEAN
    OBVIOUS
  <2>2. Successor(w, k)
    BY <1>1, <2>1, BusyHoldsJob DEF Successor, WorkerStates
  <2>3. worker' = [worker EXCEPT ![w] = k]
    BY <1>4 DEF Analyse, IInv, TypeOK
  <2> HIDE DEF k
  <2> QED BY <1>1, <1>2, <2>2, <2>3, WorkerStepPreserves DEF database
<1>5. CASE ~Analyse(w)
  <2>1. PICK k : Moves(w, k)
    BY <1>1, <1>3, <1>5, GotoMoves, FinishMoves
  <2> QED BY <1>1, <1>2, <2>1, WorkerStepPreserves DEF Moves, database
<1> QED BY <1>4, <1>5

-----------------------------------------------------------------------------
(* The steps of a publisher before its commit. *)
PublishesOn(p) ==
  BeginPublish(p) \/ (\E e \in Events : Send(p, e) \/ SendFails(p, e)) \/ Mark(p) \/ PublisherDies(p)

LEMMA PublishesOnPreserves ==
  ASSUME IInv, NEW p \in Publishers, PublishesOn(p)
  PROVE  IInv' /\ UNCHANGED row
<1> USE DEF database
<1>0. publisher[p] \in PublisherStates
  BY DEF IInv, TypeOK
<1>1. /\ \A e \in publisher[p].todo \cup publisher[p].marked : outbox[e] # "absent"
      /\ publisher[p].pc = "mark" => publisher[p].sent \in publisher[p].todo
  BY DEF IInv, PublishersHoldEvents
<1>2. broker \in [Jobs -> 0 .. MaxMessages] /\ crashes \in 0 .. MaxCrashes
  BY DEF IInv, TypeOK
<1>3. CASE BeginPublish(p)
  <2> DEFINE k == [publisher[p] EXCEPT !.pc = "send", !.todo = Due \ HeldEvents]
  <2>1. k \in PublisherStates /\ k.pc = "send" /\ k.todo \subseteq Due /\ k.marked = publisher[p].marked
    BY <1>0 DEF PublisherStates, Due
  <2>2. publisher' = [publisher EXCEPT ![p] = k]
    BY <1>3 DEF BeginPublish, IInv, TypeOK
  <2>3. \A e \in k.todo \cup k.marked : outbox[e] # "absent"
    BY <1>1, <2>1 DEF Due
  <2> HIDE DEF k
  <2> QED BY <1>2, <1>3, <2>1, <2>2, <2>3, PublisherStepPreserves DEF BeginPublish
<1>4. ASSUME NEW e \in Events, Send(p, e) PROVE IInv' /\ UNCHANGED row
  <2> DEFINE k == [publisher[p] EXCEPT !.pc = "mark", !.sent = e]
  <2>1. /\ k \in PublisherStates /\ k.sent \in k.todo
        /\ k.todo = publisher[p].todo /\ k.marked = publisher[p].marked
    BY <1>0, <1>4 DEF PublisherStates, Send
  <2>2. publisher' = [publisher EXCEPT ![p] = k]
    BY <1>4 DEF Send, IInv, TypeOK
  <2>3. broker' \in [Jobs -> 0 .. MaxMessages]
    <3>1. e.job \in Jobs
      BY DEF Events
    <3>2. broker[e.job] + 1 \in 0 .. MaxMessages
      BY <1>2, <1>4, <3>1, JobsAssumption DEF Send, Enqueue
    <3> QED BY <1>2, <1>4, <3>1, <3>2 DEF Send, Enqueue
  <2> HIDE DEF k
  <2> QED BY <1>1, <1>2, <1>4, <2>1, <2>2, <2>3, PublisherStepPreserves DEF Send
<1>5. ASSUME NEW e \in Events, SendFails(p, e) PROVE IInv' /\ UNCHANGED row
  <2> DEFINE k == [publisher[p] EXCEPT !.todo = @ \ {e}]
  <2>1. /\ k \in PublisherStates /\ k.pc = "send"
        /\ k.todo \subseteq publisher[p].todo /\ k.marked = publisher[p].marked
    BY <1>0, <1>5 DEF PublisherStates, SendFails
  <2>2. publisher' = [publisher EXCEPT ![p] = k]
    BY <1>5 DEF SendFails, IInv, TypeOK
  <2>3. crashes' \in 0 .. MaxCrashes
    BY <1>2, <1>5, JobsAssumption DEF SendFails
  <2> HIDE DEF k
  <2> QED BY <1>1, <1>2, <1>5, <2>1, <2>2, <2>3, PublisherStepPreserves DEF SendFails
<1>6. CASE Mark(p)
  <2> DEFINE e == publisher[p].sent
             k == [publisher[p] EXCEPT !.pc = "send", !.sent = None,
                                       !.todo = @ \ {e}, !.marked = @ \cup {e}]
  <2>1. /\ k \in PublisherStates /\ k.pc = "send"
        /\ k.todo \cup k.marked \subseteq publisher[p].todo \cup publisher[p].marked
    BY <1>0, <1>1, <1>6 DEF PublisherStates, Mark
  <2>2. publisher' = [publisher EXCEPT ![p] = k]
    BY <1>6 DEF Mark, IInv, TypeOK
  <2> HIDE DEF k
  <2> QED BY <1>1, <1>2, <1>6, <2>1, <2>2, PublisherStepPreserves DEF Mark
<1>7. CASE PublisherDies(p)
  <2>1. crashes' \in 0 .. MaxCrashes
    BY <1>2, <1>7, JobsAssumption DEF PublisherDies
  <2>2. IdlePublisher.todo \cup IdlePublisher.marked = {} /\ IdlePublisher.pc # "mark"
    BY DEF IdlePublisher
  <2> QED BY <1>2, <1>7, <2>1, <2>2, InitialStates, PublisherStepPreserves DEF PublisherDies
<1> QED BY <1>3, <1>4, <1>5, <1>6, <1>7 DEF PublishesOn

(* The commit of a batch: what it marks published it queues. *)
LEMMA CommitPublishPreserves ==
  ASSUME IInv, NEW p \in Publishers, CommitPublish(p)
  PROVE  IInv' /\ StatusesFollow
<1> DEFINE done == publisher[p].marked
           queued == {e.job : e \in done}
           Moved(j) == j \in queued /\ row[j].status \in Queueable
<1>0. /\ row' = [j \in Jobs |-> IF Moved(j) THEN [row[j] EXCEPT !.status = "QUEUED"] ELSE row[j]]
      /\ outbox' = [e \in Events |-> IF e \in done THEN "PUBLISHED" ELSE outbox[e]]
      /\ publisher' = [publisher EXCEPT ![p] = IdlePublisher]
      /\ UNCHANGED <<runs, game, broker, worker, sweeper, crashes>>
  BY DEF CommitPublish
<1>1. done \subseteq Events /\ \A e \in done : outbox[e] # "absent"
  BY DEF IInv, TypeOK, PublisherStates, PublishersHoldEvents
<1>2. \A j \in Jobs :
        /\ row'[j] \in Rows
        /\ row'[j].gen = row[j].gen /\ row'[j].attempts = row[j].attempts
        /\ row'[j].worker = row[j].worker
        /\ row'[j].status = IF Moved(j) THEN "QUEUED" ELSE row[j].status
  BY <1>0 DEF IInv, TypeOK, Rows, JSM!Statuses
<1>3. \A e \in Events : outbox'[e] = IF e \in done THEN "PUBLISHED" ELSE outbox[e]
  BY <1>0
<1>4. \A j \in Jobs, d \in Deliveries : Event(j, d) \in Events /\ Event(j, d).job = j
  BY DEF Event, Events
<1>5. \A j \in Jobs, d \in Deliveries : Event(j, d) \in done => j \in queued
  BY <1>4
<1> HIDE DEF done, queued
<1>6. TypeOK'
  <2>1. row' \in [Jobs -> Rows]
    BY <1>0, <1>2
  <2>2. outbox' \in [Events -> {"absent", "PENDING", "PUBLISHED"}]
    BY <1>0 DEF IInv, TypeOK
  <2>3. publisher' \in [Publishers -> PublisherStates]
    BY <1>0, InitialStates DEF IInv, TypeOK
  <2> QED BY <1>0, <2>1, <2>2, <2>3 DEF IInv, TypeOK
<1>7. GenerationsGrow /\ row' \in [Jobs -> Rows]
  BY <1>2, <1>6, JobsAssumption DEF GenerationsGrow, IInv, TypeOK, Rows
<1>8. WorkersHoldJobs' /\ GenerationsAreUnique'
  BY <1>0, <1>7, WorkersStay
<1>9. OneRunPerJob' /\ DataLivesWithJob'
  BY <1>0, <1>2 DEF IInv, OneRunPerJob, DataLivesWithJob, Queueable, Terminal, JSM!Terminal
<1>10. AttemptsCounted'
  BY <1>2 DEF IInv, AttemptsCounted
<1>11. 0 \in Deliveries /\ \A j \in Jobs : row[j].attempts \in Deliveries
  BY JobsAssumption DEF Deliveries, IInv, TypeOK, Rows
<1>12. WaitingJobIsDue'
  <2>1. \A j \in Jobs : row'[j].status = "PENDING" => j \notin queued /\ row[j].status = "PENDING"
    BY <1>2 DEF Queueable
  <2>2. \A j \in Jobs : row'[j].status = "RETRY_SCHEDULED" =>
                           j \notin queued /\ row[j].status = "RETRY_SCHEDULED"
    BY <1>2 DEF Queueable
  <2>3. \A j \in Jobs, d \in Deliveries : j \notin queued => outbox'[Event(j, d)] = outbox[Event(j, d)]
    BY <1>3, <1>4, <1>5
  <2> QED BY <1>2, <1>11, <2>1, <2>2, <2>3 DEF IInv, WaitingJobIsDue
<1>13. RowsBegin'
  <2>1. \A j \in Jobs : row'[j].status = "NONE" =>
          row[j].status = "NONE" /\ Event(j, 0) \notin done
    BY <1>1, <1>2, <1>4, <1>11 DEF IInv, RowsBegin
  <2> QED BY <1>2, <1>3, <1>4, <1>11, <2>1 DEF IInv, RowsBegin
<1>14. DeliveriesNumbered'
  <2>1. \A e \in Events : e.job \in Jobs
    BY DEF Events
  <2> QED BY <1>1, <1>2, <1>3, <2>1 DEF IInv, DeliveriesNumbered
<1>15. PublishersHoldEvents'
  <2> SUFFICES ASSUME NEW q \in Publishers
               PROVE  /\ \A e \in publisher'[q].todo \cup publisher'[q].marked : outbox'[e] # "absent"
                      /\ publisher'[q].pc = "mark" => publisher'[q].sent \in publisher'[q].todo
    BY DEF PublishersHoldEvents
  <2>1. publisher'[q] = IF q = p THEN IdlePublisher ELSE publisher[q]
    BY <1>0 DEF IInv, TypeOK
  <2>2. publisher[q].todo \cup publisher[q].marked \subseteq Events
    BY DEF IInv, TypeOK, PublisherStates
  <2> QED BY <1>3, <2>1, <2>2 DEF IInv, PublishersHoldEvents, IdlePublisher
<1>16. SweepersHoldJobs'
  BY <1>0, <1>2 DEF IInv, SweepersHoldJobs
<1>17. StatusesFollow
  BY <1>2, Transitions DEF StatusesFollow, Queueable, MayMove
<1> QED BY <1>6, <1>8, <1>9, <1>10, <1>12, <1>13, <1>14, <1>15, <1>16, <1>17 DEF IInv

-----------------------------------------------------------------------------
(* The sweep: what it lists and reads are jobs that exist. *)
LEMMA SweepReadsPreserve ==
  ASSUME IInv, NEW s \in Sweepers, ListExpired(s) \/ \E j \in Jobs : ReadJob(s, j)
  PROVE  IInv' /\ UNCHANGED row
<1> USE DEF database
<1>0. sweeper[s] \in SweeperStates
  BY DEF IInv, TypeOK
<1>1. CASE ListExpired(s)
  <2> DEFINE k == [sweeper[s] EXCEPT !.todo = ExpiredActive]
  <2>1. k \in SweeperStates /\ k.todo \subseteq ExpiredActive /\ k.job = sweeper[s].job
    BY <1>0 DEF SweeperStates, ExpiredActive
  <2>2. sweeper' = [sweeper EXCEPT ![s] = k]
    BY <1>1 DEF ListExpired, IInv, TypeOK
  <2>3. \A j \in Jobs : j \in k.todo \/ j = k.job => row[j].status # "NONE"
    BY <2>1 DEF ExpiredActive, IInv, SweepersHoldJobs
  <2> HIDE DEF k
  <2> QED BY <1>1, <2>1, <2>2, <2>3, SweeperStepPreserves DEF ListExpired
<1>2. ASSUME NEW j \in Jobs, ReadJob(s, j) PROVE IInv' /\ UNCHANGED row
  <2> DEFINE k == [todo |-> sweeper[s].todo \ {j}, job |-> j, seen |-> row[j].status]
  <2>1. k \in SweeperStates /\ k.todo \subseteq sweeper[s].todo /\ k.job = j
    BY <1>0 DEF SweeperStates, IInv, TypeOK, Rows
  <2>2. sweeper' = [sweeper EXCEPT ![s] = k]
    BY <1>2 DEF ReadJob
  <2>3. \A i \in Jobs : i \in k.todo \/ i = k.job => row[i].status # "NONE"
    <3> HIDE DEF k
    <3>1. j \in sweeper[s].todo
      BY <1>2 DEF ReadJob
    <3>2. \A i \in sweeper[s].todo : i \in Jobs => row[i].status # "NONE"
      BY DEF IInv, SweepersHoldJobs
    <3> QED BY <2>1, <3>1, <3>2
  <2> HIDE DEF k
  <2>4. UNCHANGED <<database, broker, worker, publisher, crashes>>
    BY <1>2 DEF ReadJob
  <2>5. IInv'
    BY <2>1, <2>2, <2>3, <2>4, SweeperStepPreserves
  <2> QED BY <2>4, <2>5
<1> QED BY <1>1, <1>2

LEMMA TerminalizePreserves ==
  ASSUME IInv, NEW s \in Sweepers, Terminalize(s)
  PROVE  IInv' /\ StatusesFollow
<1> DEFINE j == sweeper[s].job
           r == Terminalized(row[j], sweeper[s].seen)
           k == [sweeper[s] EXCEPT !.job = None, !.seen = "NONE"]
<1>0. j \in Jobs /\ row[j] \in Rows /\ row[j].status # "NONE"
  BY DEF Terminalize, IInv, TypeOK, SweeperStates, SweepersHoldJobs
<1>1. UNCHANGED <<outbox, runs, broker, worker, publisher, crashes>>
  BY DEF Terminalize
<1>2. /\ sweeper' \in [Sweepers -> SweeperStates]
      /\ \A t \in Sweepers : sweeper'[t] = IF t = s THEN k ELSE sweeper[t]
  <2>1. k \in SweeperStates
    BY DEF IInv, TypeOK, SweeperStates
  <2>2. sweeper' = [sweeper EXCEPT ![s] = k]
    BY DEF Terminalize, IInv, TypeOK
  <2> HIDE DEF k
  <2> QED BY <2>1, <2>2 DEF IInv, TypeOK
<1>3. k.todo = sweeper[s].todo /\ k.job = None
  BY DEF IInv, TypeOK, SweeperStates
<1> HIDE DEF k
<1>4. (\A i \in Jobs : row[i].status # "NONE" => row'[i].status # "NONE")
        => SweepersHoldJobs'
  BY <1>2, <1>3, JobsAssumption DEF IInv, SweepersHoldJobs
<1>5. CASE sweeper[s].seen \notin Terminal
  <2>1. row' = [row EXCEPT ![j] = r] /\ game' = [game EXCEPT ![j] = TerminalData(@)]
    BY <1>5 DEF Terminalize
  <2>2. /\ r \in Rows /\ r.status = "FAILED"
        /\ r.gen = row[j].gen /\ r.attempts = row[j].attempts
    BY <1>0 DEF Terminalized, Unleased, Rows, JSM!Statuses, JSM!Terminal
  <2>3. RowBecomes(j, r)
    <3> HIDE DEF r, j
    <3> QED BY <1>0, <1>1, <2>1, <2>2, CountsKept
  <2> HIDE DEF r
  <2>4. /\ row' \in [Jobs -> Rows] /\ GenerationsGrow
        /\ AttemptsCounted' /\ RowsBegin' /\ DeliveriesNumbered'
        /\ WaitingJobIsDue' /\ PublishersHoldEvents'
        /\ \A i \in Jobs : row[i].status # "NONE" => row'[i].status # "NONE"
    BY <1>0, <2>3, RowChanges
  <2>5. /\ OneRunPerJob' /\ DataLivesWithJob'
        /\ game' \in [Jobs -> {"submitted", "available", "deleted"}]
    BY <1>0, <1>1, <2>1, <2>2, FailureCleans
  <2>6. WorkersHoldJobs' /\ GenerationsAreUnique'
    BY <1>1, <2>4, WorkersStay
  <2>7. TypeOK'
    BY <1>1, <1>2, <2>4, <2>5 DEF IInv, TypeOK
  <2>8. StatusesFollow
    <3>1. MayMove(row[j].status, "FAILED")
      BY <1>0, Transitions DEF IInv, RowsBegin, Rows, JSM!Statuses, JSM!Terminal, MayMove
    <3> QED BY <1>0, <2>1, <2>2, <3>1, OneMoves
  <2> QED BY <1>4, <2>4, <2>5, <2>6, <2>7, <2>8 DEF IInv
<1>6. CASE sweeper[s].seen \in Terminal
  <2>1. UNCHANGED <<row, game>>
    BY <1>6 DEF Terminalize
  <2>2. GenerationsGrow /\ row' \in [Jobs -> Rows]
    BY <2>1 DEF GenerationsGrow, IInv, TypeOK, Rows
  <2>3. WorkersHoldJobs' /\ GenerationsAreUnique'
    BY <1>1, <2>2, WorkersStay
  <2>4. TypeOK'
    BY <1>1, <1>2, <2>1 DEF IInv, TypeOK
  <2>5. OneRunPerJob' /\ DataLivesWithJob' /\ WaitingJobIsDue' /\ AttemptsCounted'
    BY <1>1, <2>1 DEF IInv, OneRunPerJob, DataLivesWithJob, WaitingJobIsDue, AttemptsCounted
  <2>6. RowsBegin' /\ DeliveriesNumbered' /\ PublishersHoldEvents'
    BY <1>1, <2>1 DEF IInv, RowsBegin, DeliveriesNumbered, PublishersHoldEvents
  <2> QED BY <1>4, <2>1, <2>3, <2>4, <2>5, <2>6 DEF IInv, StatusesFollow, MayMove
<1> QED BY <1>5, <1>6

-----------------------------------------------------------------------------
(* A row changes while the other stores and the sweep stand still. *)
LEMMA RowStepPreserves ==
  ASSUME IInv, NEW j \in Jobs, NEW k, RowBecomes(j, k),
         MayMove(row[j].status, k.status),
         OneRunPerJob' /\ DataLivesWithJob',
         worker' \in [Workers -> WorkerStates],
         WorkersHoldJobs' /\ GenerationsAreUnique',
         runs' \in [Jobs -> SUBSET (1 .. MaxClaims)],
         game' \in [Jobs -> {"submitted", "available", "deleted"}],
         UNCHANGED <<broker, sweeper, crashes>>
  PROVE  IInv' /\ StatusesFollow
<1>1. /\ row' \in [Jobs -> Rows]
      /\ AttemptsCounted' /\ RowsBegin' /\ DeliveriesNumbered'
      /\ WaitingJobIsDue' /\ PublishersHoldEvents'
      /\ \A i \in Jobs : row[i].status # "NONE" => row'[i].status # "NONE"
  BY RowChanges
<1>2. UNCHANGED <<outbox, publisher>>
  BY DEF RowBecomes
<1>3. TypeOK'
  BY <1>1, <1>2 DEF IInv, TypeOK
<1>4. SweepersHoldJobs'
  BY <1>1 DEF IInv, SweepersHoldJobs
<1>5. StatusesFollow
  BY OneMoves DEF RowBecomes
<1> QED BY <1>1, <1>3, <1>4, <1>5 DEF IInv

LEMMA CreateJobPreserves ==
  ASSUME IInv, NEW j \in Jobs, CreateJob(j)
  PROVE  IInv' /\ StatusesFollow
<1>1. /\ row[j].status = "NONE" /\ row' = [row EXCEPT ![j] = NewJob]
      /\ UNCHANGED <<outbox, runs, game, broker, worker, publisher, sweeper, crashes>>
  BY DEF CreateJob
<1>2. row[j].gen = 0 /\ row[j].attempts = 0
  BY <1>1 DEF IInv, RowsBegin
<1>3. NewJob \in Rows
  BY InitialStates
<1>4. RowBecomes(j, NewJob)
  BY <1>1, <1>2, <1>3 DEF RowBecomes, NewJob, IInv, RowsBegin
<1>5. /\ row' \in [Jobs -> Rows] /\ GenerationsGrow
  BY <1>4, RowChanges
<1>6. WorkersHoldJobs' /\ GenerationsAreUnique'
  BY <1>1, <1>5, WorkersStay
<1>7. OneRunPerJob' /\ DataLivesWithJob'
  BY <1>1, <1>3, OpenStays DEF NewJob, Terminal, JSM!Terminal
<1>8. MayMove(row[j].status, NewJob.status)
  BY <1>1, Transitions DEF NewJob
<1> QED BY <1>1, <1>4, <1>6, <1>7, <1>8, RowStepPreserves DEF IInv, TypeOK

LEMMA EnsureOutboxPreserves ==
  ASSUME IInv, NEW j \in Jobs, EnsureOutbox(j)
  PROVE  IInv' /\ UNCHANGED row
<1>1. /\ row[j].status = "PENDING" /\ outbox[Event(j, 0)] = "absent"
      /\ outbox' = [outbox EXCEPT ![Event(j, 0)] = "PENDING"]
      /\ UNCHANGED <<row, runs, game, broker, worker, publisher, sweeper, crashes>>
  BY DEF EnsureOutbox
<1>2. /\ outbox' \in [Events -> {"absent", "PENDING", "PUBLISHED"}]
      /\ \A e \in Events : outbox'[e] = IF e = Event(j, 0) THEN "PENDING" ELSE outbox[e]
  BY <1>1 DEF IInv, TypeOK
<1>3. \A i \in Jobs, d \in Deliveries : Event(i, d) \in Events /\ (Event(i, d) = Event(j, 0) => i = j /\ d = 0)
  BY DEF Event, Events
<1>4. 0 \in Deliveries /\ \A i \in Jobs : row[i].attempts \in Deliveries
  BY JobsAssumption DEF Deliveries, IInv, TypeOK, Rows
<1>5. TypeOK'
  BY <1>1, <1>2 DEF IInv, TypeOK
<1>6. WorkersHoldJobs' /\ GenerationsAreUnique'
  BY <1>1, WorkersStay DEF GenerationsGrow, IInv, TypeOK, Rows
<1>7. OneRunPerJob' /\ DataLivesWithJob' /\ AttemptsCounted' /\ SweepersHoldJobs'
  BY <1>1 DEF IInv, OneRunPerJob, DataLivesWithJob, AttemptsCounted, SweepersHoldJobs
<1>8. WaitingJobIsDue' /\ RowsBegin'
  BY <1>1, <1>2, <1>3, <1>4 DEF IInv, WaitingJobIsDue, RowsBegin
<1>9. DeliveriesNumbered'
  <2>1. Event(j, 0).delivery = 0 /\ Event(j, 0).job = j /\ row[j].attempts \in Nat
    BY <1>4, JobsAssumption DEF Event, Deliveries
  <2> QED BY <1>1, <1>2, <2>1 DEF IInv, DeliveriesNumbered
<1>10. PublishersHoldEvents'
  <2>1. \A p \in Publishers : publisher[p].todo \cup publisher[p].marked \subseteq Events
    BY DEF IInv, TypeOK, PublisherStates
  <2> QED BY <1>1, <1>2, <2>1 DEF IInv, PublishersHoldEvents
<1> QED BY <1>1, <1>5, <1>6, <1>7, <1>8, <1>9, <1>10 DEF IInv

LEMMA LeaseExpiresPreserves ==
  ASSUME IInv, NEW j \in Jobs, LeaseExpires(j)
  PROVE  IInv' /\ StatusesFollow
<1> DEFINE k == [row[j] EXCEPT !.expired = TRUE]
<1>1. /\ row[j].status \in {"CLAIMED", "RUNNING"} /\ row' = [row EXCEPT ![j] = k]
      /\ UNCHANGED <<outbox, runs, game, broker, worker, publisher, sweeper, crashes>>
  BY DEF LeaseExpires, IInv, TypeOK
<1>2. /\ k \in Rows /\ k.status = row[j].status
      /\ k.gen = row[j].gen /\ k.attempts = row[j].attempts
  BY DEF IInv, TypeOK, Rows
<1> HIDE DEF k
<1>3. RowBecomes(j, k)
  BY <1>1, <1>2, CountsKept
<1>4. row' \in [Jobs -> Rows] /\ GenerationsGrow
  BY <1>3, RowChanges
<1>5. WorkersHoldJobs' /\ GenerationsAreUnique'
  BY <1>1, <1>4, WorkersStay
<1>6. OneRunPerJob' /\ DataLivesWithJob'
  BY <1>1, <1>2, OpenStays DEF Terminal, JSM!Terminal
<1>7. MayMove(row[j].status, k.status)
  BY <1>2 DEF MayMove
<1> QED BY <1>1, <1>3, <1>5, <1>6, <1>7, RowStepPreserves DEF IInv, TypeOK

(* A claim grants a generation that no process has had. *)
LEMMA ClaimPreserves ==
  ASSUME IInv, NEW w \in Workers, Claim(w)
  PROVE  IInv' /\ StatusesFollow
<1> DEFINE j == worker[w].job
           r == Claimed(row[j], HostOf[w])
           k == [worker[w] EXCEPT !.pc = "start", !.gen = row[j].gen + 1]
<1>1. /\ worker[w] \in WorkerStates /\ j \in Jobs /\ row[j] \in Rows
      /\ row[j].status = "QUEUED" /\ row[j].gen < MaxClaims
      /\ row[j].attempts <= 2 * row[j].gen
  BY BusyHoldsJob DEF Claim, IInv, AttemptsCounted
<1>2. /\ row' = [row EXCEPT ![j] = r]
      /\ worker' = [worker EXCEPT ![w] = k]
      /\ UNCHANGED <<outbox, runs, game, broker, publisher, sweeper, crashes>>
  BY DEF Claim, IInv, TypeOK
<1>3. /\ row[j].gen \in Nat /\ row[j].attempts \in Nat
      /\ row[j].gen + 1 \in 0 .. MaxClaims /\ row[j].attempts + 1 \in Deliveries
  BY <1>1, JobsAssumption DEF Rows, Deliveries
<1>4. /\ r \in Rows /\ r.status = "CLAIMED"
      /\ r.gen = row[j].gen + 1 /\ r.attempts = row[j].attempts + 1
  <2>1. FALSE \in BOOLEAN
    OBVIOUS
  <2> QED BY <1>3, <2>1 DEF Claimed, Rows, JSM!Statuses
<1>5. k \in WorkerStates /\ k.pc = "start" /\ k.job = j /\ k.gen = row[j].gen + 1
  BY <1>1, <1>3 DEF WorkerStates
<1>6. \A v \in Workers : worker'[v] = IF v = w THEN k ELSE worker[v]
  BY <1>2 DEF IInv, TypeOK
<1> HIDE DEF r, k, j
<1>7. RowBecomes(j, r)
  BY <1>1, <1>2, <1>3, <1>4 DEF RowBecomes
<1>8. row' \in [Jobs -> Rows] /\ GenerationsGrow
  BY <1>1, <1>7, RowChanges
<1>9. /\ \A i \in Jobs : row'[i].gen = IF i = j THEN row[j].gen + 1 ELSE row[i].gen
      /\ \A i \in Jobs : row[i].gen \in Nat
  BY <1>1, <1>2, <1>4, RowIs
<1>10. \A v \in Workers : /\ worker[v].gen \in Nat
                          /\ worker[v].job = j => worker[v].gen <= row[j].gen
  BY <1>1, <1>3, JobsAssumption DEF IInv, TypeOK, WorkerStates, WorkersHoldJobs, IdleWorker
<1>11. WorkersHoldJobs'
  <2> SUFFICES ASSUME NEW v \in Workers
               PROVE  IF worker'[v].pc = "idle" THEN worker'[v] = IdleWorker
                      ELSE worker'[v].job \in Jobs /\ worker'[v].gen <= row'[worker'[v].job].gen
    BY DEF WorkersHoldJobs
  <2>1. CASE v = w
    BY <1>1, <1>3, <1>5, <1>6, <1>9, <2>1
  <2>2. CASE v # w
    BY <1>6, <1>9, <1>10, <2>2 DEF IInv, WorkersHoldJobs
  <2> QED BY <2>1, <2>2
<1>12. GenerationsAreUnique'
  <2> SUFFICES ASSUME NEW u \in Workers, NEW v \in Workers, u # v,
                      worker'[u].job = worker'[v].job, worker'[u].gen > 0,
                      worker'[u].gen = worker'[v].gen
               PROVE  FALSE
    BY DEF GenerationsAreUnique
  <2>1. CASE u # w /\ v # w
    BY <1>6, <2>1 DEF IInv, GenerationsAreUnique
  <2>2. CASE u = w
    BY <1>3, <1>5, <1>6, <1>10, <2>2
  <2>3. CASE v = w
    BY <1>3, <1>5, <1>6, <1>10, <2>3
  <2> QED BY <2>1, <2>2, <2>3
<1>13. worker' \in [Workers -> WorkerStates]
  BY <1>2, <1>5 DEF IInv, TypeOK
<1>14. OneRunPerJob' /\ DataLivesWithJob'
  BY <1>1, <1>2, <1>4, OpenStays DEF Terminal, JSM!Terminal
<1>15. MayMove(row[j].status, r.status)
  BY <1>1, <1>4, Transitions
<1> QED BY <1>1, <1>2, <1>7, <1>11, <1>12, <1>13, <1>14, <1>15, RowStepPreserves DEF IInv, TypeOK

-----------------------------------------------------------------------------
(* A process that writes nothing, because it no longer may. *)
LEMMA RefusedPreserves ==
  ASSUME IInv, NEW w \in Workers, NEW k, Moves(w, k),
         UNCHANGED <<database, broker, publisher, sweeper, crashes>>
  PROVE  IInv' /\ StatusesFollow
<1>1. IInv'
  BY WorkerStepPreserves DEF Moves, IInv, TypeOK
<1>2. StatusesFollow
  BY DEF database, StatusesFollow, MayMove
<1> QED BY <1>1, <1>2

(* A process that writes the row of its job. *)
LEMMA WrittenPreserves ==
  ASSUME IInv, NEW w \in Workers, NEW k, Moves(w, k),
         NEW j \in Jobs, NEW r, RowBecomes(j, r), MayMove(row[j].status, r.status),
         OneRunPerJob' /\ DataLivesWithJob',
         runs' \in [Jobs -> SUBSET (1 .. MaxClaims)],
         game' \in [Jobs -> {"submitted", "available", "deleted"}],
         UNCHANGED <<broker, sweeper, crashes>>
  PROVE  IInv' /\ StatusesFollow
<1>1. row' \in [Jobs -> Rows] /\ GenerationsGrow
  BY RowChanges
<1>2. /\ worker' \in [Workers -> WorkerStates]
      /\ WorkersHoldJobs' /\ GenerationsAreUnique'
  BY <1>1, WorkerMoves DEF Moves
<1> QED BY <1>2, RowStepPreserves

LEMMA StartPreserves ==
  ASSUME IInv, NEW w \in Workers, Start(w)
  PROVE  IInv' /\ StatusesFollow
<1> DEFINE j == worker[w].job
           r == [row[j] EXCEPT !.status = "RUNNING"]
<1>1. /\ worker[w].pc # "idle" /\ j \in Jobs /\ row[j] \in Rows
      /\ UNCHANGED <<outbox, runs, game, broker, publisher, sweeper, crashes>>
  BY BusyHoldsJob DEF Start
<1>2. CASE MayStart(w)
  <2>1. row' = [row EXCEPT ![j] = r] /\ Goto(w, "check") /\ row[j].status = "CLAIMED"
    BY <1>2 DEF Start, MayStart, IInv, TypeOK
  <2>2. PICK k : Moves(w, k)
    BY <1>1, <2>1, GotoMoves DEF Labels
  <2>3. /\ r \in Rows /\ r.status = "RUNNING"
        /\ r.gen = row[j].gen /\ r.attempts = row[j].attempts
    BY <1>1 DEF Rows, JSM!Statuses
  <2> HIDE DEF j, r
  <2>4. RowBecomes(j, r)
    BY <1>1, <2>1, <2>3, CountsKept
  <2>5. OneRunPerJob' /\ DataLivesWithJob'
    BY <1>1, <2>1, <2>3, OpenStays DEF Terminal, JSM!Terminal
  <2>6. MayMove(row[j].status, r.status)
    BY <2>1, <2>3, Transitions
  <2> QED BY <1>1, <2>2, <2>4, <2>5, <2>6, WrittenPreserves DEF IInv, TypeOK
<1>3. CASE ~MayStart(w)
  <2>1. PICK k : Moves(w, k)
    BY <1>3, FinishMoves DEF Start
  <2> QED BY <1>1, <1>3, <2>1, RefusedPreserves DEF Start, database
<1> QED BY <1>2, <1>3

(* What the end of a lease leaves of a row. *)
LEMMA UnleasedRow ==
  ASSUME NEW r \in Rows, NEW s \in JSM!Statuses
  PROVE  /\ Unleased(r, s) \in Rows /\ Unleased(r, s).status = s
         /\ Unleased(r, s).gen = r.gen /\ Unleased(r, s).attempts = r.attempts
<1>1. FALSE \in BOOLEAN
  OBVIOUS
<1> QED BY <1>1 DEF Unleased, Rows

(* The one transaction that makes a run: it finds none, and ends the job. *)
LEMMA PersistPreserves ==
  ASSUME IInv, NEW w \in Workers, Persist(w)
  PROVE  IInv' /\ StatusesFollow
<1> DEFINE j == worker[w].job
           r == Unleased(row[j], "SUCCEEDED")
<1>1. /\ worker[w].pc # "idle" /\ j \in Jobs /\ row[j] \in Rows
      /\ UNCHANGED <<outbox, broker, publisher, sweeper, crashes>>
  BY BusyHoldsJob DEF Persist
<1>2. CASE MayPersist(w)
  <2>1. /\ row' = [row EXCEPT ![j] = r] /\ Goto(w, "release")
        /\ runs' = [runs EXCEPT ![j] = @ \cup {worker[w].gen}]
        /\ game' = [game EXCEPT ![j] = "available"]
        /\ row[j].status = "RUNNING" /\ worker[w].gen = row[j].gen
        /\ game[j] = "submitted"
    BY <1>2 DEF Persist, MayPersist, MayComplete, OwnsLease
  <2>2. PICK k : Moves(w, k)
    BY <1>1, <2>1, GotoMoves DEF Labels
  <2>3. /\ r \in Rows /\ r.status = "SUCCEEDED"
        /\ r.gen = row[j].gen /\ r.attempts = row[j].attempts
    BY <1>1, UnleasedRow DEF JSM!Statuses, JSM!Terminal
  <2>4. row[j].gen \in 1 .. MaxClaims
    <3>1. row[j].gen \in 0 .. MaxClaims /\ row[j].attempts \in Nat /\ row[j].attempts < 2 * row[j].gen
      BY <1>1, <2>1, RowIs, JobsAssumption DEF IInv, AttemptsCounted, Rows, Deliveries
    <3> QED BY <3>1, JobsAssumption
  <2>5. runs[j] = {}
    BY <1>1, <2>1 DEF IInv, OneRunPerJob
  <2>6. worker[w].gen \in 1 .. MaxClaims
    BY <2>1, <2>4
  <2> HIDE DEF r
  <2>7. /\ \A i \in Jobs : row'[i] = IF i = j THEN r ELSE row[i]
        /\ \A i \in Jobs : runs'[i] = IF i = j THEN {row[j].gen} ELSE runs[i]
        /\ \A i \in Jobs : game'[i] = IF i = j THEN "available" ELSE game[i]
    BY <1>1, <2>1, <2>3, <2>5, RowIs DEF IInv, TypeOK
  <2>8. /\ runs' \in [Jobs -> SUBSET (1 .. MaxClaims)]
        /\ game' \in [Jobs -> {"submitted", "available", "deleted"}]
    BY <1>1, <2>1, <2>6 DEF IInv, TypeOK
  <2> HIDE DEF j
  <2>9. RowBecomes(j, r)
    BY <1>1, <2>1, <2>3, CountsKept
  <2>10. OneRunPerJob'
    BY <2>3, <2>7 DEF IInv, OneRunPerJob
  <2>11. DataLivesWithJob'
    BY <2>3, <2>7 DEF IInv, DataLivesWithJob, Terminal, JSM!Terminal
  <2>12. MayMove(row[j].status, r.status)
    BY <2>1, <2>3, Transitions
  <2> QED BY <1>1, <2>2, <2>8, <2>9, <2>10, <2>11, <2>12, WrittenPreserves
<1>3. CASE ~MayPersist(w)
  <2>1. PICK k : Moves(w, k)
    BY <1>1, <1>3, HandlerLabels, GotoMoves DEF Persist
  <2> QED BY <1>1, <1>3, <2>1, RefusedPreserves DEF Persist, database
<1> QED BY <1>2, <1>3

LEMMA FailPreserves ==
  ASSUME IInv, NEW w \in Workers, Fail(w)
  PROVE  IInv' /\ StatusesFollow
<1> DEFINE j == worker[w].job
           r == Unleased(row[j], "FAILED")
<1>1. /\ worker[w].pc # "idle" /\ j \in Jobs /\ row[j] \in Rows
      /\ UNCHANGED <<outbox, runs, broker, publisher, sweeper, crashes>>
  BY BusyHoldsJob DEF Fail
<1>0. PICK k : Moves(w, k)
  BY FinishMoves DEF Fail
<1>2. CASE MayFail(w)
  <2>1. /\ row' = [row EXCEPT ![j] = r]
        /\ game' = [game EXCEPT ![j] = TerminalData(@)]
        /\ row[j].status \notin Terminal
        /\ row[j].worker # None
    BY <1>2, JobsAssumption DEF Fail, MayFail, OwnsLease
  <2>2. /\ r \in Rows /\ r.status = "FAILED"
        /\ r.gen = row[j].gen /\ r.attempts = row[j].attempts
    BY <1>1, UnleasedRow DEF JSM!Statuses, JSM!Terminal
  <2> HIDE DEF r, j
  <2>3. RowBecomes(j, r)
    BY <1>1, <2>1, <2>2, CountsKept
  <2>4. /\ OneRunPerJob' /\ DataLivesWithJob'
        /\ game' \in [Jobs -> {"submitted", "available", "deleted"}]
    BY <1>1, <2>1, <2>2, FailureCleans
  <2>5. row[j].status \in {"PENDING", "QUEUED", "CLAIMED", "RUNNING", "RETRY_SCHEDULED"}
    BY <1>1, <2>1 DEF Rows, JSM!Statuses, Terminal, IInv, RowsBegin
  <2>6. MayMove(row[j].status, r.status)
    BY <2>2, <2>5, Transitions
  <2> QED BY <1>0, <1>1, <2>3, <2>4, <2>6, WrittenPreserves DEF IInv, TypeOK
<1>3. CASE ~MayFail(w)
  BY <1>0, <1>1, <1>3, RefusedPreserves DEF Fail, database
<1> QED BY <1>2, <1>3

(* A retry gives its delivery the next number, which no outbox row has. *)
LEMMA RetryPreserves ==
  ASSUME IInv, NEW w \in Workers, Retry(w)
  PROVE  IInv' /\ StatusesFollow
<1> DEFINE j == worker[w].job
           r == Rescheduled(j)
           event == RetryEvent(j)
<1>1. /\ worker[w].pc # "idle" /\ j \in Jobs /\ row[j] \in Rows
      /\ UNCHANGED <<runs, game, broker, publisher, sweeper, crashes>>
  BY BusyHoldsJob DEF Retry
<1>0. PICK k : Moves(w, k)
  BY FinishMoves DEF Retry
<1>2. CASE MayRetry(w)
  <2>1. /\ row' = [row EXCEPT ![j] = r]
        /\ outbox' = [outbox EXCEPT ![event] = IF @ = "absent" THEN "PENDING" ELSE @]
        /\ row[j].status \in {"CLAIMED", "RUNNING"}
    BY <1>2 DEF Retry, MayRetry
  <2>2. /\ row[j].gen \in 0 .. MaxClaims /\ row[j].attempts \in Nat
        /\ row[j].attempts + 1 <= 2 * row[j].gen
        /\ row[j].attempts + 1 \in Deliveries
    <3>1. row[j].gen \in 0 .. MaxClaims /\ row[j].attempts \in Nat
      BY <1>1, JobsAssumption DEF Rows, Deliveries
    <3>2. row[j].attempts < 2 * row[j].gen
      BY <1>1, <2>1 DEF IInv, AttemptsCounted
    <3> QED BY <3>1, <3>2, JobsAssumption DEF Deliveries
  <2>3. /\ r \in Rows /\ r.status = "RETRY_SCHEDULED"
        /\ r.gen = row[j].gen /\ r.attempts = row[j].attempts + 1
    <3>1. /\ Unleased(row[j], "RETRY_SCHEDULED") \in Rows
          /\ Unleased(row[j], "RETRY_SCHEDULED").status = "RETRY_SCHEDULED"
          /\ Unleased(row[j], "RETRY_SCHEDULED").gen = row[j].gen
      BY <1>1, UnleasedRow DEF JSM!Statuses
    <3> QED BY <2>2, <3>1 DEF Rescheduled, NextAttempt, Rows
  <2>4. /\ event = Event(j, row[j].attempts + 1) /\ event \in Events
        /\ event.job = j /\ event.delivery = row[j].attempts + 1
    BY <1>1, <2>2 DEF RetryEvent, NextAttempt, Event, Events
  <2>5. outbox[event] = "absent"
    BY <1>1, <2>2, <2>4 DEF IInv, DeliveriesNumbered
  <2> HIDE DEF r, j, event
  <2>6. /\ row' \in [Jobs -> Rows]
        /\ \A i \in Jobs : row'[i] = IF i = j THEN r ELSE row[i]
        /\ \A i \in Jobs : {row[i].gen, row'[i].gen} \subseteq Nat
        /\ \A i \in Jobs : {row[i].attempts, row'[i].attempts} \subseteq Nat
    BY <1>1, <2>1, <2>3, RowIs
  <2>7. /\ outbox' \in [Events -> {"absent", "PENDING", "PUBLISHED"}]
        /\ \A e \in Events : outbox'[e] = IF e = event THEN "PENDING" ELSE outbox[e]
    BY <2>1, <2>4, <2>5 DEF IInv, TypeOK
  <2>8. GenerationsGrow
    BY <1>1, <2>3, <2>6 DEF GenerationsGrow
  <2>9. /\ worker' \in [Workers -> WorkerStates]
        /\ WorkersHoldJobs' /\ GenerationsAreUnique'
    BY <1>0, <2>6, <2>8, WorkerMoves DEF Moves
  <2>10. TypeOK'
    BY <1>1, <2>6, <2>7, <2>9 DEF IInv, TypeOK
  <2>11. OneRunPerJob' /\ DataLivesWithJob'
    BY <1>1, <2>1, <2>3, OpenStays DEF Terminal, JSM!Terminal
  <2>12. AttemptsCounted'
    BY <1>1, <2>2, <2>3, <2>6 DEF IInv, AttemptsCounted
  <2>13. \A i \in Jobs, d \in Deliveries : Event(i, d) \in Events /\ (Event(i, d) = event => i = j)
    BY <2>4 DEF Event, Events
  <2>14. 0 \in Deliveries /\ \A i \in Jobs : row[i].attempts \in Deliveries
    BY JobsAssumption DEF Deliveries, IInv, TypeOK, Rows
  <2>15. WaitingJobIsDue'
    <3> SUFFICES ASSUME NEW i \in Jobs
                 PROVE  /\ row'[i].status = "PENDING" => outbox'[Event(i, 0)] # "PUBLISHED"
                        /\ row'[i].status = "RETRY_SCHEDULED" =>
                             outbox'[Event(i, row'[i].attempts)] = "PENDING"
      BY DEF WaitingJobIsDue, Event
    <3>1. CASE i = j
      BY <2>3, <2>4, <2>6, <2>7, <3>1
    <3>2. CASE i # j
      BY <2>6, <2>7, <2>13, <2>14, <3>2 DEF IInv, WaitingJobIsDue
    <3> QED BY <3>1, <3>2
  <2>16. RowsBegin'
    BY <1>1, <2>3, <2>6, <2>7, <2>13, <2>14 DEF IInv, RowsBegin
  <2>17. DeliveriesNumbered'
    <3> SUFFICES ASSUME NEW e \in Events, outbox'[e] # "absent"
                 PROVE  e.delivery <= row'[e.job].attempts
      BY DEF DeliveriesNumbered
    <3>1. e.job \in Jobs /\ e.delivery \in Nat
      BY JobsAssumption DEF Events, Deliveries
    <3>2. CASE e = event
      BY <1>1, <2>2, <2>3, <2>4, <2>6, <3>2
    <3>3. CASE e # event
      <4>1. e.delivery <= row[e.job].attempts
        BY <2>7, <3>3 DEF IInv, DeliveriesNumbered
      <4> QED BY <2>2, <2>3, <2>6, <3>1, <4>1
    <3> QED BY <3>2, <3>3
  <2>18. PublishersHoldEvents'
    <3>1. \A p \in Publishers : publisher[p].todo \cup publisher[p].marked \subseteq Events
      BY DEF IInv, TypeOK, PublisherStates
    <3> QED BY <1>1, <2>7, <3>1 DEF IInv, PublishersHoldEvents
  <2>19. SweepersHoldJobs'
    BY <1>1, <2>3, <2>6 DEF IInv, SweepersHoldJobs
  <2>20. StatusesFollow
    <3>1. MayMove(row[j].status, r.status)
      BY <2>1, <2>3, Transitions
    <3> QED BY <1>1, <2>1, <2>3, <3>1, OneMoves
  <2> QED BY <2>9, <2>10, <2>11, <2>12, <2>15, <2>16, <2>17, <2>18, <2>19, <2>20 DEF IInv
<1>3. CASE ~MayRetry(w)
  BY <1>0, <1>1, <1>3, RefusedPreserves DEF Retry, database
<1> QED BY <1>2, <1>3

-----------------------------------------------------------------------------
LEMMA NextPreserves ==
  ASSUME IInv, [Next]_vars
  PROVE  IInv' /\ StatusesFollow
<1>1. UNCHANGED row => StatusesFollow
  BY DEF StatusesFollow, MayMove
<1>2. ASSUME NEW j \in Jobs, CreateJob(j) \/ EnsureOutbox(j) \/ LeaseExpires(j)
      PROVE  IInv' /\ StatusesFollow
  BY <1>1, <1>2, CreateJobPreserves, EnsureOutboxPreserves, LeaseExpiresPreserves
<1>3. ASSUME NEW p \in Publishers, PublisherStep(p)
      PROVE  IInv' /\ StatusesFollow
  BY <1>1, <1>3, PublishesOnPreserves, CommitPublishPreserves DEF PublisherStep, PublishesOn
<1>4. ASSUME NEW w \in Workers, WorkerStep(w)
      PROVE  IInv' /\ StatusesFollow
  <2>1. ASSUME NEW j \in Jobs, Receive(w, j) PROVE IInv' /\ UNCHANGED row
    BY <2>1, ReceivePreserves DEF Receive, database
  <2>2. CASE QuietStep(w)
    BY <1>1, <2>2, QuietStepPreserves
  <2> QED BY <1>1, <1>4, <2>1, <2>2, ClaimPreserves, StartPreserves, PersistPreserves,
             FailPreserves, RetryPreserves DEF WorkerStep, QuietStep
<1>5. ASSUME NEW s \in Sweepers, SweeperStep(s)
      PROVE  IInv' /\ StatusesFollow
  BY <1>1, <1>5, SweepReadsPreserve, TerminalizePreserves DEF SweeperStep
<1>6. CASE UNCHANGED vars
  <2> USE <1>6 DEF vars
  <2>1. TypeOK' /\ GenerationsAreUnique' /\ OneRunPerJob' /\ DataLivesWithJob' /\ WaitingJobIsDue'
    BY DEF IInv, TypeOK, GenerationsAreUnique, OneRunPerJob, DataLivesWithJob, WaitingJobIsDue
  <2>2. WorkersHoldJobs' /\ AttemptsCounted' /\ RowsBegin' /\ DeliveriesNumbered'
    BY DEF IInv, WorkersHoldJobs, AttemptsCounted, RowsBegin, DeliveriesNumbered
  <2>3. PublishersHoldEvents' /\ SweepersHoldJobs'
    BY DEF IInv, PublishersHoldEvents, SweepersHoldJobs
  <2> QED BY <1>1, <2>1, <2>2, <2>3 DEF IInv
<1> QED BY <1>2, <1>3, <1>4, <1>5, <1>6 DEF Next

(* The fences and the invariants they guard are inductive together. *)
THEOREM JobsInvariant == Spec => []IInv
<1>1. IInv /\ [Next]_vars => IInv'
  BY NextPreserves
<1> QED BY <1>1, InitEstablishes, PTL DEF Spec

(* Every column and every process keeps values of its kind; the attempts   *)
(* of a job with MaxClaims claims fit the deliveries.                      *)
THEOREM JobsTypes == Spec => []TypeOK
<1>1. IInv => TypeOK
  BY DEF IInv
<1> QED BY <1>1, JobsInvariant, PTL

(* claim_job: no two executions hold one generation of a job. *)
THEOREM LeasesAreFenced == Spec => []GenerationsAreUnique
<1>1. IInv => GenerationsAreUnique
  BY DEF IInv
<1> QED BY <1>1, JobsInvariant, PTL

(* persist_and_complete_owned_generation: one run, of the current          *)
(* generation, and none without the game being available.                  *)
THEOREM OneResult == Spec => []OneRunPerJob
<1>1. IInv => OneRunPerJob
  BY DEF IInv
<1> QED BY <1>1, JobsInvariant, PTL

(* TerminalGameDataCleanup: submitted data lives exactly as long as the    *)
(* job is open.                                                            *)
THEOREM DataIsCleaned == Spec => []DataLivesWithJob
<1>1. IInv => DataLivesWithJob
  BY DEF IInv
<1> QED BY <1>1, JobsInvariant, PTL

(* The outbox: a job that waits for its delivery is not forgotten. *)
THEOREM OutboxRemembers == Spec => []WaitingJobIsDue
<1>1. IInv => WaitingJobIsDue
  BY DEF IInv
<1> QED BY <1>1, JobsInvariant, PTL

-----------------------------------------------------------------------------
LEMMA StepIsTransition ==
  ASSUME IInv, IInv', StatusesFollow
  PROVE  JSM!Next
<1> DEFINE status == [j \in Jobs |-> row[j].status]
<1>1. status' \in [Jobs -> JSM!Statuses \cup {"NONE"}]
  BY DEF IInv, TypeOK, Rows
<1>2. \A j \in Jobs : status[j] = row[j].status /\ status'[j] = row'[j].status
  OBVIOUS
<1> QED BY <1>1, <1>2 DEF StatusesFollow, MayMove, JSM!Next

(* The transition table of analysis/state.py: every commit of a publisher, *)
(* a worker or a sweep takes an allowed transition or changes no status,   *)
(* save the sweep that fails a job it had read before the job succeeded.   *)
THEOREM JobsFollowStateMachine == Spec => ImplementsStateMachine
<1>1. Init => JSM!Init
  BY DEF Init, NewJob, JSM!Init
<1>2. IInv /\ IInv' /\ [Next]_vars => [JSM!Next]_([j \in Jobs |-> row[j].status])
  BY NextPreserves, StepIsTransition
<1> QED BY <1>1, <1>2, JobsInvariant, PTL DEF Spec, ImplementsStateMachine, JSM!Spec

-----------------------------------------------------------------------------
(***************************************************************************)
(* The scope of FirstTerminalWriteWins, which the sweep violates.  Who has *)
(* ended stays as he ended, except that a sweep which read the job before  *)
(* it succeeded makes it FAILED; the result stays, and available.          *)
(***************************************************************************)
StaleSweepOf(j) == \E s \in Sweepers : sweeper[s].job = j /\ sweeper[s].seen \notin Terminal

EndOverwritten(j) ==
  /\ row[j].status = "SUCCEEDED" /\ row'[j].status = "FAILED"
  /\ StaleSweepOf(j)
  /\ runs'[j] = runs[j] /\ runs[j] # {} /\ game'[j] = "available"

OnlyStaleSweepsOverwrite ==
  [][\A j \in Jobs : row[j].status \in Terminal /\ row'[j].status # row[j].status
                       => EndOverwritten(j)]_vars

(* A step that writes one row at most, that of an open job. *)
WritesOpenRow(i) ==
  \/ UNCHANGED row
  \/ i \in Jobs /\ row[i].status \notin Terminal /\ \E k : row' = [row EXCEPT ![i] = k]

LEMMA EndedRowStays ==
  ASSUME IInv, NEW i, WritesOpenRow(i), NEW j \in Jobs, row[j].status \in Terminal
  PROVE  row'[j] = row[j]
BY DEF WritesOpenRow, IInv, TypeOK

LEMMA WorkersWriteOpenRows ==
  ASSUME IInv, NEW w \in Workers, WorkerStep(w)
  PROVE  \E i : WritesOpenRow(i)
<1>1. CASE worker[w].pc = "idle"
  <2>1. UNCHANGED row
    BY <1>1 DEF WorkerStep, Receive, Claim, IgnoreDelivery, Start, CheckAuthority, Analyse,
       AnalysisRaises, Persist, Release, Fail, Retry, Kill, TaskFailureSignal, HostDies, database
  <2> QED
    BY <2>1 DEF WritesOpenRow
<1>2. CASE worker[w].pc # "idle"
  <2> DEFINE i == worker[w].job
  <2>1. i \in Jobs
    BY <1>2, BusyHoldsJob
  <2>2. CASE Claim(w)
    <3>1. row[i].status = "QUEUED" /\ row' = [row EXCEPT ![i] = Claimed(row[i], HostOf[w])]
      BY <2>1, <2>2 DEF Claim, IInv, TypeOK
    <3> QED
      BY <2>1, <3>1 DEF WritesOpenRow, Terminal, JSM!Terminal
  <2>3. CASE Start(w)
    <3>1. \/ UNCHANGED row
          \/ /\ row[i].status = "CLAIMED"
             /\ row' = [row EXCEPT ![i] = [row[i] EXCEPT !.status = "RUNNING"]]
      BY <2>1, <2>3 DEF Start, MayStart, IInv, TypeOK
    <3> QED
      BY <2>1, <3>1 DEF WritesOpenRow, Terminal, JSM!Terminal
  <2>4. CASE Persist(w)
    <3>1. \/ UNCHANGED row
          \/ /\ row[i].status = "RUNNING"
             /\ row' = [row EXCEPT ![i] = Unleased(row[i], "SUCCEEDED")]
      BY <2>1, <2>4 DEF Persist, MayPersist, MayComplete, IInv, TypeOK
    <3> QED
      BY <2>1, <3>1 DEF WritesOpenRow, Terminal, JSM!Terminal
  <2>5. CASE Fail(w)
    <3>1. \/ UNCHANGED row
          \/ /\ row[i].status \notin Terminal
             /\ row' = [row EXCEPT ![i] = Unleased(row[i], "FAILED")]
      BY <2>1, <2>5 DEF Fail, MayFail, IInv, TypeOK
    <3> QED
      BY <2>1, <3>1 DEF WritesOpenRow
  <2>6. CASE Retry(w)
    <3>1. \/ UNCHANGED row
          \/ /\ row[i].status \in {"CLAIMED", "RUNNING"}
             /\ row' = [row EXCEPT ![i] = Rescheduled(i)]
      BY <2>1, <2>6 DEF Retry, MayRetry
    <3> QED
      BY <2>1, <3>1 DEF WritesOpenRow, Terminal, JSM!Terminal
  <2>7. CASE QuietStep(w) \/ \E j \in Jobs : Receive(w, j)
    <3>1. UNCHANGED row
      BY <2>7 DEF QuietStep, IgnoreDelivery, CheckAuthority, Analyse, AnalysisRaises, Release,
         Kill, TaskFailureSignal, HostDies, Receive, database
    <3> QED
      BY <3>1 DEF WritesOpenRow
  <2> QED
    BY <2>2, <2>3, <2>4, <2>5, <2>6, <2>7 DEF WorkerStep, QuietStep
<1> QED
  BY <1>1, <1>2

LEMMA OnlySweepsMoveEnded ==
  ASSUME IInv, Next, NEW j \in Jobs, row[j].status \in Terminal,
         row'[j].status # row[j].status
  PROVE  \E s \in Sweepers :
           Terminalize(s) /\ sweeper[s].job = j /\ sweeper[s].seen \notin Terminal
<1>1. ASSUME NEW i \in Jobs, CreateJob(i) \/ EnsureOutbox(i) \/ LeaseExpires(i)
      PROVE  FALSE
  <2>1. \/ UNCHANGED row
        \/ row[i].status = "NONE" /\ row' = [row EXCEPT ![i] = NewJob]
        \/ /\ row[i].status \in {"CLAIMED", "RUNNING"}
           /\ row' = [row EXCEPT ![i] = [row[i] EXCEPT !.expired = TRUE]]
    BY <1>1 DEF CreateJob, EnsureOutbox, LeaseExpires, IInv, TypeOK
  <2>2. WritesOpenRow(i)
    BY <2>1 DEF WritesOpenRow, Terminal, JSM!Terminal
  <2> QED
    BY <2>2, EndedRowStays
<1>2. ASSUME NEW p \in Publishers, PublisherStep(p)
      PROVE  FALSE
  <2>1. CASE CommitPublish(p)
    <3>1. row[j].status \notin Queueable
      BY DEF Queueable, Terminal, JSM!Terminal
    <3> QED
      BY <2>1, <3>1 DEF CommitPublish
  <2>2. CASE ~CommitPublish(p)
    BY <1>2, <2>2 DEF PublisherStep, BeginPublish, Send, SendFails, Mark, PublisherDies, database
  <2> QED
    BY <2>1, <2>2
<1>3. ASSUME NEW w \in Workers, WorkerStep(w)
      PROVE  FALSE
  BY <1>3, WorkersWriteOpenRows, EndedRowStays
<1>4. ASSUME NEW s \in Sweepers, SweeperStep(s)
      PROVE  Terminalize(s) /\ sweeper[s].job = j /\ sweeper[s].seen \notin Terminal
  <2>1. Terminalize(s)
    BY <1>4 DEF SweeperStep, ListExpired, ReadJob, database
  <2>2. sweeper[s].seen \notin Terminal
    BY <2>1 DEF Terminalize
  <2>3. row' = [row EXCEPT ![sweeper[s].job] = Terminalized(@, sweeper[s].seen)]
    BY <2>1, <2>2 DEF Terminalize
  <2> QED
    BY <2>1, <2>2, <2>3 DEF IInv, TypeOK
<1> QED
  BY <1>1, <1>2, <1>3, <1>4 DEF Next

(* The lifecycle sweep is all that ever changes a terminal status, from    *)
(* SUCCEEDED to FAILED and on a stale read (_terminalize_external_failure  *)
(* and the identity map of its session), and the owner keeps the result.   *)
THEOREM EndsOverwrittenBySweepsOnly == Spec => OnlyStaleSweepsOverwrite
<1>1. ASSUME IInv, Next, NEW j \in Jobs, row[j].status \in Terminal,
             row'[j].status # row[j].status
      PROVE  EndOverwritten(j)
  <2>1. PICK s \in Sweepers :
          Terminalize(s) /\ sweeper[s].job = j /\ sweeper[s].seen \notin Terminal
    BY <1>1, OnlySweepsMoveEnded
  <2>2. row[j].status = "SUCCEEDED" /\ row'[j].status = "FAILED"
    <3>1. MayMove(row[j].status, row'[j].status)
      BY <1>1, NextPreserves DEF StatusesFollow
    <3> QED
      BY <1>1, <3>1 DEF MayMove, JSM!Allowed, Terminal, JSM!Terminal
  <2>3. runs' = runs /\ game' = [game EXCEPT ![j] = TerminalData(@)]
    BY <2>1 DEF Terminalize
  <2>4. runs[j] # {} /\ game[j] = "available"
    BY <1>1, <2>2 DEF IInv, OneRunPerJob
  <2>5. game'[j] = "available"
    BY <1>1, <2>3, <2>4 DEF IInv, TypeOK, TerminalData
  <2> QED
    BY <2>1, <2>2, <2>3, <2>4, <2>5 DEF EndOverwritten, StaleSweepOf
<1>2. IInv /\ [Next]_vars =>
        [\A j \in Jobs : row[j].status \in Terminal /\ row'[j].status # row[j].status
                           => EndOverwritten(j)]_vars
  BY <1>1
<1> QED
  BY <1>2, JobsInvariant, PTL DEF Spec, OnlyStaleSweepsOverwrite

(* Where no sweep runs, the first terminal write does win: publishers,     *)
(* workers, duplicated messages and crashes never undo an end.             *)
THEOREM FirstWriteWinsWithoutSweeps ==
  ASSUME Sweepers = {}
  PROVE  Spec => FirstTerminalWriteWins
<1>1. IInv /\ [Next]_vars =>
        [\A j \in Jobs : row[j].status \in Terminal => row'[j].status = row[j].status]_vars
  BY OnlySweepsMoveEnded
<1> QED
  BY <1>1, JobsInvariant, PTL DEF Spec, FirstTerminalWriteWins
=============================================================================
