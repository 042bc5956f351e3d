------------------------ MODULE ResultDeliveryProofs ------------------------
(***************************************************************************)
(* For any number of readers, polls, moves and claims: the result is       *)
(* released exactly while its run is kept, and it is delivered as          *)
(* OneTimeResult says.  The two rest on one another and on an observation  *)
(* about the job: a result is kept, or was taken, only of a job that has   *)
(* ended, and no step opens a job again.  So the transaction that persists *)
(* a result finds none and nobody who took one.                            *)
(***************************************************************************)
EXTENDS ResultDelivery, TLAPS

(* An execution that holds a lease was given a number by a claim. *)
WorkerNumbered == worker.pc # "gone" => worker.generation \in 1 .. MaxGenerations

OneTaker ==
  /\ took # {} => job.status \in Terminal /\ runs = {}
  /\ \A q, r \in took : q = r
  /\ received \subseteq took
  /\ \A r \in Readers : reader[r].pc # "idle" => r \in Owners
  /\ \A r \in Readers : reader[r].pc = "respond" => r \in took

(* What a poll has read or returned about the end of the job is still so. *)
PollsRemember ==
  \A p \in Polls :
    /\ poll[p].pc = "run" => poll[p].job # "NONE"
    /\ poll[p].pc = "run" /\ poll[p].job \in Terminal => job.status \in Terminal
    /\ ~ShouldRetry(poll[p].readiness) =>
         /\ job.status \in Terminal
         /\ poll[p].pc = "run" => poll[p].job \in Terminal

IInv ==
  /\ TypeOK
  /\ AvailableIffCompleteRun
  /\ WorkerNumbered
  /\ OneTaker
  /\ PollsRemember

LEMMA InitEstablishes == Init => IInv
<1> SUFFICES ASSUME Init PROVE IInv
  OBVIOUS
<1> USE DEF Init, IdleReader, IdlePoll, NoRun, NoWorker
<1>1. TypeOK
  BY DeliveryAssumption DEF TypeOK
<1>2. AvailableIffCompleteRun
  BY DEF AvailableIffCompleteRun
<1>3. WorkerNumbered
  BY DEF WorkerNumbered
<1>4. OneTaker
  BY DEF OneTaker
<1>5. PollsRemember
  BY DEF PollsRemember, ShouldRetry
<1> QED BY <1>1, <1>2, <1>3, <1>4, <1>5 DEF IInv

LEMMA ClaimPreserves == IInv /\ Claim => IInv'
<1> SUFFICES ASSUME IInv, Claim PROVE IInv'
  OBVIOUS
<1> USE DEF IInv, Claim, readers
<1>1. runs = {} /\ took = {}
  BY DEF AvailableIffCompleteRun, OneTaker, Terminal
<1>2. TypeOK'
  BY DeliveryAssumption DEF TypeOK
<1>3. AvailableIffCompleteRun'
  BY <1>1 DEF AvailableIffCompleteRun
<1>4. WorkerNumbered'
  BY DeliveryAssumption DEF WorkerNumbered, TypeOK
<1>5. OneTaker'
  BY <1>1 DEF OneTaker
<1>6. PollsRemember'
  BY DEF PollsRemember, Terminal
<1> QED BY <1>2, <1>3, <1>4, <1>5, <1>6

LEMMA LeaseExpiresPreserves == IInv /\ LeaseExpires => IInv'
<1> SUFFICES ASSUME IInv, LeaseExpires PROVE IInv'
  OBVIOUS
<1> USE DEF IInv, LeaseExpires, readers
<1>1. job'.status = job.status /\ job'.generation = job.generation
  BY DEF TypeOK
<1>2. TypeOK'
  BY DEF TypeOK
<1>3. AvailableIffCompleteRun'
  BY <1>1 DEF AvailableIffCompleteRun
<1>4. WorkerNumbered'
  BY DEF WorkerNumbered
<1>5. OneTaker'
  BY <1>1 DEF OneTaker
<1>6. PollsRemember'
  BY <1>1 DEF PollsRemember
<1> QED BY <1>2, <1>3, <1>4, <1>5, <1>6

LEMMA FinishAnalysisPreserves == IInv /\ FinishAnalysis => IInv'
<1> SUFFICES ASSUME IInv, FinishAnalysis PROVE IInv'
  OBVIOUS
<1> USE DEF IInv, FinishAnalysis, database, readers
<1>1. (~job.expired) \in BOOLEAN
  BY DEF TypeOK
<1>2. worker.pc = "analysing" /\ worker'.generation = worker.generation
  BY DEF TypeOK
<1>3. TypeOK'
  <2>1. worker' \in [pc : {"gone", "analysing", "persisting"},
                     generation : 0 .. MaxGenerations, onTime : BOOLEAN]
    BY <1>1 DEF TypeOK
  <2> QED BY <2>1 DEF TypeOK
<1>4. AvailableIffCompleteRun'
  BY DEF AvailableIffCompleteRun
<1>5. WorkerNumbered'
  BY <1>2 DEF WorkerNumbered
<1>6. OneTaker'
  BY DEF OneTaker
<1>7. PollsRemember'
  BY DEF PollsRemember
<1> QED BY <1>3, <1>4, <1>5, <1>6, <1>7

LEMMA WorkerDiesPreserves == IInv /\ WorkerDies => IInv'
<1> SUFFICES ASSUME IInv, WorkerDies PROVE IInv'
  OBVIOUS
<1> USE DEF IInv, WorkerDies, NoWorker, database, readers
<1>1. TypeOK'
  BY DeliveryAssumption DEF TypeOK
<1>2. AvailableIffCompleteRun'
  BY DEF AvailableIffCompleteRun
<1>3. WorkerNumbered'
  BY DEF WorkerNumbered
<1>4. OneTaker'
  BY DEF OneTaker
<1>5. PollsRemember'
  BY DEF PollsRemember
<1> QED BY <1>1, <1>2, <1>3, <1>4, <1>5

LEMMA PersistPreserves == IInv /\ PersistAndComplete => IInv'
<1> SUFFICES ASSUME IInv, PersistAndComplete PROVE IInv'
  OBVIOUS
<1> USE DEF IInv, PersistAndComplete, MayReplace, OwnsJob, readers
<1>1. runs = {} /\ took = {}
  BY DEF AvailableIffCompleteRun, OneTaker, Terminal
<1>2. runs' = {NewRun} /\ NewRun \in Runs /\ NewRun.generation = job.generation
  <2>1. runs' = {NewRun}
    BY <1>1
  <2>2. worker.generation \in 1 .. MaxGenerations
    BY DEF WorkerNumbered
  <2> QED BY <2>1, <2>2 DEF NewRun, Runs
<1>3. job' \in [status : {"SUCCEEDED"}, generation : {job.generation}, expired : BOOLEAN]
  BY DEF TypeOK
<1>4. game' \in [status : {"ANALYSIS_AVAILABLE"}, data : {FALSE}]
  BY DEF Cleaned, TypeOK
<1>5. TypeOK'
  <2>1. job' \in [status : {"QUEUED", "RUNNING", "RETRY_SCHEDULED"} \cup Terminal,
                  generation : 0 .. MaxGenerations, expired : BOOLEAN]
    BY <1>3 DEF TypeOK, Terminal
  <2>2. runs' \subseteq Runs
    BY <1>2
  <2>3. game' \in [status : {"FINISHED", "ANALYSIS_AVAILABLE"}, data : BOOLEAN]
    BY <1>4
  <2>4. worker' \in [pc : {"gone", "analysing", "persisting"},
                     generation : 0 .. MaxGenerations, onTime : BOOLEAN]
    BY DeliveryAssumption DEF NoWorker
  <2> QED BY <2>1, <2>2, <2>3, <2>4 DEF TypeOK
<1>6. AvailableIffCompleteRun'
  BY <1>2, <1>3, <1>4 DEF AvailableIffCompleteRun, Terminal
<1>7. WorkerNumbered'
  BY DEF WorkerNumbered, NoWorker
<1>8. OneTaker'
  BY <1>1 DEF OneTaker
<1>9. PollsRemember'
  BY <1>3 DEF PollsRemember, Terminal
<1> QED BY <1>5, <1>6, <1>7, <1>8, <1>9

LEMMA WorkerFailsPreserves == IInv /\ WorkerFails => IInv'
<1> SUFFICES ASSUME IInv, WorkerFails PROVE IInv'
  OBVIOUS
<1> USE DEF IInv, readers
<1>1. worker' = NoWorker /\ UNCHANGED <<runs, sweep, readers, poll>>
  BY DEF WorkerFails
<1>2. WorkerNumbered'
  BY <1>1 DEF WorkerNumbered, NoWorker
<1>3. CASE OwnsJob
  <2>1. runs = {} /\ took = {}
    BY <1>3 DEF AvailableIffCompleteRun, OneTaker, OwnsJob, Terminal
  <2>2. job' \in [status : {"FAILED", "RETRY_SCHEDULED"}, generation : {job.generation},
                  expired : BOOLEAN]
    BY <1>3 DEF WorkerFails, TypeOK
  <2>3. game' \in [status : {game.status}, data : BOOLEAN]
    BY <1>3 DEF WorkerFails, Cleaned, TypeOK
  <2>4. TypeOK'
    BY <1>1, <2>2, <2>3, DeliveryAssumption DEF TypeOK, NoWorker, Terminal
  <2>5. AvailableIffCompleteRun'
    BY <1>1, <2>1, <2>3 DEF AvailableIffCompleteRun
  <2>6. OneTaker'
    BY <1>1, <2>1 DEF OneTaker
  <2>7. PollsRemember'
    BY <1>1, <1>3 DEF PollsRemember, OwnsJob, Terminal
  <2> QED BY <1>2, <2>4, <2>5, <2>6, <2>7
<1>4. CASE ~OwnsJob
  <2>1. UNCHANGED <<job, game>>
    BY <1>4 DEF WorkerFails
  <2>2. TypeOK'
    BY <1>1, <2>1, DeliveryAssumption DEF TypeOK, NoWorker
  <2>3. AvailableIffCompleteRun'
    BY <1>1, <2>1 DEF AvailableIffCompleteRun
  <2>4. OneTaker' /\ PollsRemember'
    BY <1>1, <2>1 DEF OneTaker, PollsRemember
  <2> QED BY <1>2, <2>2, <2>3, <2>4
<1> QED BY <1>3, <1>4

LEMMA RequeuePreserves == IInv /\ Requeue => IInv'
<1> SUFFICES ASSUME IInv, Requeue PROVE IInv'
  OBVIOUS
<1> USE DEF IInv, Requeue, readers
<1>1. runs = {} /\ took = {}
  BY DEF AvailableIffCompleteRun, OneTaker, Terminal
<1>2. TypeOK'
  BY DEF TypeOK, Terminal
<1>3. AvailableIffCompleteRun'
  BY <1>1 DEF AvailableIffCompleteRun
<1>4. WorkerNumbered'
  BY DEF WorkerNumbered
<1>5. OneTaker'
  BY <1>1 DEF OneTaker
<1>6. PollsRemember'
  BY DEF PollsRemember, Terminal
<1> QED BY <1>2, <1>3, <1>4, <1>5, <1>6

LEMMA SweepReadPreserves == IInv /\ SweepRead => IInv'
<1> SUFFICES ASSUME IInv, SweepRead PROVE IInv'
  OBVIOUS
<1> USE DEF IInv, SweepRead, database, readers
<1>1. TypeOK'
  BY DEF TypeOK
<1>2. AvailableIffCompleteRun'
  BY DEF AvailableIffCompleteRun
<1>3. WorkerNumbered' /\ OneTaker' /\ PollsRemember'
  BY DEF WorkerNumbered, OneTaker, PollsRemember
<1> QED BY <1>1, <1>2, <1>3

(* The late write of the sweep may fail a job that has succeeded, whose    *)
(* result stays.                                                           *)
LEMMA SweepWritePreserves == IInv /\ SweepWrite => IInv'
<1> SUFFICES ASSUME IInv, SweepWrite PROVE IInv'
  OBVIOUS
<1> USE DEF IInv, SweepWrite, readers
<1>1. job' \in [status : {"FAILED"}, generation : {job.generation}, expired : BOOLEAN]
  BY DEF TypeOK
<1>2. game' \in [status : {game.status}, data : {FALSE}]
  BY DEF Cleaned, TypeOK
<1>3. TypeOK'
  <2>1. job' \in [status : {"QUEUED", "RUNNING", "RETRY_SCHEDULED"} \cup Terminal,
                  generation : 0 .. MaxGenerations, expired : BOOLEAN]
    BY <1>1 DEF TypeOK, Terminal
  <2>2. game' \in [status : {"FINISHED", "ANALYSIS_AVAILABLE"}, data : BOOLEAN]
    BY <1>2 DEF TypeOK
  <2> QED BY <2>1, <2>2 DEF TypeOK
<1>4. AvailableIffCompleteRun'
  BY <1>1, <1>2 DEF AvailableIffCompleteRun, Terminal
<1>5. WorkerNumbered'
  BY DEF WorkerNumbered
<1>6. OneTaker'
  BY <1>1 DEF OneTaker, Terminal
<1>7. PollsRemember'
  BY <1>1 DEF PollsRemember, Terminal
<1> QED BY <1>3, <1>4, <1>5, <1>6, <1>7

-----------------------------------------------------------------------------
ReaderRecords ==
  [pc : {"idle", "authority", "job", "run", "positions", "moves", "consume", "respond"},
   run : Runs \cup {[NoRun EXCEPT !.generation = g] : g \in 0 .. MaxGenerations},
   positions : {0, Moves + 1}]

(* A read of one reader, which does not go on to respond. *)
LEMMA ReadPreserves ==
  ASSUME IInv, NEW r \in Readers, NEW k \in ReaderRecords, ReaderOnly,
         reader' = [reader EXCEPT ![r] = k],
         k.pc # "respond",
         k.pc # "idle" => r \in Owners
  PROVE  IInv'
<1> USE DEF IInv, ReaderOnly, database
<1>1. TypeOK'
  BY DEF TypeOK, ReaderRecords
<1>2. AvailableIffCompleteRun'
  BY DEF AvailableIffCompleteRun
<1>3. WorkerNumbered'
  BY DEF WorkerNumbered
<1>4. OneTaker'
  BY DEF OneTaker, TypeOK
<1>5. PollsRemember'
  BY DEF PollsRemember
<1> QED BY <1>1, <1>2, <1>3, <1>4, <1>5

(* Every record that a run gives is one of the type. *)
LEMMA RowsOfARun ==
  ASSUME TypeOK, NEW r \in Readers
  PROVE  /\ RowsOf(r).positions \in {0, Moves + 1}
         /\ \A run \in runs : run.positions = Moves + 1 /\ run \in Runs
BY DEF RowsOf, TypeOK, Runs, NoRun

LEMMA GotoPreserves ==
  ASSUME IInv, NEW r \in Owners, NEW pc \in {"authority", "job", "consume"},
         Goto(r, pc), ReaderOnly
  PROVE  IInv'
<1> DEFINE k == [reader[r] EXCEPT !.pc = pc]
<1>1. r \in Readers
  BY DeliveryAssumption
<1>2. k \in ReaderRecords /\ k.pc = pc
  BY <1>1 DEF IInv, TypeOK, ReaderRecords
<1>3. reader' = [reader EXCEPT ![r] = k]
  BY DEF Goto
<1> HIDE DEF k
<1> QED BY <1>1, <1>2, <1>3, ReadPreserves

LEMMA IdleReaderIsRecord == IdleReader \in ReaderRecords
BY DeliveryAssumption DEF IdleReader, ReaderRecords, NoRun

LEMMA RefusePreserves ==
  ASSUME IInv, NEW r \in Readers, Refuse(r), ReaderOnly
  PROVE  IInv'
<1>1. reader' = [reader EXCEPT ![r] = IdleReader]
  BY DEF Refuse
<1>2. IdleReader.pc = "idle"
  BY DEF IdleReader
<1> QED BY <1>1, <1>2, IdleReaderIsRecord, ReadPreserves

LEMMA OnlyOwnersRead ==
  ASSUME IInv, NEW r \in Readers, reader[r].pc # "idle"
  PROVE  r \in Owners
BY DEF IInv, OneTaker

LEMMA ReadJobPreserves == ASSUME IInv, NEW r \in Readers, ReadJob(r) PROVE IInv'
<1>1. r \in Owners /\ ReaderOnly
  BY OnlyOwnersRead DEF ReadJob
<1>2. CASE job.status = "SUCCEEDED"
  <2> DEFINE k == [reader[r] EXCEPT !.pc = "run",
                                    !.run = [NoRun EXCEPT !.generation = CurrentGeneration]]
  <2>1. k \in ReaderRecords /\ k.pc = "run"
    BY DEF IInv, TypeOK, ReaderRecords, CurrentGeneration
  <2>2. reader' = [reader EXCEPT ![r] = k]
    BY <1>2 DEF ReadJob, IInv, TypeOK
  <2> HIDE DEF k
  <2> QED BY <1>1, <2>1, <2>2, ReadPreserves
<1>3. CASE job.status # "SUCCEEDED"
  BY <1>1, <1>3, RefusePreserves DEF ReadJob
<1> QED BY <1>2, <1>3

LEMMA ReadRunPreserves == ASSUME IInv, NEW r \in Readers, ReadRun(r) PROVE IInv'
<1> DEFINE found == {run \in runs : run.generation = reader[r].run.generation}
<1>1. r \in Owners /\ ReaderOnly
  BY OnlyOwnersRead DEF ReadRun
<1>2. CASE found # {}
  <2> DEFINE the == CHOOSE run \in found : TRUE
             k == [reader[r] EXCEPT !.pc = "positions", !.run = the]
  <2>1. the \in Runs
    BY <1>2 DEF IInv, TypeOK
  <2>2. reader' = [reader EXCEPT ![r] = k]
    BY <1>2 DEF ReadRun, IInv, TypeOK
  <2> HIDE DEF the
  <2>3. k \in ReaderRecords /\ k.pc = "positions"
    BY <2>1 DEF IInv, TypeOK, ReaderRecords
  <2> HIDE DEF k
  <2> QED BY <1>1, <2>2, <2>3, ReadPreserves
<1>3. CASE found = {}
  BY <1>1, <1>3, RefusePreserves DEF ReadRun
<1> QED BY <1>2, <1>3

LEMMA ReadPositionsPreserves ==
  ASSUME IInv, NEW r \in Readers, ReadPositions(r) PROVE IInv'
<1> DEFINE k == [reader[r] EXCEPT !.pc = "moves", !.positions = RowsOf(r).positions]
<1>1. r \in Owners /\ ReaderOnly
  BY OnlyOwnersRead DEF ReadPositions
<1>2. k \in ReaderRecords /\ k.pc = "moves"
  <2>1. RowsOf(r).positions \in {0, Moves + 1}
    BY RowsOfARun DEF IInv
  <2>2. reader[r] \in ReaderRecords
    BY DEF IInv, TypeOK, ReaderRecords
  <2> QED BY <2>1, <2>2 DEF ReaderRecords
<1>3. reader' = [reader EXCEPT ![r] = k]
  BY DEF ReadPositions, IInv, TypeOK
<1> HIDE DEF k
<1> QED BY <1>1, <1>2, <1>3, ReadPreserves

LEMMA ReadMovesPreserves == ASSUME IInv, NEW r \in Readers, ReadMoves(r) PROVE IInv'
<1>1. r \in Owners /\ ReaderOnly /\ (Goto(r, "consume") \/ Refuse(r))
  BY OnlyOwnersRead DEF ReadMoves
<1> QED BY <1>1, GotoPreserves, RefusePreserves

(* The reader that consumes the run takes all there is. *)
LEMMA ConsumeTakesAll ==
  ASSUME IInv, NEW r \in Readers, Consume(r), Consumable(r)
  PROVE  /\ runs # {} /\ runs' = {} /\ took = {} /\ took' = {r}
         /\ game.status = "ANALYSIS_AVAILABLE"
         /\ job.status \in Terminal
         /\ r \in Owners
<1>1. runs # {} /\ job.status \in Terminal /\ game.status = "ANALYSIS_AVAILABLE"
  BY DEF IInv, AvailableIffCompleteRun, Consumable
<1>2. reader[r].run.generation = job.generation
  BY DEF IInv, AvailableIffCompleteRun, Consumable
<1>3. runs' = {}
  BY <1>2 DEF Consume, IInv, AvailableIffCompleteRun
<1>4. took = {} /\ took' = {r}
  BY <1>1 DEF Consume, IInv, OneTaker
<1>5. r \in Owners
  BY OnlyOwnersRead DEF Consume
<1> QED BY <1>1, <1>3, <1>4, <1>5

LEMMA ConsumePreserves == ASSUME IInv, NEW r \in Readers, Consume(r) PROVE IInv'
<1> USE DEF IInv
<1>0. UNCHANGED <<job, worker, sweep, received, poll>>
  BY DEF Consume
<1>1. CASE Consumable(r)
  <2>1. /\ runs' = {} /\ took = {} /\ took' = {r}
        /\ job.status \in Terminal
        /\ r \in Owners
    BY <1>1, ConsumeTakesAll
  <2>2. game' \in [status : {"FINISHED"}, data : BOOLEAN]
    BY <1>1 DEF Consume, Withdrawn, TypeOK
  <2>3. reader' = [reader EXCEPT ![r] = [reader[r] EXCEPT !.pc = "respond"]]
    BY <1>1 DEF Consume, Goto
  <2>4. TypeOK'
    <3>1. game' \in [status : {"FINISHED", "ANALYSIS_AVAILABLE"}, data : BOOLEAN]
      BY <2>2
    <3>2. reader' \in [Readers -> ReaderRecords]
      BY <2>3 DEF TypeOK, ReaderRecords
    <3> QED BY <1>0, <2>1, <3>1, <3>2 DEF TypeOK, ReaderRecords
  <2>5. AvailableIffCompleteRun'
    BY <2>1, <2>2 DEF AvailableIffCompleteRun
  <2>6. WorkerNumbered' /\ PollsRemember'
    BY <1>0 DEF WorkerNumbered, PollsRemember
  <2>7. OneTaker'
    BY <1>0, <2>1, <2>3 DEF OneTaker, TypeOK
  <2> QED BY <2>4, <2>5, <2>6, <2>7
<1>2. CASE ~Consumable(r)
  <2>1. Refuse(r) /\ ReaderOnly
    BY <1>0, <1>2 DEF Consume, ReaderOnly, database
  <2> QED BY <2>1, RefusePreserves
<1> QED BY <1>1, <1>2

LEMMA RespondPreserves == ASSUME IInv, NEW r \in Readers, Respond(r) PROVE IInv'
<1> USE DEF IInv, database
<1>1. /\ reader' = [reader EXCEPT ![r] = IdleReader]
      /\ received' = received \cup {r}
      /\ UNCHANGED <<game, job, runs, worker, sweep, took, poll>>
  BY DEF Respond, Refuse
<1>2. r \in took
  BY DEF Respond, OneTaker
<1>3. TypeOK'
  <2>1. reader' \in [Readers -> ReaderRecords]
    BY <1>1, IdleReaderIsRecord DEF TypeOK, ReaderRecords
  <2> QED BY <1>1, <2>1 DEF TypeOK, ReaderRecords
<1>4. AvailableIffCompleteRun'
  BY <1>1 DEF AvailableIffCompleteRun
<1>5. WorkerNumbered' /\ PollsRemember'
  BY <1>1 DEF WorkerNumbered, PollsRemember
<1>6. OneTaker'
  BY <1>1, <1>2 DEF OneTaker, TypeOK, IdleReader
<1> QED BY <1>3, <1>4, <1>5, <1>6

LEMMA ReaderPreserves ==
  ASSUME IInv, NEW r \in Readers, ReaderStep(r) \/ Disconnect(r)
  PROVE  IInv'
<1>1. CASE ReadReleased(r)
  BY <1>1, GotoPreserves DEF ReadReleased, Released
<1>2. CASE ReadAuthority(r)
  BY <1>2, OnlyOwnersRead, GotoPreserves, RefusePreserves DEF ReadAuthority
<1>3. CASE ReadJob(r)
  BY <1>3, ReadJobPreserves
<1>4. CASE ReadRun(r)
  BY <1>4, ReadRunPreserves
<1>5. CASE ReadPositions(r)
  BY <1>5, ReadPositionsPreserves
<1>6. CASE ReadMoves(r)
  BY <1>6, ReadMovesPreserves
<1>7. CASE Consume(r)
  BY <1>7, ConsumePreserves
<1>8. CASE Respond(r)
  BY <1>8, RespondPreserves
<1>9. CASE Disconnect(r)
  BY <1>9, RefusePreserves DEF Disconnect
<1> QED BY <1>1, <1>2, <1>3, <1>4, <1>5, <1>6, <1>7, <1>8, <1>9 DEF ReaderStep

-----------------------------------------------------------------------------
(* What PublicAnalysisStatusService answers about a job that has ended     *)
(* sends the client away.                                                  *)
LEMMA EndedIsFinal ==
  ASSUME NEW g, NEW j \in Terminal, NEW h \in BOOLEAN
  PROVE  Readiness(g, j, h) \in {"FAILED", "AVAILABLE"}
BY DEF Readiness, Terminal

(* A client is sent away only when the job it was told of has ended. *)
LEMMA FinalIsEnded ==
  ASSUME NEW g, NEW h \in BOOLEAN,
         NEW j \in {"QUEUED", "RUNNING", "RETRY_SCHEDULED"} \cup Terminal
  PROVE  /\ Readiness(g, j, h) \in {"QUEUED", "RUNNING", "FAILED", "AVAILABLE"}
         /\ ~ShouldRetry(Readiness(g, j, h)) => j \in Terminal
BY DEF Readiness, ShouldRetry, Terminal

PollRecords ==
  [pc : {"idle", "job", "run"}, game : {"NONE", "FINISHED", "ANALYSIS_AVAILABLE"},
   job : {"NONE", "QUEUED", "RUNNING", "RETRY_SCHEDULED"} \cup Terminal,
   readiness : {"NONE", "QUEUED", "RUNNING", "FAILED", "AVAILABLE"}]

LEMMA PollTyped ==
  ASSUME TypeOK, NEW p \in Polls, NEW k \in PollRecords,
         poll' = [poll EXCEPT ![p] = k],
         UNCHANGED <<game, job, runs, worker, sweep, reader, took, received>>
  PROVE  TypeOK'
<1>1. poll \in [Polls -> PollRecords]
  BY DEF TypeOK, PollRecords
<1>2. poll' \in [Polls -> PollRecords]
  BY <1>1
<1> QED BY <1>2 DEF TypeOK, PollRecords

PollSteps(p) == PollGame(p) \/ PollJob(p) \/ PollRun(p)

LEMMA PollPreserves ==
  ASSUME IInv, NEW p \in Polls, PollSteps(p)
  PROVE  /\ IInv'
         /\ ~ShouldRetry(poll[p].readiness) => ~ShouldRetry(poll'[p].readiness)
         /\ \A q \in Polls \ {p} : poll'[q] = poll[q]
<1> USE DEF IInv, database, readers
<1>1. UNCHANGED <<game, job, runs, worker, sweep, reader, took, received>>
  BY DEF PollSteps, PollGame, PollJob, PollRun, PollOnly
<1>2. AvailableIffCompleteRun' /\ WorkerNumbered' /\ OneTaker'
  BY <1>1 DEF AvailableIffCompleteRun, WorkerNumbered, OneTaker
<1>3. CASE PollGame(p)
  <2> DEFINE k == [poll[p] EXCEPT !.pc = "job", !.game = game.status]
  <2>0. k \in PollRecords
    <3>1. game.status \in {"NONE", "FINISHED", "ANALYSIS_AVAILABLE"}
      BY DEF TypeOK
    <3>2. poll[p] \in PollRecords
      BY DEF TypeOK, PollRecords
    <3> QED BY <3>1, <3>2 DEF PollRecords
  <2>1. TypeOK'
    BY <1>1, <1>3, <2>0, PollTyped DEF PollGame
  <2>2. poll' = [poll EXCEPT ![p] = k] /\ k.pc = "job" /\ k.readiness = poll[p].readiness
    BY <1>3 DEF PollGame, TypeOK
  <2> HIDE DEF k
  <2>3. \A q \in Polls : poll'[q] = IF q = p THEN k ELSE poll[q]
    BY <2>2 DEF TypeOK
  <2>4. PollsRemember'
    BY <1>1, <2>2, <2>3 DEF PollsRemember
  <2> QED BY <1>2, <2>1, <2>2, <2>3, <2>4
<1>4. CASE PollJob(p)
  <2> DEFINE k == [poll[p] EXCEPT !.pc = "run", !.job = job.status]
  <2>0. k \in PollRecords
    <3>1. job.status \in {"NONE", "QUEUED", "RUNNING", "RETRY_SCHEDULED"} \cup Terminal
      BY DEF TypeOK
    <3>2. poll[p] \in PollRecords
      BY DEF TypeOK, PollRecords
    <3> QED BY <3>1, <3>2 DEF PollRecords
  <2>1. TypeOK'
    BY <1>1, <1>4, <2>0, PollTyped DEF PollJob
  <2>2. /\ poll' = [poll EXCEPT ![p] = k] /\ k.readiness = poll[p].readiness
        /\ k.job = job.status /\ job.status # "NONE"
    BY <1>4 DEF PollJob, TypeOK, Terminal
  <2> HIDE DEF k
  <2>3. \A q \in Polls : poll'[q] = IF q = p THEN k ELSE poll[q]
    BY <2>2 DEF TypeOK
  <2>4. PollsRemember'
    BY <1>1, <2>2, <2>3 DEF PollsRemember
  <2> QED BY <1>2, <2>1, <2>2, <2>3, <2>4
<1>5. CASE PollRun(p)
  <2> DEFINE hasRun == \E run \in runs : run.generation = job.generation
             answer == Readiness(poll[p].game, poll[p].job, hasRun)
  <2>1. poll' = [poll EXCEPT ![p] = [IdlePoll EXCEPT !.readiness = answer]]
    BY <1>5 DEF PollRun, Answered, HasCompleteRun
  <2>2. poll[p].pc = "run"
        /\ poll[p].job \in {"QUEUED", "RUNNING", "RETRY_SCHEDULED"} \cup Terminal
    BY <1>5 DEF PollRun, PollsRemember, TypeOK
  <2>3. hasRun \in BOOLEAN
    OBVIOUS
  <2> HIDE DEF hasRun
  <2>4. /\ answer \in {"QUEUED", "RUNNING", "FAILED", "AVAILABLE"}
        /\ ~ShouldRetry(answer) => poll[p].job \in Terminal
        /\ poll[p].job \in Terminal => answer \in {"FAILED", "AVAILABLE"}
    BY <2>2, <2>3, FinalIsEnded, EndedIsFinal
  <2> HIDE DEF answer
  <2>5. poll'[p] = [pc |-> "idle", game |-> "NONE", job |-> "NONE", readiness |-> answer]
    BY <2>1 DEF IdlePoll, TypeOK
  <2>6. TypeOK'
    BY <1>1, <2>1, <2>4 DEF TypeOK, IdlePoll
  <2>7. PollsRemember'
    BY <1>1, <2>1, <2>2, <2>4, <2>5 DEF PollsRemember, TypeOK
  <2>8. ~ShouldRetry(poll[p].readiness) => ~ShouldRetry(poll'[p].readiness)
    BY <2>2, <2>4, <2>5 DEF PollsRemember, ShouldRetry
  <2> QED BY <1>2, <2>1, <2>6, <2>7, <2>8 DEF TypeOK
<1> QED BY <1>3, <1>4, <1>5 DEF PollSteps

LEMMA StutterPreserves == IInv /\ UNCHANGED vars => IInv'
<1> SUFFICES ASSUME IInv, UNCHANGED vars PROVE IInv'
  OBVIOUS
<1> USE DEF IInv, vars, database, readers
<1>1. TypeOK' /\ AvailableIffCompleteRun'
  BY DEF TypeOK, AvailableIffCompleteRun
<1>2. WorkerNumbered' /\ OneTaker' /\ PollsRemember'
  BY DEF WorkerNumbered, OneTaker, PollsRemember
<1> QED BY <1>1, <1>2

(* The steps of the worker and the sweep. *)
Backend ==
  \/ Claim \/ LeaseExpires \/ FinishAnalysis \/ PersistAndComplete
  \/ WorkerFails \/ WorkerDies \/ Requeue \/ SweepRead \/ SweepWrite

LEMMA NextCases ==
  Next <=> \/ Backend
           \/ \E r \in Readers : ReaderStep(r) \/ Disconnect(r)
           \/ \E p \in Polls : PollSteps(p)
BY DEF Next, Backend, PollSteps

(* Claims, persistence, failures, the sweep, readers and polls, in any     *)
(* order, keep the invariant that everything below rests on.               *)
THEOREM DeliveryInvariant == Spec => []IInv
<1>1. Init => IInv
  BY InitEstablishes
<1>2. IInv /\ [Next]_vars => IInv'
  <2> SUFFICES ASSUME IInv, [Next]_vars PROVE IInv'
    OBVIOUS
  <2>1. CASE Backend
    BY <2>1, ClaimPreserves, LeaseExpiresPreserves, FinishAnalysisPreserves, PersistPreserves,
       WorkerFailsPreserves, WorkerDiesPreserves, RequeuePreserves, SweepReadPreserves,
       SweepWritePreserves DEF Backend
  <2>2. CASE \E r \in Readers : ReaderStep(r) \/ Disconnect(r)
    BY <2>2, ReaderPreserves
  <2>3. CASE \E p \in Polls : PollSteps(p)
    BY <2>3, PollPreserves
  <2>4. CASE UNCHANGED vars
    BY <2>4, StutterPreserves
  <2> QED BY <2>1, <2>2, <2>3, <2>4, NextCases
<1> QED BY <1>1, <1>2, PTL DEF Spec

(* Every row, lease and request keeps a value of its kind. *)
THEOREM DeliveryTypes == Spec => []TypeOK
<1>1. IInv => TypeOK
  BY DEF IInv
<1> QED BY <1>1, DeliveryInvariant, PTL

(* make_owned_generation_available and consume_public_generation: a game   *)
(* is released exactly while the run of its job's last generation is kept, *)
(* for any number of readers and claims.                                   *)
THEOREM ReleasedExactlyWhileKept == Spec => []AvailableIffCompleteRun
<1>1. IInv => AvailableIffCompleteRun
  BY DEF IInv
<1> QED BY <1>1, DeliveryInvariant, PTL

(* PublicPollingGuidance: no answer of the API to a poll takes back that   *)
(* the client need not ask again, however its statements are torn.         *)
THEOREM PollingGuidanceIsFinal == Spec => PollsAgree
<1>1. IInv /\ [Next]_vars =>
        [\A p \in Polls : ~ShouldRetry(poll[p].readiness) => ~ShouldRetry(poll'[p].readiness)]_vars
  <2> SUFFICES ASSUME IInv, Next,
                      NEW p \in Polls, ~ShouldRetry(poll[p].readiness)
               PROVE  ~ShouldRetry(poll'[p].readiness)
    OBVIOUS
  <2>1. CASE poll' = poll
    BY <2>1
  <2>2. CASE \E q \in Polls : PollSteps(q)
    <3>1. PICK q \in Polls : PollSteps(q)
      BY <2>2
    <3>2. CASE q = p
      BY <3>1, <3>2, PollPreserves
    <3>3. CASE q # p
      BY <3>1, <3>3, PollPreserves
    <3> QED BY <3>2, <3>3
  <2>3. Backend => poll' = poll
    BY DEF Backend, Claim, LeaseExpires, FinishAnalysis, PersistAndComplete, WorkerFails,
           WorkerDies, Requeue, SweepRead, SweepWrite
  <2>4. ASSUME NEW r \in Readers, ReaderStep(r) \/ Disconnect(r) PROVE poll' = poll
    BY <2>4 DEF ReaderStep, Disconnect, ReadReleased, ReadAuthority, ReadJob, ReadRun,
                ReadPositions, ReadMoves, Consume, Respond, ReaderOnly
  <2> QED BY <2>1, <2>2, <2>3, <2>4, NextCases
<1> QED BY <1>1, DeliveryInvariant, PTL DEF Spec, PollsAgree

-----------------------------------------------------------------------------
(* A step that touches neither the runs nor who took or received one is    *)
(* none of the abstract specification.                                     *)
LEMMA UntouchedStutters ==
  ASSUME UNCHANGED <<runs, took, received>>
  PROVE  UNCHANGED Promise!vars
BY DEF Promise!vars

LEMMA BackendImplements ==
  ASSUME IInv, Backend
  PROVE  [Promise!Next]_(Promise!vars)
<1>1. CASE PersistAndComplete
  <2>1. runs = {} /\ took = {}
    BY <1>1 DEF IInv, AvailableIffCompleteRun, OneTaker, PersistAndComplete, MayReplace,
                OwnsJob, Terminal
  <2>2. runs' # {} /\ UNCHANGED <<took, received>>
    BY <1>1 DEF PersistAndComplete, readers
  <2>3. Promise!Publish
    BY <2>1, <2>2 DEF Promise!Publish
  <2> QED BY <2>3 DEF Promise!Next
<1>2. CASE ~PersistAndComplete
  <2>1. UNCHANGED <<runs, took, received>>
    BY <1>2 DEF Backend, Claim, LeaseExpires, FinishAnalysis, WorkerFails, WorkerDies,
                Requeue, SweepRead, SweepWrite, database, readers
  <2> QED BY <2>1, UntouchedStutters
<1> QED BY <1>1, <1>2

LEMMA ReaderImplements ==
  ASSUME IInv, NEW r \in Readers, ReaderStep(r) \/ Disconnect(r)
  PROVE  [Promise!Next]_(Promise!vars)
<1>1. CASE Consume(r) /\ Consumable(r)
  <2>1. /\ runs # {} /\ runs' = {} /\ took = {} /\ took' = {r}
        /\ r \in Owners
    BY <1>1, ConsumeTakesAll
  <2>2. UNCHANGED received
    BY <1>1 DEF Consume
  <2>3. Promise!Take(r)
    BY <2>1, <2>2 DEF Promise!Take
  <2> QED BY <2>3 DEF Promise!Next
<1>2. CASE Respond(r)
  <2>1. r \in took /\ received' = {r}
    BY <1>2 DEF IInv, OneTaker, Respond
  <2>2. UNCHANGED <<runs, took>>
    BY <1>2 DEF Respond, database
  <2>3. Promise!Receive(r)
    BY <2>1, <2>2 DEF Promise!Receive
  <2> QED BY <2>3 DEF Promise!Next
<1>3. CASE ~(Consume(r) /\ Consumable(r)) /\ ~Respond(r)
  <2>1. UNCHANGED <<runs, took, received>>
    BY <1>3 DEF ReaderStep, Disconnect, ReadReleased, ReadAuthority, ReadJob, ReadRun,
                ReadPositions, ReadMoves, Consume, ReaderOnly, database
  <2> QED BY <2>1, UntouchedStutters
<1> QED BY <1>1, <1>2, <1>3

(* PublicAnalysisReadService and the transactions around it keep the       *)
(* promise of OneTimeResult: the result of a game appears once, one        *)
(* request of an owner takes it, and nobody else ever receives it.         *)
THEOREM DeliveredOnce == Spec => ImplementsOneTimeResult
<1>1. Init => Promise!Init
  BY DEF Init, Promise!Init
<1>2. IInv /\ [Next]_vars => [Promise!Next]_(Promise!vars)
  <2> SUFFICES ASSUME IInv, [Next]_vars PROVE [Promise!Next]_(Promise!vars)
    OBVIOUS
  <2>1. CASE Backend
    BY <2>1, BackendImplements
  <2>2. CASE \E r \in Readers : ReaderStep(r) \/ Disconnect(r)
    BY <2>2, ReaderImplements
  <2>3. CASE \E p \in Polls : PollSteps(p)
    <3>1. UNCHANGED <<runs, took, received>>
      BY <2>3 DEF PollSteps, PollGame, PollJob, PollRun, PollOnly, database, readers
    <3> QED BY <3>1, UntouchedStutters
  <2>4. CASE UNCHANGED vars
    <3>1. UNCHANGED <<runs, took, received>>
      BY <2>4 DEF vars, database, readers
    <3> QED BY <3>1, UntouchedStutters
  <2> QED BY <2>1, <2>2, <2>3, <2>4, NextCases
<1> QED BY <1>1, <1>2, DeliveryInvariant, PTL DEF Spec, ImplementsOneTimeResult, Promise!Spec
=============================================================================
