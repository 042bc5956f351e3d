--------------------------- MODULE ResultDelivery ---------------------------
(***************************************************************************)
(* The result of one game's analysis, from the transaction that persists   *)
(* it to the reader that consumes it.  Readers and polls take several      *)
(* statements of a READ COMMITTED session, each with a snapshot of its     *)
(* own, while the worker and the sweep commit in between; a transaction    *)
(* that locks the rows it changes is one step.                             *)
(*                                                                         *)
(* AnalysisJobs has the leases, several jobs and the broker; here a claim  *)
(* and a start are one step, and the rows of a run are their numbers.      *)
(***************************************************************************)
EXTENDS Integers, FiniteSets

CONSTANTS
  Readers, Owners,     \* requests for the result, and those of the game's owner
  Unsteady,            \* those whose connection may be lost
  Polls,               \* clients that ask for the status
  Moves,               \* moves of the game
  MaxGenerations       \* bound of the model on claims

ASSUME DeliveryAssumption ==
  /\ Owners \subseteq Readers
  /\ Moves \in Nat \ {0}
  /\ MaxGenerations \in Nat \ {0}

VARIABLES
  game,             \* its status, and whether its moves are there
  job,              \* status, lease generation, whether the lease has run out
  runs,             \* analysis_runs, with the numbers of their evaluations
  worker,           \* the execution that holds, or held, the lease
  sweep,            \* the job status the sweep has read
  reader,           \* requests for the result
  took, received,   \* readers that consumed a run, and those that got it
  poll              \* status requests and the last readiness they returned

database == <<game, job, runs>>
readers == <<reader, took, received>>
vars == <<database, worker, sweep, readers, poll>>

Terminal == {"SUCCEEDED", "FAILED"}

NoRun == [generation |-> 0, positions |-> 0, moves |-> 0]
IdleReader == [pc |-> "idle", run |-> NoRun, positions |-> 0]
IdlePoll == [pc |-> "idle", game |-> "NONE", job |-> "NONE", readiness |-> "NONE"]
NoWorker == [pc |-> "gone", generation |-> 0, onTime |-> FALSE]

Init ==
  /\ game = [status |-> "FINISHED", data |-> TRUE]
  /\ job = [status |-> "QUEUED", generation |-> 0, expired |-> FALSE]
  /\ runs = {}
  /\ worker = NoWorker
  /\ sweep = "NONE"
  /\ reader = [r \in Readers |-> IdleReader]
  /\ took = {}
  /\ received = {}
  /\ poll = [p \in Polls |-> IdlePoll]

-----------------------------------------------------------------------------
(* claim_job and start_job *)
Claim ==
  /\ job.status = "QUEUED"
  /\ job.generation < MaxGenerations
  /\ job' = [status |-> "RUNNING", generation |-> job.generation + 1, expired |-> FALSE]
  /\ worker' = [pc |-> "analysing", generation |-> job.generation + 1, onTime |-> FALSE]
  /\ UNCHANGED <<game, runs, sweep, readers, poll>>

LeaseExpires ==
  /\ job.status = "RUNNING"
  /\ ~job.expired
  /\ job' = [job EXCEPT !.expired = TRUE]
  /\ UNCHANGED <<game, runs, worker, sweep, readers, poll>>

(* The lease is compared with the end of the analysis, finished_at. *)
FinishAnalysis ==
  /\ worker.pc = "analysing"
  /\ worker' = [worker EXCEPT !.pc = "persisting", !.onTime = ~job.expired]
  /\ UNCHANGED <<database, sweep, readers, poll>>

OwnsJob == job.status = "RUNNING" /\ job.generation = worker.generation

(* replace_owned_generation *)
MayReplace ==
  /\ OwnsJob
  /\ worker.onTime
  /\ game.status = "FINISHED"

(* The rows of a complete result, which _validate_result has counted. *)
NewRun == [generation |-> worker.generation, positions |-> Moves + 1, moves |-> Moves]

(* make_owned_generation_available, after complete_job *)
MayPublish(run) ==
  /\ game.status = "FINISHED"
  /\ game.data
  /\ run.positions = Moves + 1
  /\ run.moves = Moves

(* TerminalGameDataCleanup *)
Cleaned(g) == [g EXCEPT !.data = FALSE]

(* persist_and_complete_owned_generation: everything or nothing. *)
PersistAndComplete ==
  /\ worker.pc = "persisting"
  /\ MayReplace
  /\ MayPublish(NewRun)
  /\ runs' = {run \in runs : run.generation # worker.generation} \cup {NewRun}
  /\ job' = [job EXCEPT !.status = "SUCCEEDED"]
  /\ game' = Cleaned([game EXCEPT !.status = "ANALYSIS_AVAILABLE"])
  /\ worker' = NoWorker
  /\ UNCHANGED <<sweep, readers, poll>>

(* The analysis, or the transaction that persists it, fails; a worker that *)
(* no longer owns the job may not fail or retry it either.                 *)
WorkerFails ==
  /\ worker.pc # "gone"
  /\ IF OwnsJob
     THEN \/ /\ job' = [job EXCEPT !.status = "FAILED"]
             /\ game' = Cleaned(game)
          \/ /\ job' = [job EXCEPT !.status = "RETRY_SCHEDULED"]
             /\ UNCHANGED game
     ELSE UNCHANGED <<job, game>>
  /\ worker' = NoWorker
  /\ UNCHANGED <<runs, sweep, readers, poll>>

WorkerDies ==
  /\ worker.pc # "gone"
  /\ worker' = NoWorker
  /\ UNCHANGED <<database, sweep, readers, poll>>

(* The publisher delivers the retry. *)
Requeue ==
  /\ job.status = "RETRY_SCHEDULED"
  /\ job' = [job EXCEPT !.status = "QUEUED"]
  /\ UNCHANGED <<game, runs, worker, sweep, readers, poll>>

(* The sweep reads an expired job without a lock and tests what it read.   *)
SweepRead ==
  /\ sweep = "NONE"
  /\ job.status = "RUNNING"
  /\ job.expired
  /\ sweep' = "RUNNING"
  /\ UNCHANGED <<database, worker, readers, poll>>

SweepWrite ==
  /\ sweep # "NONE"
  /\ sweep' = "NONE"
  /\ job' = [job EXCEPT !.status = "FAILED"]
  /\ game' = Cleaned(game)
  /\ UNCHANGED <<runs, worker, readers, poll>>

-----------------------------------------------------------------------------
(* PublicAnalysisReadService.read_for_owner. *)
Goto(r, pc) == reader' = [reader EXCEPT ![r] = [@ EXCEPT !.pc = pc]]
Refuse(r) == reader' = [reader EXCEPT ![r] = IdleReader]   \* 404 or 503
ReaderOnly == UNCHANGED <<database, worker, sweep, took, received, poll>>

(* The released game: available, verified and the reader's own. *)
Released(r) == r \in Owners /\ game.status = "ANALYSIS_AVAILABLE"

ReadReleased(r) ==
  /\ reader[r].pc = "idle"
  /\ Released(r)
  /\ Goto(r, "authority")
  /\ ReaderOnly

(* get_game_authority, once more; here a FINISHED game is enough. *)
Authority(r) == [owned |-> r \in Owners, status |-> game.status]
Permits(authority) ==
  authority.owned /\ authority.status \in {"FINISHED", "ANALYSIS_AVAILABLE"}

ReadAuthority(r) ==
  /\ reader[r].pc = "authority"
  /\ IF Permits(Authority(r)) THEN Goto(r, "job") ELSE Refuse(r)
  /\ ReaderOnly

(* Defect: the run of the first generation is taken for the current one. *)
FirstGeneration == 1

(* Defect: the generation of the next claim. *)
NextGeneration == job.generation + 1

CurrentGeneration == job.generation

(* get_current_authoritative_run: the job, then its run. *)
ReadJob(r) ==
  /\ reader[r].pc = "job"
  /\ IF job.status = "SUCCEEDED"
     THEN reader' = [reader EXCEPT ![r].pc = "run",
                                   ![r].run = [NoRun EXCEPT !.generation = CurrentGeneration]]
     ELSE Refuse(r)
  /\ ReaderOnly

ReadRun(r) ==
  /\ reader[r].pc = "run"
  /\ LET found == {run \in runs : run.generation = reader[r].run.generation} IN
     IF found # {}
     THEN reader' = [reader EXCEPT ![r].pc = "positions",
                                   ![r].run = CHOOSE run \in found : TRUE]
     ELSE Refuse(r)
  /\ ReaderOnly

(* The rows of a run, which go with it (ON DELETE CASCADE). *)
RowsOf(r) ==
  LET found == {run \in runs : run.generation = reader[r].run.generation} IN
  IF found = {} THEN NoRun ELSE CHOOSE run \in found : TRUE

(* get_generation_records: the run once more and its positions. *)
ReadPositions(r) ==
  /\ reader[r].pc = "positions"
  /\ reader' = [reader EXCEPT ![r].pc = "moves", ![r].positions = RowsOf(r).positions]
  /\ ReaderOnly

(* read_generation compares the numbers with the run, *)
Whole(run, positions, moves) == positions = run.positions /\ moves = run.moves

(* _validate_complete_snapshot the moves with the positions they join.     *)
Linked(positions, moves) == moves < positions

(* _linked_persisted_move: a public move joins two positions as well. *)
JoinsPositions(ply, positions) == {ply - 1, ply} \subseteq 0 .. positions - 1

Public(positions, moves) == \A ply \in 1 .. moves : JoinsPositions(ply, positions)

Accepted(run, positions, moves) ==
  Whole(run, positions, moves) /\ Linked(positions, moves)

MovesRead(r) == RowsOf(r).moves

(* The moves are read; the layers above check, and make the report.        *)
ReadMoves(r) ==
  LET positions == reader[r].positions
      moves == MovesRead(r) IN
  /\ reader[r].pc = "moves"
  /\ IF Accepted(reader[r].run, positions, moves) /\ Public(positions, moves)
     THEN Goto(r, "consume")
     ELSE Refuse(r)
  /\ ReaderOnly

(* Defect: the reader does not look whether there was a run to delete. *)
ConsumableAlways(r) == TRUE

Consumable(r) == \E run \in runs : run.generation = reader[r].run.generation

(* Defect: the game stays released. *)
WithdrawnKeepsStatus(g) == g

Withdrawn(g) == [g EXCEPT !.status = "FINISHED"]

(* consume_public_generation and the commit.  A DELETE waits for another   *)
(* one of the same row, and then finds nothing.                            *)
Consume(r) ==
  /\ reader[r].pc = "consume"
  /\ IF Consumable(r)
     THEN /\ runs' = {run \in runs : run.generation # reader[r].run.generation}
          /\ game' = Withdrawn(game)
          /\ took' = took \cup {r}
          /\ Goto(r, "respond")
     ELSE Refuse(r) /\ UNCHANGED <<runs, game, took>>
  /\ UNCHANGED <<job, worker, sweep, received, poll>>

Respond(r) ==
  /\ reader[r].pc = "respond"
  /\ Refuse(r)
  /\ received' = received \cup {r}
  /\ UNCHANGED <<database, worker, sweep, took, poll>>

(* The connection is lost before a response; an open transaction rolls     *)
(* back.                                                                   *)
Disconnect(r) ==
  /\ r \in Unsteady
  /\ reader[r].pc # "idle"
  /\ Refuse(r)
  /\ ReaderOnly

-----------------------------------------------------------------------------
(* PublicAnalysisStatusService.read_for_owner: game, job and run. *)
PollOnly == UNCHANGED <<database, worker, sweep, readers>>

PollGame(p) ==
  /\ poll[p].pc = "idle"
  /\ poll' = [poll EXCEPT ![p].pc = "job", ![p].game = game.status]
  /\ PollOnly

PollJob(p) ==
  /\ poll[p].pc = "job"
  /\ poll' = [poll EXCEPT ![p].pc = "run", ![p].job = job.status]
  /\ PollOnly

(* Defect: a job that succeeded without a result is still being delivered. *)
ReadinessHopeful(gameStatus, jobStatus, hasRun) ==
  CASE jobStatus = "RUNNING" -> "RUNNING"
    [] jobStatus \in {"QUEUED", "RETRY_SCHEDULED"} -> "QUEUED"
    [] jobStatus = "FAILED" -> "FAILED"
    [] OTHER -> IF hasRun /\ gameStatus = "ANALYSIS_AVAILABLE" THEN "AVAILABLE" ELSE "RUNNING"

(* map_public_readiness *)
Readiness(gameStatus, jobStatus, hasRun) ==
  CASE jobStatus \in {"QUEUED", "RETRY_SCHEDULED"} -> "QUEUED"
    [] jobStatus = "RUNNING"                       -> "RUNNING"
    [] jobStatus = "SUCCEEDED" /\ hasRun /\ gameStatus = "ANALYSIS_AVAILABLE" -> "AVAILABLE"
    [] OTHER                                       -> "FAILED"

(* The guidance to poll again goes with QUEUED and RUNNING. *)
ShouldRetry(readiness) == readiness \in {"NONE", "QUEUED", "RUNNING"}

HasCompleteRun == \E run \in runs : run.generation = job.generation

(* The response, to which the client may answer with another poll. *)
Answered(readiness) == [IdlePoll EXCEPT !.readiness = readiness]

PollRun(p) ==
  /\ poll[p].pc = "run"
  /\ poll' = [poll EXCEPT ![p] =
                Answered(Readiness(poll[p].game, poll[p].job, HasCompleteRun))]
  /\ PollOnly

-----------------------------------------------------------------------------
ReaderStep(r) ==
  \/ ReadReleased(r) \/ ReadAuthority(r) \/ ReadJob(r) \/ ReadRun(r)
  \/ ReadPositions(r) \/ ReadMoves(r) \/ Consume(r) \/ Respond(r)

Next ==
  \/ Claim \/ LeaseExpires \/ FinishAnalysis \/ PersistAndComplete
  \/ WorkerFails \/ WorkerDies \/ Requeue \/ SweepRead \/ SweepWrite
  \/ \E r \in Readers : ReaderStep(r) \/ Disconnect(r)
  \/ \E p \in Polls : PollGame(p) \/ PollJob(p) \/ PollRun(p)

Spec == Init /\ [][Next]_vars

(* A request goes on, and the owner asks again after a refusal.  No        *)
(* worker, sweep or poll is made to run.                                   *)
FairSpec == Spec /\ \A r \in Owners : WF_vars(ReaderStep(r))
-----------------------------------------------------------------------------
Runs == [generation : 1 .. MaxGenerations, positions : {Moves + 1}, moves : {Moves}]

(* Type invariant. *)
TypeOK ==
  /\ game \in [status : {"FINISHED", "ANALYSIS_AVAILABLE"}, data : BOOLEAN]
  /\ job \in [status : {"QUEUED", "RUNNING", "RETRY_SCHEDULED"} \cup Terminal,
              generation : 0 .. MaxGenerations, expired : BOOLEAN]
  /\ runs \subseteq Runs
  /\ worker \in [pc : {"gone", "analysing", "persisting"},
                 generation : 0 .. MaxGenerations, onTime : BOOLEAN]
  /\ sweep \in {"NONE", "RUNNING"}
  /\ reader \in [Readers ->
       [pc : {"idle", "authority", "job", "run", "positions", "moves", "consume", "respond"},
        run : Runs \cup {[NoRun EXCEPT !.generation = g] : g \in 0 .. MaxGenerations},
        positions : {0, Moves + 1}]]
  /\ took \subseteq Readers /\ received \subseteq Readers
  /\ poll \in [Polls -> [pc : {"idle", "job", "run"}, game : {"NONE", "FINISHED", "ANALYSIS_AVAILABLE"},
                         job : {"NONE", "QUEUED", "RUNNING", "RETRY_SCHEDULED"} \cup Terminal,
                         readiness : {"NONE", "QUEUED", "RUNNING", "FAILED", "AVAILABLE"}]]

(* make_owned_generation_available and consume_public_generation: the game *)
(* is released exactly while the run of the job's last generation is kept, *)
(* whoever fails, reads or sweeps in between; then its moves are gone and  *)
(* the job has ended.                                                      *)
AvailableIffCompleteRun ==
  /\ (game.status = "ANALYSIS_AVAILABLE") <=> (runs # {})
  /\ \A run \in runs :
       run.generation = job.generation /\ job.status \in Terminal /\ ~game.data

(* PublicPollingGuidance: a client that was told to stop asking is never   *)
(* told to go on.                                                          *)
PollsAgree ==
  [][\A p \in Polls : ~ShouldRetry(poll[p].readiness) => ~ShouldRetry(poll'[p].readiness)]_vars

(* PublicAnalysisReadService: while its job stands as SUCCEEDED and the    *)
(* owner keeps asking, a released result is taken.                         *)
ReleasedIsTaken ==
  (game.status = "ANALYSIS_AVAILABLE") ~> (took # {} \/ job.status = "FAILED")

Promise == INSTANCE OneTimeResult WITH
  result <- IF runs # {} THEN "kept" ELSE IF took # {} THEN "taken" ELSE "absent"

(* The result is delivered at most once and to the owner only, as the      *)
(* abstract specification says.                                            *)
ImplementsOneTimeResult == Promise!Spec
=============================================================================
