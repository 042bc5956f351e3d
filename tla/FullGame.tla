------------------------------ MODULE FullGame ------------------------------
(***************************************************************************)
(* FullGameAnalyzer over StockfishEngine.  A call replays a game, takes    *)
(* the lock of the engine object, starts one process and evaluates the     *)
(* positions one after the other, each with a limit that is cut to what    *)
(* remains of the budget of the game.  Calls that share an engine object   *)
(* wait for one another, and the time of waiting counts.                   *)
(*                                                                         *)
(* The process is external: it answers, answers nothing that can be used,  *)
(* dies, or is given up CommandTimeout after its limit.  It is stopped by  *)
(* asking it to quit, for which it has CommandTimeout again; one that does *)
(* not is left running, and no line of the program ends it.                *)
(***************************************************************************)
EXTENDS GameReport

CONSTANTS
  Callers,          \* threads that share one engine object
  NoCaller,
  Games,            \* Games[c]: the games c may be asked to analyse
  Outputs,          \* Outputs[c]: what the process may say of a position of theirs
  MaxMoves, MaxPositions, MaxPositionTime, MaxGameTime,
  CommandTimeout, StartTimes

(* FullGameAnalysisBudget *)
ValidBudget ==
  /\ {MaxMoves, MaxPositionTime, MaxGameTime} \subseteq Nat \ {0}
  /\ MaxPositions \in Nat \ {0, 1}

(* Settings demand room for every move and the start. *)
ValidSettings == MaxPositions >= MaxMoves + 1

ASSUME BudgetAssumption ==
  /\ ValidBudget /\ ValidSettings
  /\ CommandTimeout \in Nat \ {0}
  /\ StartTimes \subseteq Nat
  /\ NoCaller \notin Callers
  /\ \A c \in Callers :
       /\ \A game \in Games[c] : game.moves \in Nat
       /\ \A output \in Outputs[c] :
            output.played \in BOOLEAN /\ output.score \in StockfishScores

VARIABLES
  call,      \* local state of every caller
  lock,      \* holder of _execution_lock
  process    \* the engine process that was started for a caller

vars == <<call, lock, process>>

(* A process is absent; running, with its caller to stop it; told to quit, *)
(* which it did not do in time; or lost: an exception from outside took    *)
(* away the reference to it.                                               *)
ProcessStates == {"absent", "running", "told", "lost"}

Idle == [pc |-> "idle", game |-> [moves |-> 0], engine |-> FALSE, elapsed |-> 0,
         limit |-> 0, evaluations |-> <<>>, moves |-> <<>>,
         result |-> "NONE", failedPly |-> Nothing]

Init ==
  /\ call = [c \in Callers |-> Idle]
  /\ lock = NoCaller
  /\ process = [c \in Callers |-> "absent"]

Ply(c) == Len(call[c].evaluations)
Remaining(c) == MaxGameTime - call[c].elapsed

(* A game is [status, verified, moves, legal, terminal]: `legal' says that *)
(* its moves can be replayed, `terminal' that its last position has no     *)
(* legal move.                                                             *)
ExecutionAllowed(game) ==
  game.status \in {"FINISHED", "DEEP_ANALYSIS_RUNNING"} /\ game.verified

(* _authorization, before any replay *)
Authorized(game) == ExecutionAllowed(game) /\ game.moves > 0

Replayable(game) ==
  /\ game.moves <= MaxMoves
  /\ game.moves + 1 <= MaxPositions
  /\ game.legal

(* Time passes for every call in progress. *)
Elapse(d) ==
  [c \in Callers |-> IF call[c].pc \in {"idle", "done", "cut"} THEN call[c]
                     ELSE [call[c] EXCEPT !.elapsed = @ + d]]

-----------------------------------------------------------------------------
Begin(c, game) ==
  /\ call[c].pc = "idle"
  /\ call' = [call EXCEPT ![c].game = game,
                ![c].pc = IF Authorized(game) /\ Replayable(game) THEN "entering"
                          ELSE "done",
                ![c].result = IF Authorized(game) /\ Replayable(game) THEN @
                              ELSE "INPUT_ERROR"]
  /\ UNCHANGED <<lock, process>>

Acquire(c) ==
  /\ call[c].pc = "entering"
  /\ lock = NoCaller
  /\ lock' = c
  /\ call' = [call EXCEPT ![c].pc = "starting"]
  /\ UNCHANGED process

(* What is kept of a call that has ended: its game and its result. *)
Ended(local, result) ==
  [Idle EXCEPT !.pc = "done", !.result = result, !.game = local.game]

(* _start_engine: the process runs and has answered the UCI handshake. *)
Launch(c) ==
  /\ call[c].pc = "starting"
  /\ \E d \in StartTimes : call' = [Elapse(d) EXCEPT ![c].pc = "configuring"]
  /\ process' = [process EXCEPT ![c] = "running"]
  /\ UNCHANGED lock

(* Defect: the error leaves __enter__ with the lock. *)
ReleasedAfterStart == lock

ReleasedOnError == NoCaller

(* There is no executable, or no handshake within the timeout; a process   *)
(* without a handshake is closed by the launcher.  No session exists whose *)
(* __exit__ would run.                                                     *)
LaunchFails(c) ==
  /\ call[c].pc = "starting"
  /\ \E d \in StartTimes : call' = [Elapse(d) EXCEPT ![c] = Ended(@, "RAISED")]
  /\ lock' = ReleasedOnError
  /\ UNCHANGED process

Configure(c) ==
  /\ call[c].pc = "configuring"
  /\ \E d \in StartTimes :
       call' = [Elapse(d) EXCEPT ![c].pc = "position", ![c].engine = TRUE]
  /\ UNCHANGED <<lock, process>>

(* The options are refused or not answered, or an exception arrives from   *)
(* outside: __enter__ has to stop what it started.                         *)
ConfigureFails(c) ==
  /\ call[c].pc = "configuring"
  /\ \E d \in StartTimes : call' = [Elapse(d) EXCEPT ![c].pc = "undoing"]
  /\ UNCHANGED <<lock, process>>

(* quit is a command with a timeout of its own.  _stop_engine logs that it *)
(* failed, and does nothing else: the process may have ended or not.       *)
QuitTimes == 0 .. CommandTimeout
AfterQuit == {"absent", "told"}

Undo(c) ==
  /\ call[c].pc = "undoing"
  /\ \E d \in QuitTimes : call' = [Elapse(d) EXCEPT ![c] = Ended(@, "RAISED")]
  /\ \E s \in AfterQuit : process' = [process EXCEPT ![c] = s]
  /\ lock' = ReleasedOnError

-----------------------------------------------------------------------------
(* The partial result of _failure: what is complete, and where it stopped. *)
Partial(c, local) ==
  [local EXCEPT !.pc = "exit", !.result = "PARTIAL", !.failedPly = Ply(c)]

BudgetExhausted(c) ==
  /\ call[c].pc = "position"
  /\ Remaining(c) <= 0
  /\ call' = [call EXCEPT ![c] = Partial(c, @)]
  /\ UNCHANGED <<lock, process>>

(* Defect: a position is given its whole time however little remains. *)
TimeLimitOfPosition(c) == MaxPositionTime

(* Defect: the budget of the game is the only limit. *)
TimeLimitOfGame(c) == Remaining(c)

TimeLimit(c) == Min({MaxPositionTime, Remaining(c)})

Request(c) ==
  /\ call[c].pc = "position"
  /\ Remaining(c) > 0
  /\ call' = [call EXCEPT ![c].pc = "analysing", ![c].limit = TimeLimit(c)]
  /\ UNCHANGED <<lock, process>>

(* A position without a legal move has no variation, which _build_result   *)
(* demands.                                                                *)
HasVariation(c) == ~(call[c].game.terminal /\ Ply(c) = call[c].game.moves)

EvaluationOf(ply, output) ==
  [ply |-> ply, score |-> output.score, played |-> output.played]

(* The record of the position, and of the move that leads to it, which     *)
(* shares the evaluation before it.                                        *)
Evaluated(c, local, output) ==
  LET ply == Ply(c) IN
  [local EXCEPT
     !.evaluations = Append(@, EvaluationOf(ply, output)),
     !.moves = IF ply = 0 THEN @ ELSE Append(@, <<local.evaluations[ply].ply, ply>>),
     !.pc = IF ply = local.game.moves THEN "exit" ELSE "position",
     !.result = IF ply = local.game.moves THEN "COMPLETE" ELSE @]

(* How long the process may take; it is given up CommandTimeout after the  *)
(* limit, and an answer until then is accepted.                            *)
CommandTimes(c) == 0 .. call[c].limit + CommandTimeout

Answer(c) ==
  /\ call[c].pc = "analysing"
  /\ HasVariation(c)
  /\ \E d \in CommandTimes(c), output \in Outputs[c] :
       call' = [Elapse(d) EXCEPT ![c] = Evaluated(c, @, output)]
  /\ UNCHANGED <<lock, process>>

(* Defect: a position that fails is left out and the analysis goes on. *)
AfterFailureSkips(c, local) ==
  [local EXCEPT !.evaluations = Append(@, EvaluationOf(Ply(c) + 1, CHOOSE o \in Outputs[c] : TRUE)),
                !.pc = IF Ply(c) >= local.game.moves THEN "exit" ELSE "position",
                !.result = IF Ply(c) >= local.game.moves THEN "COMPLETE" ELSE @,
                !.engine = FALSE]

(* The error ends the call, whatever became of the process. *)
AfterFailure(c, local) == Partial(c, local)

(* Unusable output, a dead process, or no answer at all: _invalidate first *)
(* forgets the process, so that no further position is asked of it.        *)
EngineFails(c) ==
  /\ call[c].pc = "analysing"
  /\ \E d \in CommandTimes(c) :
       call' = [Elapse(d) EXCEPT ![c].pc = "invalidating", ![c].engine = FALSE]
  /\ UNCHANGED <<lock, process>>

Invalidate(c) ==
  /\ call[c].pc = "invalidating"
  /\ \E d \in QuitTimes : call' = [Elapse(d) EXCEPT ![c] = AfterFailure(c, @)]
  /\ \E s \in AfterQuit : process' = [process EXCEPT ![c] = s]
  /\ UNCHANGED lock

(* Defect: only a session that completed stops its process. *)
HasEngineIfComplete(c) == call[c].engine /\ call[c].result = "COMPLETE"

HasEngine(c) == call[c].engine

(* The try of __exit__ *)
Exit(c) ==
  /\ call[c].pc = "exit"
  /\ \/ /\ HasEngine(c)
        /\ \E d \in QuitTimes :
             call' = [Elapse(d) EXCEPT ![c].pc = "leaving", ![c].engine = FALSE]
        /\ \E s \in AfterQuit : process' = [process EXCEPT ![c] = s]
     \/ /\ ~HasEngine(c)
        /\ call' = [call EXCEPT ![c].pc = "leaving", ![c].engine = FALSE]
        /\ UNCHANGED process
  /\ UNCHANGED lock

(* Its finally clause; the result goes to the worker. *)
Leave(c) ==
  /\ call[c].pc = "leaving"
  /\ call' = [call EXCEPT ![c] = Ended(@, call[c].result)]
  /\ lock' = NoCaller
  /\ UNCHANGED process

-----------------------------------------------------------------------------
(* Exceptions from outside: Celery's soft limit is an Exception, which     *)
(* analyse turns into a partial result, and cancellation is not.           *)

(* The reference to a running process is lost; it may have ended before.   *)
AfterInterruption(c) ==
  IF process[c] = "running" THEN {"absent", "lost"} ELSE {process[c]}

InterruptedWaiting(c) ==
  /\ call[c].pc = "entering"
  /\ call' = [call EXCEPT ![c] = Ended(@, "RAISED")]
  /\ UNCHANGED <<lock, process>>

(* The launcher did not return: `engine' is None, and nothing is stopped.  *)
InterruptedLaunch(c) ==
  /\ call[c].pc = "starting"
  /\ \E d \in StartTimes : call' = [Elapse(d) EXCEPT ![c] = Ended(@, "RAISED")]
  /\ lock' = ReleasedOnError
  /\ \E s \in {"absent", "lost"} : process' = [process EXCEPT ![c] = s]

(* The session keeps the process, which __exit__ will stop. *)
InterruptedAnalysis(c) ==
  /\ call[c].pc \in {"position", "analysing"}
  /\ \E d \in (IF call[c].pc = "analysing" THEN CommandTimes(c) ELSE {0}) :
       \/ call' = [Elapse(d) EXCEPT ![c] = Partial(c, @)]
       \/ call' = [Elapse(d) EXCEPT ![c].pc = "exit", ![c].result = "RAISED"]
  /\ UNCHANGED <<lock, process>>

InterruptedInvalidate(c) ==
  /\ call[c].pc = "invalidating"
  /\ \E d \in QuitTimes :
       \/ call' = [Elapse(d) EXCEPT ![c] = Partial(c, @)]
       \/ call' = [Elapse(d) EXCEPT ![c].pc = "exit", ![c].result = "RAISED"]
  /\ \E s \in AfterInterruption(c) : process' = [process EXCEPT ![c] = s]
  /\ UNCHANGED lock

(* In the try of __exit__: the finally clause follows. *)
InterruptedExit(c) ==
  /\ call[c].pc = "exit" /\ HasEngine(c)
  /\ \E d \in QuitTimes :
       call' = [Elapse(d) EXCEPT ![c].pc = "leaving", ![c].engine = FALSE, ![c].result = "RAISED"]
  /\ \E s \in AfterInterruption(c) : process' = [process EXCEPT ![c] = s]
  /\ UNCHANGED lock

(* Where no handler releases the lock: between acquire and the try of      *)
(* __enter__, in the handler of __enter__ while the process is stopped,    *)
(* and before the try of __exit__.                                         *)
CutShort(c) ==
  /\ call[c].pc \in {"starting", "undoing", "exit"}
  /\ \E d \in (IF call[c].pc = "undoing" THEN QuitTimes ELSE {0}) :
       call' = [Elapse(d) EXCEPT ![c] = [Ended(@, "RAISED") EXCEPT !.pc = "cut"]]
  /\ \E s \in AfterInterruption(c) : process' = [process EXCEPT ![c] = s]
  /\ UNCHANGED lock

Interrupted(c) ==
  \/ InterruptedWaiting(c) \/ InterruptedLaunch(c) \/ InterruptedAnalysis(c)
  \/ InterruptedInvalidate(c) \/ InterruptedExit(c) \/ CutShort(c)

(* A process that nobody stops any more may end by itself. *)
ProcessEnds(c) ==
  /\ process[c] \in {"told", "lost"}
  /\ process' = [process EXCEPT ![c] = "absent"]
  /\ UNCHANGED <<call, lock>>

-----------------------------------------------------------------------------
Step(c) ==
  \/ Acquire(c) \/ Launch(c) \/ LaunchFails(c) \/ Configure(c) \/ ConfigureFails(c)
  \/ Undo(c) \/ BudgetExhausted(c) \/ Request(c) \/ Answer(c) \/ EngineFails(c)
  \/ Invalidate(c) \/ Exit(c) \/ Leave(c)

Next ==
  \E c \in Callers :
    \/ Step(c) \/ Interrupted(c) \/ ProcessEnds(c)
    \/ \E game \in Games[c] : Begin(c, game)

Spec == Init /\ [][Next]_vars

(* A thread that runs goes on, and every command to the process is answered *)
(* or given up within its time; nobody is made to start an analysis, nor    *)
(* interrupted, and no process that is left is made to end.                 *)
FairSpec == Spec /\ \A c \in Callers : WF_vars(Step(c))
-----------------------------------------------------------------------------
InSession == {"starting", "configuring", "undoing", "position", "analysing", "invalidating",
              "exit", "leaving"}
Results == {"NONE", "COMPLETE", "PARTIAL", "RAISED", "INPUT_ERROR"}

AllGames == UNION {Games[c] : c \in Callers}
Scores == {output.score : output \in UNION {Outputs[c] : c \in Callers}}

Calls ==
  [pc : {"idle", "entering", "done", "cut"} \cup InSession,
   game : AllGames \cup {Idle.game},
   engine : BOOLEAN,
   elapsed : Nat,
   limit : 0 .. MaxPositionTime,
   evaluations : Seq([ply : 0 .. MaxMoves, score : Scores, played : BOOLEAN]),
   moves : Seq((0 .. MaxMoves) \X (0 .. MaxMoves)),
   result : Results,
   failedPly : Nothing .. MaxMoves]

(* Type invariant. *)
TypeOK ==
  /\ lock \in Callers \cup {NoCaller}
  /\ process \in [Callers -> ProcessStates]
  /\ call \in [Callers -> Calls]

(* StockfishAnalysisSession: whatever way a call ends, it releases the     *)
(* lock, unless an exception from outside finds it where no handler does.  *)
(* A process that was not told to quit belongs to the holder of the lock,  *)
(* save one that such an exception took from its caller: no failure of the *)
(* engine or of the game leaves a process without having tried to stop it. *)
(* A position is asked only of a process that runs and was not told to     *)
(* quit, and a process was started only for a game that is over.           *)
NothingLeftBehind ==
  /\ \A c \in Callers : (lock = c) <=> (call[c].pc \in InSession \cup {"cut"})
  /\ \A c \in Callers : process[c] = "running" => lock = c
  /\ \A c \in Callers : call[c].pc = "analysing" => process[c] = "running"
  /\ \A c \in Callers : process[c] # "absent" => ExecutionAllowed(call[c].game)

(* What _validate_result demands before it lets records be stored: plies   *)
(* without a gap, and moves that join neighbouring positions.              *)
ValidRecords(evaluations, moves) ==
  /\ \A i \in 1 .. Len(evaluations) : evaluations[i].ply = i - 1
  /\ \A i \in 1 .. Len(moves) : moves[i] = <<i - 1, i>>

(* FullGameAnalyzer.analyse: a result is a prefix of the game that the     *)
(* repository would accept.  It has all evaluations exactly when it is     *)
(* COMPLETE, and one move fewer; a partial result names the first ply that *)
(* it lacks.                                                               *)
ResultIsPrefix ==
  \A c \in Callers :
    LET k == call[c] IN
    /\ ValidRecords(k.evaluations, k.moves)
    /\ k.evaluations # <<>> => Len(k.moves) = Len(k.evaluations) - 1
    /\ k.pc \in {"exit", "leaving"} =>
         CASE k.result = "COMPLETE" -> Len(k.evaluations) = k.game.moves + 1
           [] k.result = "PARTIAL"  -> /\ k.failedPly = Len(k.evaluations)
                                       /\ k.failedPly <= k.game.moves
           [] OTHER -> TRUE

(* FullGameAnalysisBudget: once a request was made, the positions are over *)
(* by the end of the game's budget and one command timeout, and the call   *)
(* by the end of another one, which the process has to quit, however the   *)
(* time was spent before.  The soft limit of the worker has to allow it.   *)
EngineTimeBounded ==
  \A c \in Callers :
    call[c].limit > 0 =>
      /\ call[c].elapsed <= MaxGameTime + 2 * CommandTimeout
      /\ call[c].pc \in {"position", "analysing", "invalidating"} =>
           call[c].elapsed <= MaxGameTime + CommandTimeout

(* Where a call was cut short, the lock of the engine object is lost. *)
LockLost == \E c \in Callers : call[c].pc = "cut"

(* StockfishAnalysisSession.__enter__: a caller that waits for the engine  *)
(* gets it and its call ends, whatever fails in the calls before it, while *)
(* none of them loses the lock.                                            *)
EveryCallEnds ==
  \A c \in Callers : (call[c].pc = "entering") ~> (call[c].pc = "done" \/ LockLost)

-----------------------------------------------------------------------------
(* MoveClassificationService and GameMetricAggregationService: the report  *)
(* of a complete game is fair.                                             *)
ReportIsFair ==
  \A c \in Callers :
    (call[c].result = "COMPLETE" /\ call[c].pc = "exit") => FairReport(call[c].evaluations)
=============================================================================
