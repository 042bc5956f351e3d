--------------------------- MODULE FullGameProofs ---------------------------
(***************************************************************************)
(* Proofs about FullGame, for any number of callers and games, any budget  *)
(* and any answers of the process.                                         *)
(*                                                                         *)
(* The lock makes the calls independent: only the call that holds it can   *)
(* be inside a session, so what one step does to the others is to let time *)
(* pass for those that wait.  IInv is therefore a condition on the record  *)
(* of one call, CallInv, one that ties its process to it, ProcessFits, and *)
(* one that ties the lock to the records.  A step that replaces the record *)
(* and the process of one call keeps IInv when the new ones satisfy those  *)
(* conditions (RecordReplaced).                                            *)
(***************************************************************************)
EXTENDS FullGame, GameReportProofs, SequenceTheorems, TLAPS

Working == {"position", "analysing", "invalidating"}
Before == {"idle", "entering", "starting", "configuring", "undoing", "done", "cut"}
Leaving == {"exit", "leaving"}
Locked == InSession \cup {"cut"}

(* The game of a call that was let in passed authorization and replay.     *)
GameAdmitted(k) ==
  k.pc \in {"entering"} \cup InSession => Authorized(k.game) /\ Replayable(k.game)

(* Nothing is recorded or asked before a session has begun, nor kept after. *)
NothingYet(k) ==
  k.pc \in Before => k.evaluations = <<>> /\ k.moves = <<>> /\ k.limit = 0

RecordsJoin(k) ==
  /\ ValidRecords(k.evaluations, k.moves)
  /\ k.evaluations = <<>> => k.moves = <<>>
  /\ k.evaluations # <<>> => Len(k.moves) = Len(k.evaluations) - 1

PositionsLeft(k) == k.pc \in Working => Len(k.evaluations) <= k.game.moves

ResultTells(k) ==
  k.pc \in Leaving =>
    /\ k.result = "COMPLETE" => Len(k.evaluations) = k.game.moves + 1
    /\ k.result = "PARTIAL" => /\ k.failedPly = Len(k.evaluations)
                               /\ k.failedPly <= k.game.moves

(* A request fits into what remains of the budget, and ends with it and a  *)
(* command timeout.  What comes after is one quit: of a process that has   *)
(* failed, which is then forgotten, or of the one the session still has.   *)
LimitFits(k) ==
  /\ k.pc = "analysing" => k.elapsed + k.limit <= MaxGameTime
  /\ k.limit > 0 =>
       /\ k.elapsed <= MaxGameTime + 2 * CommandTimeout
       /\ (k.pc \in Working \/ k.engine) => k.elapsed <= MaxGameTime + CommandTimeout

CallInv(k) ==
  /\ GameAdmitted(k)
  /\ NothingYet(k)
  /\ RecordsJoin(k)
  /\ PositionsLeft(k)
  /\ ResultTells(k)
  /\ LimitFits(k)

(* What has become of the process of a call, by where the call is.         *)
ProcessFits(k, s) ==
  /\ k.pc \in {"idle", "entering", "starting"} => s = "absent"
  /\ k.pc \in Working \cup {"configuring", "undoing"} => s = "running"
  /\ k.pc \in {"position", "analysing"} => k.engine
  /\ k.pc = "invalidating" => ~k.engine
  /\ k.pc = "exit" => (k.engine <=> s = "running")
  /\ k.pc \in {"leaving", "done", "cut"} => s # "running"
  /\ s # "absent" => Authorized(k.game)

LockInv == \A c \in Callers : (lock = c) <=> (call[c].pc \in Locked)

IInv ==
  /\ TypeOK
  /\ \A c \in Callers : CallInv(call[c])
  /\ \A c \in Callers : ProcessFits(call[c], process[c])
  /\ LockInv

Later(k, d) == [k EXCEPT !.elapsed = @ + d]

-----------------------------------------------------------------------------
(* The smaller of two numbers: TimeLimit is never above either.            *)
LEMMA MinOfTwo ==
  ASSUME NEW m \in Int, NEW n \in Int
  PROVE  /\ Min({m, n}) \in {m, n}
         /\ Min({m, n}) <= m /\ Min({m, n}) <= n
<1>1. \E x \in {m, n} : \A y \in {m, n} : x =< y
  OBVIOUS
<1> QED
  BY <1>1 DEF Min

(* A call that waits may wait longer: nothing it has depends on the time.  *)
LEMMA WaitingAges ==
  ASSUME BudgetAssumption, NEW k \in Calls, CallInv(k), k.pc = "entering", NEW d \in Nat
  PROVE  /\ Later(k, d) \in Calls /\ CallInv(Later(k, d))
         /\ Later(k, d).pc = k.pc
         /\ \A s : ProcessFits(k, s) => ProcessFits(Later(k, d), s)
<1>0. k.elapsed + d \in Nat
  BY DEF Calls
<1>1. /\ Later(k, d) \in Calls /\ Later(k, d).pc = k.pc
      /\ Later(k, d).engine = k.engine /\ Later(k, d).game = k.game
  BY <1>0 DEF Later, Calls
<1>2. CallInv(Later(k, d))
  BY DEF Later, Calls, CallInv, GameAdmitted, NothingYet, RecordsJoin, PositionsLeft,
         ResultTells, LimitFits, Before, Working, Leaving, InSession
<1>3. \A s : ProcessFits(k, s) => ProcessFits(Later(k, d), s)
  BY <1>1 DEF ProcessFits
<1> QED
  BY <1>1, <1>2, <1>3

(* Time passes: the holder's record is Later, another's too if it waits,   *)
(* and stays as it is otherwise.                                           *)
LEMMA ElapsedRecords ==
  ASSUME BudgetAssumption, IInv, NEW c \in Callers, call[c].pc \in InSession, NEW d \in Nat
  PROVE  /\ Elapse(d) = [o \in Callers |-> Elapse(d)[o]]
         /\ Elapse(d)[c] = Later(call[c], d)
         /\ \A o \in Callers \ {c} :
              \/ Elapse(d)[o] = call[o]
              \/ call[o].pc = "entering" /\ Elapse(d)[o] = Later(call[o], d)
<1>1. lock = c /\ call[c].pc \in Locked
  BY DEF IInv, LockInv, Locked
<1>2. \A o \in Callers \ {c} : call[o].pc \notin Locked
  BY <1>1 DEF IInv, LockInv
<1>3. \A o \in Callers : call[o].pc \in {"idle", "entering", "done", "cut"} \cup InSession
  BY DEF IInv, TypeOK, Calls
<1> QED
  BY <1>2, <1>3 DEF Elapse, Later, InSession, Locked

(* One record and its process are replaced, time may have passed for those *)
(* that wait, and the lock follows: IInv is kept.                          *)
LEMMA RecordReplaced ==
  ASSUME BudgetAssumption, IInv, NEW c \in Callers, NEW k \in Calls, CallInv(k),
         NEW s \in ProcessStates, ProcessFits(k, s),
         call' = [o \in Callers |-> call'[o]],
         call'[c] = k,
         \A o \in Callers \ {c} :
           \/ call'[o] = call[o]
           \/ call[o].pc = "entering" /\ \E d \in Nat : call'[o] = Later(call[o], d),
         process' = [process EXCEPT ![c] = s],
         \/ lock = c
         \/ lock = NoCaller
         \/ k.pc \notin Locked /\ call[c].pc \notin Locked,
         lock' = IF k.pc \in Locked THEN c
                 ELSE IF lock = c THEN NoCaller ELSE lock
  PROVE  IInv'
<1> USE DEF IInv
<1>1. \A o \in Callers \ {c} :
        /\ call'[o] \in Calls /\ CallInv(call'[o]) /\ call'[o].pc = call[o].pc
        /\ ProcessFits(call'[o], process[o])
  <2>1. SUFFICES ASSUME NEW o \in Callers \ {c}, call'[o] # call[o]
                 PROVE  /\ call'[o] \in Calls /\ CallInv(call'[o]) /\ call'[o].pc = call[o].pc
                        /\ ProcessFits(call'[o], process[o])
    BY DEF TypeOK
  <2>2. PICK d \in Nat : call'[o] = Later(call[o], d)
    BY <2>1
  <2>3. call[o] \in Calls /\ CallInv(call[o]) /\ call[o].pc = "entering"
        /\ ProcessFits(call[o], process[o])
    BY <2>1 DEF TypeOK
  <2> QED
    BY <2>2, <2>3, WaitingAges
<1>2. process'[c] = s /\ \A o \in Callers \ {c} : process'[o] = process[o]
  BY DEF TypeOK
<1>3. \A o \in Callers : (lock = o) <=> (call[o].pc \in Locked)
  BY DEF LockInv
<1>4. NoCaller \notin Callers
  BY DEF BudgetAssumption
<1>5. TypeOK'
  BY <1>1 DEF TypeOK
<1>6. (\A o \in Callers : CallInv(call[o]))'
  BY <1>1 DEF CallInv, GameAdmitted, NothingYet, RecordsJoin, PositionsLeft, ResultTells, LimitFits
<1>7. (\A o \in Callers : ProcessFits(call[o], process[o]))'
  BY <1>1, <1>2 DEF ProcessFits
<1>8. LockInv'
  <2>1. SUFFICES ASSUME NEW o \in Callers
                 PROVE  (lock' = o) <=> (call'[o].pc \in Locked)
    BY DEF LockInv
  <2>2. CASE o = c
    BY <1>3, <1>4, <2>2
  <2>3. CASE o # c
    BY <1>1, <1>3, <1>4, <2>3
  <2> QED
    BY <2>2, <2>3
<1> QED
  BY <1>5, <1>6, <1>7, <1>8

-----------------------------------------------------------------------------
LEMMA InitHolds ==
  ASSUME BudgetAssumption, Init
  PROVE  IInv
<1>1. Idle \in Calls
  BY DEF Idle, Calls, Nothing, BudgetAssumption, ValidBudget, Results
<1>2. CallInv(Idle)
  BY DEF Idle, CallInv, GameAdmitted, NothingYet, RecordsJoin, PositionsLeft, ResultTells,
         LimitFits, ValidRecords, InSession, Before, Working, Leaving
<1>3. Idle.pc \notin Locked /\ ProcessFits(Idle, "absent")
  BY DEF Idle, InSession, Locked, ProcessFits, Working
<1> QED
  BY <1>1, <1>2, <1>3 DEF Init, IInv, TypeOK, LockInv, ProcessStates, BudgetAssumption

(* What holds of the record of a call and of its process.                  *)
LEMMA RecordOf ==
  ASSUME BudgetAssumption, IInv, NEW c \in Callers
  PROVE  /\ call[c] \in Calls /\ CallInv(call[c])
         /\ ProcessFits(call[c], process[c]) /\ process[c] \in ProcessStates
         /\ Len(call[c].evaluations) \in Nat
         /\ Ply(c) = Len(call[c].evaluations)
         /\ Remaining(c) = MaxGameTime - call[c].elapsed
         /\ call[c].pc \in InSession =>
              /\ call[c].game.moves \in 0 .. MaxMoves
              /\ Authorized(call[c].game)
         /\ MaxMoves \in Nat /\ MaxPositionTime \in Nat /\ MaxGameTime \in Nat
         /\ CommandTimeout \in Nat
<1>1. call[c] \in Calls /\ CallInv(call[c])
  BY DEF IInv, TypeOK
<1>2. MaxMoves \in Nat /\ MaxPositionTime \in Nat /\ MaxGameTime \in Nat /\ CommandTimeout \in Nat
  BY DEF BudgetAssumption, ValidBudget
<1>3. Len(call[c].evaluations) \in Nat
  BY <1>1 DEF Calls
<1>4. \A game \in AllGames \cup {Idle.game} : game.moves \in Nat
  BY DEF AllGames, Idle, BudgetAssumption
<1>5. call[c].game.moves \in Nat
  BY <1>1, <1>4 DEF Calls
<1>6. call[c].pc \in InSession => call[c].game.moves \in 0 .. MaxMoves /\ Authorized(call[c].game)
  BY <1>1, <1>2, <1>5 DEF CallInv, GameAdmitted, Replayable
<1>7. ProcessFits(call[c], process[c]) /\ process[c] \in ProcessStates
  BY DEF IInv, TypeOK
<1> QED
  BY <1>1, <1>2, <1>3, <1>6, <1>7 DEF Ply, Remaining

LEMMA BeginKeeps ==
  ASSUME BudgetAssumption, IInv, NEW c \in Callers, NEW game \in Games[c], Begin(c, game)
  PROVE  IInv'
<1> DEFINE in == Authorized(game) /\ Replayable(game)
           k == [call[c] EXCEPT !.game = game,
                   !.pc = IF in THEN "entering" ELSE "done",
                   !.result = IF in THEN @ ELSE "INPUT_ERROR"]
<1>1. call[c] \in Calls /\ CallInv(call[c]) /\ call[c].pc = "idle" /\ game \in AllGames
  BY DEF IInv, TypeOK, Begin, AllGames
<1>2. k \in Calls
  BY <1>1 DEF Calls, Results
<1>3. CallInv(k)
  BY <1>1 DEF Calls, CallInv, GameAdmitted, NothingYet, RecordsJoin, PositionsLeft, ResultTells,
         LimitFits, InSession, Before, Working, Leaving
<1>4. call' = [call EXCEPT ![c] = k]
  BY <1>1 DEF Begin, IInv, TypeOK
<1>5. k.pc \in {"entering", "done"} /\ k.pc \notin Locked /\ call[c].pc \notin Locked
  BY <1>1 DEF InSession, Locked, Calls
<1>6. lock # c
  BY <1>5 DEF IInv, LockInv
<1>7. process[c] = "absent" /\ ProcessFits(k, "absent")
  BY <1>1, <1>5, RecordOf DEF ProcessFits, Working
<1>8. UNCHANGED lock /\ process' = [process EXCEPT ![c] = "absent"]
  BY <1>7 DEF Begin, IInv, TypeOK
<1>9. call' = [o \in Callers |-> call'[o]] /\ call'[c] = k
      /\ \A o \in Callers \ {c} : call'[o] = call[o]
  BY <1>4 DEF IInv, TypeOK
<1>10. "absent" \in ProcessStates
  BY DEF ProcessStates
<1> HIDE DEF k
<1> QED
  BY <1>2, <1>3, <1>5, <1>6, <1>7, <1>8, <1>9, <1>10, RecordReplaced

LEMMA AcquireKeeps ==
  ASSUME BudgetAssumption, IInv, NEW c \in Callers, Acquire(c)
  PROVE  IInv'
<1> DEFINE k == [call[c] EXCEPT !.pc = "starting"]
<1>1. call[c] \in Calls /\ CallInv(call[c]) /\ call[c].pc = "entering"
  BY DEF IInv, TypeOK, Acquire
<1>2. k \in Calls
  BY <1>1 DEF Calls, InSession
<1>3. CallInv(k)
  BY <1>1 DEF Calls, CallInv, GameAdmitted, NothingYet, RecordsJoin, PositionsLeft, ResultTells,
         LimitFits, InSession, Before, Working, Leaving
<1>4. k.pc = "starting" /\ k.pc \in Locked
  BY <1>1 DEF InSession, Locked, Calls
<1>5. lock = NoCaller /\ lock' = c /\ process' = process
  BY DEF Acquire
<1>6. process[c] = "absent" /\ ProcessFits(k, "absent")
  BY <1>1, <1>4, RecordOf DEF ProcessFits, Working
<1>7. process' = [process EXCEPT ![c] = "absent"] /\ "absent" \in ProcessStates
  BY <1>5, <1>6 DEF IInv, TypeOK, ProcessStates
<1>8. call' = [o \in Callers |-> call'[o]] /\ call'[c] = k
      /\ \A o \in Callers \ {c} : call'[o] = call[o]
  BY DEF Acquire, IInv, TypeOK
<1> HIDE DEF k
<1> QED
  BY <1>2, <1>3, <1>4, <1>5, <1>6, <1>7, <1>8, RecordReplaced

(* What the steps of a session have in common: the holder of the lock      *)
(* replaces its record after some time, possibly none, and its process.    *)
LEMMA SessionStep ==
  ASSUME BudgetAssumption, IInv, NEW c \in Callers, call[c].pc \in InSession,
         NEW k \in Calls, CallInv(k), NEW d \in Nat,
         \/ call' = [call EXCEPT ![c] = k]
         \/ call' = [Elapse(d) EXCEPT ![c] = k],
         NEW s \in ProcessStates, ProcessFits(k, s),
         \/ process' = [process EXCEPT ![c] = s]
         \/ process' = process /\ s = process[c],
         lock' = IF k.pc \in Locked THEN lock ELSE NoCaller
  PROVE  IInv'
<1>1. lock = c
  BY DEF IInv, LockInv, Locked
<1>2. /\ call' = [o \in Callers |-> call'[o]]
      /\ call'[c] = k
      /\ \A o \in Callers \ {c} :
           \/ call'[o] = call[o]
           \/ call[o].pc = "entering" /\ call'[o] = Later(call[o], d)
  <2>1. CASE call' = [call EXCEPT ![c] = k]
    BY <2>1 DEF IInv, TypeOK
  <2>2. CASE call' = [Elapse(d) EXCEPT ![c] = k]
    <3> DEFINE e == Elapse(d)
    <3>1. /\ e = [o \in Callers |-> e[o]]
          /\ \A o \in Callers \ {c} :
               \/ e[o] = call[o]
               \/ call[o].pc = "entering" /\ e[o] = Later(call[o], d)
      BY ElapsedRecords
    <3> HIDE DEF e
    <3>2. call' = [e EXCEPT ![c] = k]
      BY <2>2 DEF e
    <3>3. call' = [o \in Callers |-> IF o = c THEN k ELSE e[o]]
      BY <3>1, <3>2
    <3> QED
      BY <3>1, <3>3
  <2> QED
    BY <2>1, <2>2
<1>3. process' = [process EXCEPT ![c] = s]
  BY DEF IInv, TypeOK
<1> QED
  BY <1>1, <1>2, <1>3, RecordReplaced

(* Steps before the first position: the record moves on, and time passes.  *)
LEMMA EnteringRecord ==
  ASSUME BudgetAssumption, IInv, NEW c \in Callers,
         call[c].pc \in {"starting", "configuring"},
         NEW d \in StartTimes, NEW k,
         k = [Later(call[c], d) EXCEPT !.pc = k.pc, !.engine = k.engine],
         k.pc \in {"configuring", "position", "undoing"}, k.engine \in BOOLEAN
  PROVE  k \in Calls /\ CallInv(k) /\ k.game = call[c].game /\ Authorized(k.game)
<1>1. d \in Nat /\ call[c] \in Calls /\ call[c].elapsed + d \in Nat
  <2>1. d \in Nat /\ call[c] \in Calls
    BY RecordOf DEF BudgetAssumption
  <2> QED
    BY <2>1 DEF Calls
<1>2. k \in Calls
  BY <1>1 DEF Later, Calls, InSession
<1>3. /\ k.evaluations = <<>> /\ k.moves = <<>> /\ k.limit = 0
      /\ k.game = call[c].game
  BY <1>1, RecordOf DEF Later, CallInv, NothingYet, Before, Calls
<1>4. Authorized(k.game) /\ Replayable(k.game) /\ k.game.moves \in 0 .. MaxMoves
  BY <1>3, RecordOf DEF CallInv, GameAdmitted, InSession
<1>5. CallInv(k)
  BY <1>3, <1>4, RecordOf DEF CallInv, GameAdmitted, NothingYet, RecordsJoin, PositionsLeft,
     ResultTells, LimitFits, ValidRecords, Before, Working, Leaving
<1> QED
  BY <1>2, <1>3, <1>4, <1>5

LEMMA LaunchKeeps ==
  ASSUME BudgetAssumption, IInv, NEW c \in Callers, Launch(c)
  PROVE  IInv'
<1>1. PICK d \in StartTimes : call' = [Elapse(d) EXCEPT ![c].pc = "configuring"]
  BY DEF Launch
<1> DEFINE k == [Later(call[c], d) EXCEPT !.pc = "configuring", !.engine = call[c].engine]
<1>2. call[c].pc = "starting" /\ d \in Nat /\ call[c].engine \in BOOLEAN /\ call[c] \in Calls
  BY RecordOf DEF Launch, BudgetAssumption, Calls
<1>3. k \in Calls /\ CallInv(k) /\ k.pc = "configuring" /\ Authorized(k.game)
  <2>1. /\ k.pc = "configuring" /\ k.engine \in BOOLEAN
        /\ k = [Later(call[c], d) EXCEPT !.pc = k.pc, !.engine = k.engine]
    BY <1>2 DEF Later, Calls
  <2> HIDE DEF k
  <2> QED
    BY <1>2, <2>1, EnteringRecord
<1>4. call' = [Elapse(d) EXCEPT ![c] = k]
  <2>1. Elapse(d)[c] = Later(call[c], d) /\ Elapse(d) = [o \in Callers |-> Elapse(d)[o]]
    BY <1>2, ElapsedRecords DEF InSession
  <2>2. [Later(call[c], d) EXCEPT !.pc = "configuring"] = k
    BY <1>2 DEF Later, Calls
  <2> HIDE DEF k
  <2> QED
    BY <1>1, <2>1, <2>2
<1>5. ProcessFits(k, "running") /\ "running" \in ProcessStates /\ k.pc \in Locked
  BY <1>3 DEF ProcessFits, ProcessStates, Working, Locked, InSession
<1>6. lock' = lock /\ process' = [process EXCEPT ![c] = "running"] /\ call[c].pc \in InSession
  BY DEF Launch, InSession
<1> HIDE DEF k
<1> QED
  BY <1>2, <1>3, <1>4, <1>5, <1>6, SessionStep

(* Both outcomes of configure: the process runs, and the session has it or *)
(* has to stop it.                                                         *)
LEMMA ConfigureKeeps ==
  ASSUME BudgetAssumption, IInv, NEW c \in Callers, Configure(c) \/ ConfigureFails(c)
  PROVE  IInv'
<1>1. call[c].pc = "configuring" /\ UNCHANGED <<lock, process>>
  BY DEF Configure, ConfigureFails
<1>2. call[c] \in Calls /\ call[c].engine \in BOOLEAN /\ process[c] = "running"
      /\ process[c] \in ProcessStates /\ call[c].pc \in InSession
  BY <1>1, RecordOf DEF Calls, ProcessFits, InSession
<1>3. PICK d \in StartTimes :
        \/ call' = [Elapse(d) EXCEPT ![c].pc = "position", ![c].engine = TRUE]
        \/ call' = [Elapse(d) EXCEPT ![c].pc = "undoing"]
  BY DEF Configure, ConfigureFails
<1>4. d \in Nat
  BY DEF BudgetAssumption
<1>5. Elapse(d)[c] = Later(call[c], d) /\ Elapse(d) = [o \in Callers |-> Elapse(d)[o]]
  BY <1>2, <1>4, ElapsedRecords
<1>6. CASE call' = [Elapse(d) EXCEPT ![c].pc = "position", ![c].engine = TRUE]
  <2> DEFINE k == [Later(call[c], d) EXCEPT !.pc = "position", !.engine = TRUE]
  <2>1. call' = [Elapse(d) EXCEPT ![c] = k]
    BY <1>5, <1>6
  <2>2. /\ k \in Calls /\ CallInv(k) /\ k.pc = "position" /\ k.engine = TRUE
        /\ Authorized(k.game)
    <3>1. /\ k.pc = "position" /\ k.engine = TRUE
          /\ k = [Later(call[c], d) EXCEPT !.pc = k.pc, !.engine = k.engine]
      BY <1>2 DEF Later, Calls
    <3> HIDE DEF k
    <3> QED
      BY <1>1, <3>1, EnteringRecord
  <2>3. ProcessFits(k, process[c]) /\ k.pc \in Locked
    BY <1>2, <2>2 DEF ProcessFits, Working, Locked, InSession
  <2> HIDE DEF k
  <2> QED
    BY <1>1, <1>2, <1>4, <2>1, <2>2, <2>3, SessionStep
<1>7. CASE call' = [Elapse(d) EXCEPT ![c].pc = "undoing"]
  <2> DEFINE k == [Later(call[c], d) EXCEPT !.pc = "undoing", !.engine = call[c].engine]
  <2>1. call' = [Elapse(d) EXCEPT ![c] = k]
    <3>1. [Later(call[c], d) EXCEPT !.pc = "undoing"] = k
      BY <1>2 DEF Later, Calls
    <3> HIDE DEF k
    <3> QED
      BY <1>5, <1>7, <3>1
  <2>2. k \in Calls /\ CallInv(k) /\ k.pc = "undoing" /\ Authorized(k.game)
    <3>1. /\ k.pc = "undoing" /\ k.engine \in BOOLEAN
          /\ k = [Later(call[c], d) EXCEPT !.pc = k.pc, !.engine = k.engine]
      BY <1>2 DEF Later, Calls
    <3> HIDE DEF k
    <3> QED
      BY <1>1, <3>1, EnteringRecord
  <2>3. ProcessFits(k, process[c]) /\ k.pc \in Locked
    BY <1>2, <2>2 DEF ProcessFits, Working, Locked, InSession
  <2> HIDE DEF k
  <2> QED
    BY <1>1, <1>2, <1>4, <2>1, <2>2, <2>3, SessionStep
<1> QED
  BY <1>3, <1>6, <1>7

(* A call that has ended, or was cut short, keeps its game and its result. *)
LEMMA EndedRecord ==
  ASSUME BudgetAssumption, IInv, NEW c \in Callers, NEW r \in Results,
         NEW pc \in {"done", "cut"}, NEW s \in ProcessStates \ {"running"},
         call[c].pc \in InSession \/ s = "absent"
  PROVE  LET k == [Ended(call[c], r) EXCEPT !.pc = pc] IN
         /\ k \in Calls /\ CallInv(k) /\ k.pc = pc
         /\ ProcessFits(k, s) /\ (k.pc \in Locked <=> pc = "cut")
<1> DEFINE k == [Ended(call[c], r) EXCEPT !.pc = pc]
<1>0. Idle \in Calls /\ call[c].game \in AllGames \cup {Idle.game}
  BY RecordOf DEF Idle, Calls, Nothing, BudgetAssumption, ValidBudget, Results
<1>1. k \in Calls
  BY <1>0 DEF Calls, Ended
<1>2. k.pc = pc /\ k.game = call[c].game /\ (k.pc \in Locked <=> pc = "cut")
  BY DEF Ended, Idle, Locked, InSession
<1>3. CallInv(k)
  BY DEF Idle, Ended, CallInv, GameAdmitted, NothingYet, RecordsJoin, PositionsLeft, ResultTells,
         LimitFits, ValidRecords, InSession, Before, Working, Leaving
<1>4. s = "absent" \/ Authorized(k.game)
  BY <1>2, RecordOf
<1> HIDE DEF k
<1>5. ProcessFits(k, s)
  BY <1>2, <1>4 DEF ProcessFits, Working
<1> QED
  BY <1>1, <1>2, <1>3, <1>5 DEF k

LEMMA EndedIsDone == \A local, r : Ended(local, r) = [Ended(local, r) EXCEPT !.pc = "done"]
BY DEF Ended, Idle

(* The session ends, and the lock is released.                             *)
LEMMA SessionEnds ==
  ASSUME BudgetAssumption, IInv, NEW c \in Callers, call[c].pc \in InSession,
         NEW r \in Results, NEW d \in Nat,
         \/ call' = [Elapse(d) EXCEPT ![c] = Ended(@, r)]
         \/ call' = [call EXCEPT ![c] = Ended(@, r)],
         NEW s \in ProcessStates \ {"running"},
         \/ process' = [process EXCEPT ![c] = s]
         \/ process' = process /\ s = process[c],
         lock' = NoCaller
  PROVE  IInv'
<1> DEFINE k == [Ended(call[c], r) EXCEPT !.pc = "done"]
<1>1. k \in Calls /\ CallInv(k) /\ ProcessFits(k, s) /\ k.pc \notin Locked
  BY EndedRecord
<1>2. Elapse(d)[c] = Later(call[c], d) /\ Elapse(d) = [o \in Callers |-> Elapse(d)[o]]
  BY ElapsedRecords
<1>3. Ended(Later(call[c], d), r) = k /\ Ended(call[c], r) = k
  <2>1. Later(call[c], d).game = call[c].game
    BY RecordOf DEF Later, Calls
  <2> QED
    BY <2>1, EndedIsDone DEF Ended
<1> HIDE DEF k
<1>4. \/ call' = [call EXCEPT ![c] = k]
      \/ call' = [Elapse(d) EXCEPT ![c] = k]
  BY <1>2, <1>3 DEF IInv, TypeOK
<1> QED
  BY <1>1, <1>4, SessionStep

(* Where __enter__ gives up: the launch failed or was interrupted, or what *)
(* it started was told to quit.                                            *)
LEMMA EnterFailsKeeps ==
  ASSUME BudgetAssumption, IInv, NEW c \in Callers,
         LaunchFails(c) \/ InterruptedLaunch(c) \/ Undo(c)
  PROVE  IInv'
<1>1. call[c].pc \in InSession /\ lock' = NoCaller /\ "RAISED" \in Results
  BY DEF LaunchFails, InterruptedLaunch, Undo, InSession, ReleasedOnError, Results
<1>2. PICK d \in StartTimes \cup QuitTimes : call' = [Elapse(d) EXCEPT ![c] = Ended(@, "RAISED")]
  BY DEF LaunchFails, InterruptedLaunch, Undo
<1>3. d \in Nat
  BY DEF BudgetAssumption, QuitTimes
<1>4. \E s \in ProcessStates \ {"running"} :
        process' = [process EXCEPT ![c] = s] \/ (process' = process /\ s = process[c])
  <2>1. CASE LaunchFails(c)
    <3>1. process[c] = "absent" /\ process' = process
      BY <2>1, RecordOf DEF LaunchFails, ProcessFits
    <3> QED
      BY <3>1 DEF ProcessStates
  <2>2. CASE InterruptedLaunch(c)
    BY <2>2 DEF InterruptedLaunch, ProcessStates
  <2>3. CASE Undo(c)
    BY <2>3 DEF Undo, AfterQuit, ProcessStates
  <2> QED
    BY <2>1, <2>2, <2>3
<1> QED
  BY <1>1, <1>2, <1>3, <1>4, SessionEnds

(* A partial result of the positions so far, whatever remains to be done.  *)
LEMMA PartialRecord ==
  ASSUME BudgetAssumption, IInv, NEW c \in Callers, call[c].pc \in Working, NEW d \in Nat,
         call[c].pc = "position" => d = 0,
         call[c].pc = "analysing" => d <= call[c].limit + CommandTimeout,
         call[c].pc = "invalidating" => d <= CommandTimeout
  PROVE  LET k == Partial(c, Later(call[c], d)) IN
         /\ k \in Calls /\ CallInv(k) /\ k.pc = "exit"
         /\ k.engine = call[c].engine /\ k.game = call[c].game
<1> DEFINE k == Partial(c, Later(call[c], d))
           n == Len(call[c].evaluations)
<1>0. call[c].elapsed \in Nat /\ call[c].pc \in InSession /\ n \in Nat
  BY RecordOf DEF Calls, Working, InSession
<1>1. call[c].elapsed + d \in Nat /\ n \in 0 .. MaxMoves /\ n <= call[c].game.moves
  <2>1. n <= call[c].game.moves /\ call[c].game.moves \in 0 .. MaxMoves /\ MaxMoves \in Nat
    BY <1>0, RecordOf DEF CallInv, PositionsLeft
  <2> HIDE DEF n
  <2> QED
    BY <1>0, <2>1
<1>2. n \in Nothing .. MaxMoves
  BY <1>1 DEF Nothing
<1>3. k \in Calls
  <2>1. call[c] \in Calls /\ Ply(c) = n
    BY RecordOf
  <2> HIDE DEF n
  <2> QED
    BY <1>1, <1>2, <2>1 DEF Partial, Later, Calls, Results, InSession
<1>4. /\ k.pc = "exit" /\ k.result = "PARTIAL" /\ k.failedPly = n
      /\ k.engine = call[c].engine /\ k.game = call[c].game
      /\ k.evaluations = call[c].evaluations /\ k.moves = call[c].moves
      /\ k.limit = call[c].limit /\ k.elapsed = call[c].elapsed + d
  BY RecordOf DEF Partial, Later, Calls
<1>5. k.limit > 0 => /\ k.elapsed <= MaxGameTime + 2 * CommandTimeout
                     /\ k.engine => k.elapsed <= MaxGameTime + CommandTimeout
  <2>1. call[c].limit \in Nat /\ LimitFits(call[c]) /\ MaxGameTime \in Nat /\ CommandTimeout \in Nat
    BY RecordOf DEF CallInv, Calls
  <2>2. k.limit = call[c].limit /\ k.elapsed = call[c].elapsed + d
    BY <1>4
  <2>3. call[c].pc = "invalidating" => ~k.engine
    BY <1>4, RecordOf DEF ProcessFits
  <2> HIDE DEF k
  <2>4. CASE call[c].pc = "position"
    BY <1>0, <2>1, <2>2, <2>4 DEF LimitFits, Working
  <2>5. CASE call[c].pc = "analysing"
    BY <1>0, <2>1, <2>2, <2>5 DEF LimitFits, Working
  <2>6. CASE call[c].pc = "invalidating"
    BY <1>0, <2>1, <2>2, <2>3, <2>6 DEF LimitFits, Working
  <2> QED
    BY <2>4, <2>5, <2>6 DEF Working
<1>6. GameAdmitted(k) /\ RecordsJoin(k)
  BY <1>4, RecordOf DEF CallInv, GameAdmitted, RecordsJoin, Working, InSession
<1> HIDE DEF k
<1>7. CallInv(k)
  BY <1>1, <1>4, <1>5, <1>6 DEF CallInv, NothingYet, PositionsLeft, ResultTells, LimitFits,
       Before, Working, Leaving
<1> QED
  BY <1>3, <1>4, <1>7 DEF k

(* The positions end with a partial result, or with an exception that is   *)
(* passed on.  The process runs, for __exit__ to stop, unless it had       *)
(* failed: then it was told to quit, or lost while it was.                 *)
LEMMA WorkStops ==
  ASSUME BudgetAssumption, IInv, NEW c \in Callers, call[c].pc \in Working, NEW d \in Nat,
         call[c].pc = "position" => d = 0,
         call[c].pc = "analysing" => d <= call[c].limit + CommandTimeout,
         call[c].pc = "invalidating" => d <= CommandTimeout,
         \/ d = 0 /\ call' = [call EXCEPT ![c] = Partial(c, @)]
         \/ call' = [Elapse(d) EXCEPT ![c] = Partial(c, @)]
         \/ call' = [Elapse(d) EXCEPT ![c].pc = "exit", ![c].result = "RAISED"],
         NEW s \in ProcessStates, s = "running" <=> call[c].pc # "invalidating",
         \/ process' = [process EXCEPT ![c] = s]
         \/ process' = process /\ s = process[c],
         lock' = lock
  PROVE  IInv'
<1> DEFINE partial == Partial(c, Later(call[c], d))
           raised == [Later(call[c], d) EXCEPT !.pc = "exit", !.result = "RAISED"]
<1>1. call[c].pc \in InSession /\ Authorized(call[c].game)
      /\ (call[c].engine <=> s = "running") /\ call[c].engine \in BOOLEAN
  BY RecordOf DEF Working, InSession, ProcessFits, Calls
<1>2. /\ partial \in Calls /\ CallInv(partial) /\ partial.pc = "exit"
      /\ partial.engine = call[c].engine /\ partial.game = call[c].game
  BY PartialRecord
<1>3. /\ raised = [partial EXCEPT !.result = "RAISED", !.failedPly = call[c].failedPly]
      /\ call[c].failedPly \in Nothing .. MaxMoves
  BY RecordOf DEF Partial, Later, Calls
<1>4. /\ raised \in Calls /\ CallInv(raised) /\ raised.pc = "exit"
      /\ raised.engine = call[c].engine /\ raised.game = call[c].game
  <2> HIDE DEF partial, raised
  <2>1. raised \in Calls /\ raised.pc = "exit" /\ raised.engine = call[c].engine
        /\ raised.result = "RAISED" /\ raised.game = call[c].game
    BY <1>2, <1>3 DEF Calls, Results
  <2>2. CallInv(raised)
    BY <1>2, <1>3 DEF Calls, CallInv, GameAdmitted, NothingYet, RecordsJoin, PositionsLeft,
           ResultTells, LimitFits
  <2> QED
    BY <2>1, <2>2
<1>5. \/ call' = [call EXCEPT ![c] = partial]
      \/ call' = [Elapse(d) EXCEPT ![c] = partial]
      \/ call' = [Elapse(d) EXCEPT ![c] = raised]
  <2>1. Elapse(d)[c] = Later(call[c], d) /\ Elapse(d) = [o \in Callers |-> Elapse(d)[o]]
    BY <1>1, ElapsedRecords
  <2>2. d = 0 => Later(call[c], d) = call[c]
    BY RecordOf DEF Later, Calls
  <2> QED
    BY <2>1, <2>2 DEF IInv, TypeOK
<1> HIDE DEF partial, raised
<1>6. ProcessFits(partial, s) /\ ProcessFits(raised, s)
  BY <1>1, <1>2, <1>4 DEF ProcessFits, Working
<1>7. partial.pc \in Locked /\ raised.pc \in Locked
  BY <1>2, <1>4 DEF Locked, InSession
<1>8. CASE call' = [call EXCEPT ![c] = partial] \/ call' = [Elapse(d) EXCEPT ![c] = partial]
  BY <1>1, <1>2, <1>6, <1>7, <1>8, SessionStep
<1>9. CASE call' = [Elapse(d) EXCEPT ![c] = raised]
  BY <1>1, <1>4, <1>6, <1>7, <1>9, SessionStep
<1> QED
  BY <1>5, <1>8, <1>9

LEMMA BudgetExhaustedKeeps ==
  ASSUME BudgetAssumption, IInv, NEW c \in Callers, BudgetExhausted(c)
  PROVE  IInv'
<1>1. call[c].pc = "position" /\ process[c] = "running" /\ process[c] \in ProcessStates
      /\ CommandTimeout \in Nat
  BY RecordOf DEF BudgetExhausted, ProcessFits, Working
<1>2. call' = [call EXCEPT ![c] = Partial(c, @)] /\ lock' = lock /\ process' = process
  BY DEF BudgetExhausted
<1>3. 0 \in Nat /\ call[c].pc \in Working
  BY <1>1 DEF Working
<1> QED
  BY <1>1, <1>2, <1>3, WorkStops

LEMMA RequestKeeps ==
  ASSUME BudgetAssumption, IInv, NEW c \in Callers, Request(c)
  PROVE  IInv'
<1> DEFINE k == [call[c] EXCEPT !.pc = "analysing", !.limit = TimeLimit(c)]
<1>1. call[c].pc = "position" /\ Remaining(c) > 0
  BY DEF Request
<1>2. call[c].elapsed \in Nat
  BY RecordOf DEF Calls
<1>3. TimeLimit(c) \in 0 .. MaxPositionTime /\ TimeLimit(c) <= Remaining(c)
  <2>1. Remaining(c) \in Nat
    BY <1>1, <1>2, RecordOf
  <2>2. /\ TimeLimit(c) \in {MaxPositionTime, Remaining(c)}
        /\ TimeLimit(c) <= MaxPositionTime /\ TimeLimit(c) <= Remaining(c)
    <3>1. Remaining(c) \in Int /\ MaxPositionTime \in Int
      BY <2>1, RecordOf
    <3> QED
      BY <3>1, MinOfTwo DEF TimeLimit
  <2> QED
    BY <2>1, <2>2, RecordOf
<1>4. k \in Calls
  <2>1. call[c] \in Calls
    BY RecordOf
  <2> QED
    BY <1>3, <2>1 DEF Calls, InSession
<1>5. /\ k.pc = "analysing" /\ k.limit = TimeLimit(c) /\ k.elapsed = call[c].elapsed
      /\ k.evaluations = call[c].evaluations /\ k.moves = call[c].moves
      /\ k.game = call[c].game /\ k.engine = call[c].engine
  BY RecordOf DEF Calls
<1> HIDE DEF k
<1>6. /\ k.elapsed + k.limit <= MaxGameTime
      /\ k.elapsed <= MaxGameTime + CommandTimeout
      /\ k.elapsed <= MaxGameTime + 2 * CommandTimeout
  BY <1>1, <1>2, <1>3, <1>5, RecordOf
<1>7. GameAdmitted(k) /\ RecordsJoin(k) /\ PositionsLeft(k)
  BY <1>1, <1>5, RecordOf DEF CallInv, GameAdmitted, RecordsJoin, PositionsLeft, Working, InSession
<1>8. CallInv(k)
  BY <1>5, <1>6, <1>7 DEF CallInv, NothingYet, ResultTells, LimitFits, Before, Leaving
<1>9. call' = [call EXCEPT ![c] = k]
  BY DEF Request, IInv, TypeOK, k
<1>10. UNCHANGED <<lock, process>> /\ call[c].pc \in InSession /\ k.pc \in Locked
  BY <1>1, <1>5 DEF Request, Locked, InSession
<1>11. ProcessFits(k, process[c]) /\ process[c] \in ProcessStates
  BY <1>1, <1>5, RecordOf DEF ProcessFits, Working
<1>12. 0 \in Nat
  OBVIOUS
<1> QED
  BY <1>4, <1>8, <1>9, <1>10, <1>11, <1>12, SessionStep

(* The records of one more position: the plies stay without a gap, and the *)
(* new move joins the last position and this one.                          *)
LEMMA EvaluatedRecord ==
  ASSUME BudgetAssumption, IInv, NEW c \in Callers, call[c].pc = "analysing",
         NEW d \in Nat, d <= call[c].limit + CommandTimeout, NEW output \in Outputs[c]
  PROVE  LET k == Evaluated(c, Later(call[c], d), output) IN
         /\ k \in Calls /\ CallInv(k) /\ k.pc \in {"position", "exit"}
         /\ k.engine = call[c].engine /\ k.game = call[c].game
<1> DEFINE old == call[c]
           n == Len(old.evaluations)
           e == EvaluationOf(n, output)
           mv == <<old.evaluations[n].ply, n>>
           evs == Append(old.evaluations, e)
           mvs == IF n = 0 THEN old.moves ELSE Append(old.moves, mv)
           k == Evaluated(c, Later(old, d), output)
           Evaluation == [ply : 0 .. MaxMoves, score : Scores, played : BOOLEAN]
           Move == (0 .. MaxMoves) \X (0 .. MaxMoves)
<1>1. /\ old.evaluations \in Seq(Evaluation) /\ old.moves \in Seq(Move)
      /\ old.elapsed + d \in Nat /\ n \in Nat
  <2>1. old \in Calls /\ n \in Nat
    BY RecordOf
  <2>2. old.evaluations \in Seq(Evaluation) /\ old.moves \in Seq(Move) /\ old.elapsed \in Nat
    BY <2>1 DEF Calls
  <2> HIDE DEF old, Evaluation, Move, n
  <2> QED
    BY <2>1, <2>2
<1>2. n <= old.game.moves /\ old.game.moves \in 0 .. MaxMoves /\ n \in 0 .. MaxMoves
  <2>1. n <= old.game.moves /\ old.game.moves \in 0 .. MaxMoves /\ MaxMoves \in Nat
    BY RecordOf DEF CallInv, PositionsLeft, Working, InSession
  <2> HIDE DEF n
  <2> QED
    BY <1>1, <2>1
<1>3. RecordsJoin(old)
  BY RecordOf DEF CallInv
<1>4. e \in Evaluation /\ e.ply = n
  <2>1. output.score \in Scores
    BY DEF Scores
  <2>2. output.played \in BOOLEAN
    BY DEF BudgetAssumption
  <2> HIDE DEF n
  <2> QED
    BY <2>1, <2>2, <1>2 DEF EvaluationOf
<1>5. /\ evs \in Seq(Evaluation) /\ Len(evs) = n + 1
      /\ \A i \in 1 .. n : evs[i] = old.evaluations[i]
      /\ evs[n + 1] = e
  <2> HIDE DEF e, Evaluation
  <2> QED
    BY <1>1, <1>4
<1>6. \A i \in 1 .. n + 1 : evs[i].ply = i - 1
  <2>1. \A i \in 1 .. n : old.evaluations[i].ply = i - 1
    BY <1>3 DEF RecordsJoin, ValidRecords
  <2> HIDE DEF evs, e, n, old, Evaluation, Move
  <2>2. ASSUME NEW i \in 1 .. n + 1
        PROVE  evs[i].ply = i - 1
    <3>1. CASE i = n + 1
      <4>1. evs[i].ply = n
        BY <3>1, <1>4, <1>5
      <4>2. n \in Nat
        BY <1>1
      <4> QED
        BY <3>1, <4>1, <4>2
    <3>2. CASE i # n + 1
      <4>1. i \in 1 .. n
        BY <3>2, <1>1
      <4> QED
        BY <4>1, <2>1, <1>5
    <3> QED
      BY <3>1, <3>2
  <2> QED
    BY <2>2
<1>7. n # 0 => mv = <<n - 1, n>> /\ mv \in Move /\ Len(old.moves) = n - 1
  <2>1. n # 0 => old.evaluations[n].ply = n - 1
    <3>1. \A i \in 1 .. n : old.evaluations[i].ply = i - 1
      BY <1>3 DEF RecordsJoin, ValidRecords
    <3>2. n # 0 => n \in 1 .. n
      <4> HIDE DEF n
      <4> QED
        BY <1>1
    <3> HIDE DEF n, old
    <3> QED
      BY <3>1, <3>2
  <2>2. n # 0 => old.evaluations # <<>>
    OBVIOUS
  <2>3. n # 0 => n - 1 \in 0 .. MaxMoves
    <3>1. n \in Nat /\ n \in 0 .. MaxMoves /\ MaxMoves \in Nat
      BY <1>1, <1>2, RecordOf
    <3> HIDE DEF n
    <3> QED
      BY <3>1
  <2>4. n # 0 => Len(old.moves) = n - 1
    BY <2>2, <1>3 DEF RecordsJoin
  <2> HIDE DEF n
  <2> QED
    BY <1>2, <2>1, <2>3, <2>4
<1>8. n = 0 => old.moves = <<>>
  <2>1. n = 0 => old.evaluations = <<>>
    BY <1>1, EmptySeq
  <2> QED
    BY <2>1, <1>3 DEF RecordsJoin
<1>9. mvs \in Seq(Move) /\ Len(mvs) = n /\ \A i \in 1 .. n : mvs[i] = <<i - 1, i>>
  <2>1. CASE n = 0
    BY <2>1, <1>1, <1>8
  <2>2. CASE n # 0
    <3>1. \A i \in 1 .. Len(old.moves) : old.moves[i] = <<i - 1, i>>
      BY <1>3 DEF RecordsJoin, ValidRecords
    <3>2. mv = <<n - 1, n>> /\ mv \in Move /\ Len(old.moves) = n - 1
      BY <2>2, <1>7
    <3> HIDE DEF mv, Move, n
    <3> QED
      BY <2>2, <3>1, <3>2, <1>1
  <2> QED
    BY <2>1, <2>2
<1> DEFINE last == n = old.game.moves
<1> DEFINE changed == [old EXCEPT !.elapsed = old.elapsed + d, !.evaluations = evs, !.moves = mvs,
                         !.pc = (IF last THEN "exit" ELSE "position"),
                         !.result = (IF last THEN "COMPLETE" ELSE old.result)]
<1>10. k = changed /\ old \in Calls
  <2> DEFINE l == Later(old, d)
  <2>1. old \in Calls /\ Ply(c) = n
    BY RecordOf
  <2>2. /\ l = [old EXCEPT !.elapsed = old.elapsed + d]
        /\ l.evaluations = old.evaluations /\ l.moves = old.moves
        /\ l.game = old.game /\ l.result = old.result
    BY <2>1 DEF Later, Calls
  <2>3. k = [l EXCEPT !.evaluations = evs, !.moves = mvs,
                      !.pc = (IF last THEN "exit" ELSE "position"),
                      !.result = (IF last THEN "COMPLETE" ELSE old.result)]
    <3>1. k = Evaluated(c, l, output)
      OBVIOUS
    <3> HIDE DEF l, old, k
    <3> QED
      BY <2>1, <2>2, <3>1 DEF Evaluated
  <2> HIDE DEF l, evs, mvs, last, k, old
  <2> QED
    BY <2>1, <2>2, <2>3 DEF Calls
<1>11. /\ k.evaluations = evs /\ k.moves = mvs
       /\ k.pc = (IF last THEN "exit" ELSE "position")
       /\ k.result = (IF last THEN "COMPLETE" ELSE old.result)
       /\ k.game = old.game /\ k.engine = old.engine /\ k.limit = old.limit
       /\ k.elapsed = old.elapsed + d /\ k.failedPly = old.failedPly
  <2> HIDE DEF evs, mvs, last, k, old
  <2> QED
    BY <1>10 DEF Calls
<1>12. k \in Calls
  <2>1. (IF last THEN "COMPLETE" ELSE old.result) \in Results
    BY RecordOf DEF Calls, Results
  <2> HIDE DEF k, evs, mvs, last, old
  <2> QED
    BY <1>1, <1>5, <1>9, <1>10, <2>1 DEF Calls, InSession
<1>13. /\ k.elapsed <= MaxGameTime + CommandTimeout
       /\ k.elapsed <= MaxGameTime + 2 * CommandTimeout
  <2>1. old.elapsed + old.limit <= MaxGameTime
    BY RecordOf DEF CallInv, LimitFits
  <2>2. old.elapsed \in Nat /\ old.limit \in Nat
    BY RecordOf DEF Calls
  <2>3. k.elapsed = old.elapsed + d /\ d <= old.limit + CommandTimeout
    BY <1>11
  <2>4. MaxGameTime \in Nat /\ CommandTimeout \in Nat
    BY RecordOf
  <2> HIDE DEF k, old
  <2> QED
    BY <2>1, <2>2, <2>3, <2>4
<1>14. GameAdmitted(k)
  BY <1>11, RecordOf DEF CallInv, GameAdmitted, InSession
<1> HIDE DEF k, evs, mvs, old, e, mv
<1>15. RecordsJoin(k)
  <2> HIDE DEF n
  <2>1. n \in Nat /\ Len(evs) = n + 1 /\ Len(mvs) = n
    BY <1>1, <1>5, <1>9
  <2>2. evs # <<>>
    BY <2>1
  <2>3. (\A i \in 1 .. Len(evs) : evs[i].ply = i - 1) /\ (\A i \in 1 .. Len(mvs) : mvs[i] = <<i - 1, i>>)
    BY <2>1, <1>6, <1>9
  <2>4. k.evaluations = evs /\ k.moves = mvs /\ Len(mvs) = Len(evs) - 1
    BY <1>11, <2>1
  <2> QED
    BY <2>2, <2>3, <2>4 DEF RecordsJoin, ValidRecords
<1>16. PositionsLeft(k) /\ ResultTells(k)
  <2>1. Len(k.evaluations) = n + 1 /\ n \in Nat /\ n <= k.game.moves /\ k.game.moves \in Nat
    BY <1>1, <1>2, <1>5, <1>11
  <2>2. k.pc = (IF last THEN "exit" ELSE "position") /\ (last <=> n = k.game.moves)
        /\ (last => k.result = "COMPLETE")
    BY <1>11
  <2> HIDE DEF n, last
  <2>3. CASE last
    BY <2>1, <2>2, <2>3 DEF PositionsLeft, ResultTells, Working, Leaving
  <2>4. CASE ~last
    <3>1. k.pc = "position" /\ n + 1 <= k.game.moves
      BY <2>1, <2>2, <2>4
    <3> QED
      BY <2>1, <3>1 DEF PositionsLeft, ResultTells, Working, Leaving
  <2> QED
    BY <2>3, <2>4 DEF PositionsLeft, ResultTells, Working, Leaving
<1>17. CallInv(k) /\ k.pc \in {"position", "exit"}
  BY <1>11, <1>13, <1>14, <1>15, <1>16 DEF CallInv, NothingYet, LimitFits, Before, InSession
<1> QED
  BY <1>11, <1>12, <1>17 DEF k, old

LEMMA AnswerKeeps ==
  ASSUME BudgetAssumption, IInv, NEW c \in Callers, Answer(c)
  PROVE  IInv'
<1>1. PICK d \in CommandTimes(c), output \in Outputs[c] :
        call' = [Elapse(d) EXCEPT ![c] = Evaluated(c, @, output)]
  BY DEF Answer
<1> DEFINE k == Evaluated(c, Later(call[c], d), output)
<1>2. call[c].pc = "analysing" /\ call[c].pc \in InSession
  BY DEF Answer, InSession
<1>3. d \in Nat /\ d <= call[c].limit + CommandTimeout
  BY RecordOf DEF CommandTimes, Calls
<1>4. /\ k \in Calls /\ CallInv(k) /\ k.pc \in {"position", "exit"}
      /\ k.engine = call[c].engine /\ k.game = call[c].game
  BY <1>2, <1>3, EvaluatedRecord
<1>5. call' = [Elapse(d) EXCEPT ![c] = k]
  BY <1>1, <1>2, <1>3, ElapsedRecords
<1> HIDE DEF k
<1>6. UNCHANGED <<lock, process>> /\ k.pc \in Locked
  BY <1>4 DEF Answer, Locked, InSession
<1>7. ProcessFits(k, process[c]) /\ process[c] \in ProcessStates
  <2>1. process[c] = "running" /\ call[c].engine /\ Authorized(call[c].game)
    BY <1>2, RecordOf DEF ProcessFits, Working
  <2> QED
    BY <1>4, <2>1 DEF ProcessFits, Working, ProcessStates
<1> QED
  BY <1>2, <1>3, <1>4, <1>5, <1>6, <1>7, SessionStep

LEMMA EngineFailsKeeps ==
  ASSUME BudgetAssumption, IInv, NEW c \in Callers, EngineFails(c)
  PROVE  IInv'
<1>1. PICK d \in CommandTimes(c) :
        call' = [Elapse(d) EXCEPT ![c].pc = "invalidating", ![c].engine = FALSE]
  BY DEF EngineFails
<1> DEFINE k == [Later(call[c], d) EXCEPT !.pc = "invalidating", !.engine = FALSE]
<1>2. /\ call[c].pc = "analysing" /\ call[c].pc \in InSession /\ call[c] \in Calls
      /\ process[c] = "running" /\ process[c] \in ProcessStates /\ Authorized(call[c].game)
  BY RecordOf DEF EngineFails, InSession, ProcessFits, Working
<1>3. /\ d \in Nat /\ d <= call[c].limit + CommandTimeout
      /\ call[c].limit \in Nat /\ call[c].elapsed \in Nat
  BY RecordOf DEF CommandTimes, Calls
<1>4. /\ k.pc = "invalidating" /\ k.engine = FALSE /\ k.game = call[c].game
      /\ k.evaluations = call[c].evaluations /\ k.moves = call[c].moves
      /\ k.limit = call[c].limit /\ k.elapsed = call[c].elapsed + d
  BY <1>2 DEF Later, Calls
<1>5. k \in Calls
  <2>1. call[c].elapsed + d \in Nat
    BY <1>3
  <2> QED
    BY <1>2, <2>1 DEF Later, Calls, InSession
<1>6. call' = [Elapse(d) EXCEPT ![c] = k]
  BY <1>1, <1>2, <1>3, ElapsedRecords
<1> HIDE DEF k
<1>7. /\ k.elapsed <= MaxGameTime + CommandTimeout
      /\ k.elapsed <= MaxGameTime + 2 * CommandTimeout
  <2>1. call[c].elapsed + call[c].limit <= MaxGameTime
    BY <1>2, RecordOf DEF CallInv, LimitFits
  <2>2. k.elapsed = call[c].elapsed + d /\ MaxGameTime \in Nat /\ CommandTimeout \in Nat
    BY <1>4, RecordOf
  <2> QED
    BY <1>3, <2>1, <2>2
<1>8. GameAdmitted(k) /\ RecordsJoin(k) /\ PositionsLeft(k)
  BY <1>2, <1>4, RecordOf DEF CallInv, GameAdmitted, RecordsJoin, PositionsLeft, Working, InSession
<1>9. CallInv(k)
  BY <1>4, <1>7, <1>8 DEF CallInv, NothingYet, ResultTells, LimitFits, Before, Leaving
<1>10. ProcessFits(k, process[c]) /\ k.pc \in Locked
  BY <1>2, <1>4 DEF ProcessFits, Working, Locked, InSession
<1>11. lock' = lock /\ process' = process
  BY DEF EngineFails
<1> QED
  BY <1>2, <1>3, <1>5, <1>6, <1>9, <1>10, <1>11, SessionStep

(* The quit of a process that failed, which may be interrupted.            *)
LEMMA InvalidateKeeps ==
  ASSUME BudgetAssumption, IInv, NEW c \in Callers, Invalidate(c) \/ InterruptedInvalidate(c)
  PROVE  IInv'
<1>1. call[c].pc = "invalidating" /\ call[c].pc \in Working /\ lock' = lock
  BY DEF Invalidate, InterruptedInvalidate, Working
<1>2. PICK d \in QuitTimes :
        \/ call' = [Elapse(d) EXCEPT ![c] = Partial(c, @)]
        \/ call' = [Elapse(d) EXCEPT ![c].pc = "exit", ![c].result = "RAISED"]
  BY DEF Invalidate, InterruptedInvalidate, AfterFailure
<1>3. d \in Nat /\ d <= CommandTimeout
  BY RecordOf DEF QuitTimes
<1>4. process[c] = "running"
  BY <1>1, RecordOf DEF ProcessFits
<1>5. PICK s \in {"absent", "told", "lost"} : process' = [process EXCEPT ![c] = s]
  BY <1>4 DEF Invalidate, InterruptedInvalidate, AfterQuit, AfterInterruption
<1>6. s \in ProcessStates /\ s # "running"
  BY DEF ProcessStates
<1> QED
  BY <1>1, <1>2, <1>3, <1>5, <1>6, WorkStops

LEMMA InterruptedAnalysisKeeps ==
  ASSUME BudgetAssumption, IInv, NEW c \in Callers, InterruptedAnalysis(c)
  PROVE  IInv'
<1>1. call[c].pc \in {"position", "analysing"} /\ call[c].pc \in Working
  BY DEF InterruptedAnalysis, Working
<1>2. PICK d \in (IF call[c].pc = "analysing" THEN CommandTimes(c) ELSE {0}) :
        \/ call' = [Elapse(d) EXCEPT ![c] = Partial(c, @)]
        \/ call' = [Elapse(d) EXCEPT ![c].pc = "exit", ![c].result = "RAISED"]
  BY DEF InterruptedAnalysis
<1>3. d \in Nat /\ (call[c].pc = "analysing" => d <= call[c].limit + CommandTimeout)
      /\ (call[c].pc = "position" => d = 0)
  BY <1>1, RecordOf DEF CommandTimes, Calls
<1>4. process[c] = "running" /\ process[c] \in ProcessStates
  BY <1>1, RecordOf DEF ProcessFits
<1>5. UNCHANGED <<lock, process>>
  BY DEF InterruptedAnalysis
<1> QED
  BY <1>1, <1>2, <1>3, <1>4, <1>5, WorkStops

(* The quit of __exit__, if there is anything to quit; an interruption of  *)
(* it changes the result of the call.                                      *)
LEMMA ExitKeeps ==
  ASSUME BudgetAssumption, IInv, NEW c \in Callers, Exit(c) \/ InterruptedExit(c)
  PROVE  IInv'
<1>1. call[c].pc = "exit" /\ call[c].pc \in InSession /\ lock' = lock
  BY DEF Exit, InterruptedExit, InSession
<1>2. /\ call[c] \in Calls /\ CallInv(call[c]) /\ ProcessFits(call[c], process[c])
      /\ process[c] \in ProcessStates /\ CommandTimeout \in Nat /\ MaxGameTime \in Nat
      /\ Authorized(call[c].game)
  BY <1>1, RecordOf
<1>3. PICK d \in QuitTimes, r \in {call[c].result, "RAISED"} :
        /\ ~call[c].engine => d = 0
        /\ \/ d = 0 /\ call' = [call EXCEPT ![c].pc = "leaving", ![c].engine = FALSE]
              /\ r = call[c].result
           \/ call' = [Elapse(d) EXCEPT ![c].pc = "leaving", ![c].engine = FALSE]
              /\ r = call[c].result
           \/ call' = [Elapse(d) EXCEPT ![c].pc = "leaving", ![c].engine = FALSE,
                                        ![c].result = "RAISED"]
              /\ r = "RAISED"
  <2>1. 0 \in QuitTimes
    BY <1>2 DEF QuitTimes
  <2> QED
    BY <2>1 DEF Exit, InterruptedExit, HasEngine
<1>4. d \in Nat /\ d <= CommandTimeout /\ call[c].elapsed \in Nat /\ call[c].elapsed + d \in Nat
  BY <1>2 DEF QuitTimes, Calls
<1> DEFINE k == [Later(call[c], d) EXCEPT !.pc = "leaving", !.engine = FALSE, !.result = r]
<1>5. k \in Calls
  BY <1>2, <1>4 DEF Later, Calls, InSession, Results
<1>6. /\ k.pc = "leaving" /\ k.engine = FALSE /\ k.game = call[c].game /\ k.result = r
      /\ k.evaluations = call[c].evaluations /\ k.moves = call[c].moves
      /\ k.limit = call[c].limit /\ k.failedPly = call[c].failedPly
      /\ k.elapsed = call[c].elapsed + d
  BY <1>2 DEF Later, Calls
<1>7. call' = [call EXCEPT ![c] = k] \/ call' = [Elapse(d) EXCEPT ![c] = k]
  <2>1. Elapse(d)[c] = Later(call[c], d) /\ Elapse(d) = [o \in Callers |-> Elapse(d)[o]]
    BY <1>1, <1>4, ElapsedRecords
  <2>2. d = 0 => Later(call[c], d) = call[c]
    BY <1>2 DEF Later, Calls
  <2>3. r = call[c].result => k = [Later(call[c], d) EXCEPT !.pc = "leaving", !.engine = FALSE]
    BY <1>2 DEF Later, Calls
  <2> DEFINE l == Later(call[c], d)
  <2>4. r = call[c].result => k = [l EXCEPT !.pc = "leaving", !.engine = FALSE]
    BY <2>3
  <2>5. k = [l EXCEPT !.pc = "leaving", !.engine = FALSE, !.result = r]
    OBVIOUS
  <2> HIDE DEF k, l
  <2>6. Elapse(d)[c] = l /\ (d = 0 => l = call[c])
    BY <2>1, <2>2 DEF l
  <2> QED
    BY <1>3, <2>1, <2>4, <2>5, <2>6 DEF IInv, TypeOK
<1> HIDE DEF k
<1>8. k.limit > 0 => k.elapsed <= MaxGameTime + 2 * CommandTimeout
  <2>1. CASE call[c].engine
    BY <1>2, <1>4, <1>6, <2>1 DEF CallInv, LimitFits
  <2>2. CASE ~call[c].engine
    BY <1>2, <1>3, <1>4, <1>6, <2>2 DEF CallInv, LimitFits
  <2> QED
    BY <2>1, <2>2
<1>9. GameAdmitted(k) /\ RecordsJoin(k) /\ ResultTells(k)
  BY <1>1, <1>2, <1>3, <1>6 DEF CallInv, GameAdmitted, RecordsJoin, ResultTells, Leaving, InSession
<1>10. CallInv(k)
  BY <1>6, <1>8, <1>9 DEF CallInv, NothingYet, PositionsLeft, LimitFits, Before, Working
<1>11. \E s \in ProcessStates \ {"running"} :
         process' = [process EXCEPT ![c] = s] \/ (process' = process /\ s = process[c])
  <2>1. CASE call[c].engine
    <3>1. process[c] = "running"
      BY <1>1, <1>2, <2>1 DEF ProcessFits
    <3> QED
      BY <2>1, <3>1 DEF Exit, InterruptedExit, HasEngine, AfterQuit, AfterInterruption,
         ProcessStates
  <2>2. CASE ~call[c].engine
    <3>1. process[c] # "running" /\ process' = process
      BY <1>1, <1>2, <2>2 DEF ProcessFits, Exit, InterruptedExit, HasEngine
    <3> QED
      BY <1>2, <3>1
  <2> QED
    BY <2>1, <2>2
<1>12. PICK s \in ProcessStates \ {"running"} :
         process' = [process EXCEPT ![c] = s] \/ (process' = process /\ s = process[c])
  BY <1>11
<1>13. ProcessFits(k, s) /\ k.pc \in Locked
  BY <1>2, <1>6 DEF ProcessFits, Working, Locked, InSession
<1> QED
  BY <1>1, <1>4, <1>5, <1>7, <1>10, <1>12, <1>13, SessionStep

LEMMA LeaveKeeps ==
  ASSUME BudgetAssumption, IInv, NEW c \in Callers, Leave(c)
  PROVE  IInv'
<1>1. call[c].pc = "leaving" /\ call[c].pc \in InSession
  BY DEF Leave, InSession
<1>2. call[c].result \in Results /\ process[c] \in ProcessStates \ {"running"} /\ 0 \in Nat
  BY <1>1, RecordOf DEF Calls, ProcessFits
<1>3. call' = [call EXCEPT ![c] = Ended(@, call[c].result)] /\ process' = process
      /\ lock' = NoCaller
  BY DEF Leave
<1> QED
  BY <1>1, <1>2, <1>3, SessionEnds

LEMMA InterruptedWaitingKeeps ==
  ASSUME BudgetAssumption, IInv, NEW c \in Callers, InterruptedWaiting(c)
  PROVE  IInv'
<1> DEFINE k == [Ended(call[c], "RAISED") EXCEPT !.pc = "done"]
<1>1. /\ call[c].pc = "entering" /\ call[c].pc \notin Locked
      /\ lock # c /\ process[c] = "absent"
  BY RecordOf DEF InterruptedWaiting, IInv, LockInv, Locked, InSession, ProcessFits
<1>2. "RAISED" \in Results /\ "absent" \in ProcessStates \ {"running"}
  BY DEF Results, ProcessStates
<1>3. k \in Calls /\ CallInv(k) /\ ProcessFits(k, "absent") /\ k.pc \notin Locked
  BY <1>2, EndedRecord
<1>4. Ended(call[c], "RAISED") = k
  BY EndedIsDone
<1> HIDE DEF k
<1>5. call' = [o \in Callers |-> call'[o]] /\ call'[c] = k
      /\ \A o \in Callers \ {c} : call'[o] = call[o]
  BY <1>4 DEF InterruptedWaiting, IInv, TypeOK
<1>6. process' = [process EXCEPT ![c] = "absent"] /\ lock' = lock
  BY <1>1 DEF InterruptedWaiting, IInv, TypeOK
<1> QED
  BY <1>1, <1>2, <1>3, <1>5, <1>6, RecordReplaced

LEMMA CutShortKeeps ==
  ASSUME BudgetAssumption, IInv, NEW c \in Callers, CutShort(c)
  PROVE  IInv'
<1> DEFINE k == [Ended(call[c], "RAISED") EXCEPT !.pc = "cut"]
<1>1. call[c].pc \in InSession /\ lock' = lock /\ "RAISED" \in Results
  BY DEF CutShort, InSession, Results
<1>2. PICK d \in (IF call[c].pc = "undoing" THEN QuitTimes ELSE {0}) :
        call' = [Elapse(d) EXCEPT ![c] = [Ended(@, "RAISED") EXCEPT !.pc = "cut"]]
  BY DEF CutShort
<1>3. d \in Nat
  BY RecordOf DEF QuitTimes
<1>4. PICK s \in AfterInterruption(c) : process' = [process EXCEPT ![c] = s]
  BY DEF CutShort
<1>5. s \in ProcessStates \ {"running"}
  BY RecordOf DEF AfterInterruption, ProcessStates
<1>6. k \in Calls /\ CallInv(k) /\ ProcessFits(k, s) /\ k.pc \in Locked
  BY <1>1, <1>5, EndedRecord
<1>7. call' = [Elapse(d) EXCEPT ![c] = k]
  <2>1. Elapse(d)[c] = Later(call[c], d) /\ Elapse(d) = [o \in Callers |-> Elapse(d)[o]]
    BY <1>1, <1>3, ElapsedRecords
  <2>2. Ended(Later(call[c], d), "RAISED") = Ended(call[c], "RAISED")
    BY RecordOf DEF Ended, Later, Calls
  <2> QED
    BY <1>2, <2>1, <2>2
<1> HIDE DEF k
<1> QED
  BY <1>1, <1>3, <1>4, <1>5, <1>6, <1>7, SessionStep

LEMMA ProcessEndsKeeps ==
  ASSUME BudgetAssumption, IInv, NEW c \in Callers, ProcessEnds(c)
  PROVE  IInv'
<1>1. /\ UNCHANGED <<call, lock>> /\ process[c] \in {"told", "lost"}
      /\ process' = [process EXCEPT ![c] = "absent"]
  BY DEF ProcessEnds
<1>2. \A o \in Callers : process'[o] = process[o] \/ (o = c /\ process'[o] = "absent")
  BY <1>1 DEF IInv, TypeOK
<1>3. TypeOK'
  BY <1>1 DEF IInv, TypeOK, ProcessStates
<1>4. (\A o \in Callers : CallInv(call[o]))' /\ LockInv'
  BY <1>1 DEF IInv, LockInv, CallInv, GameAdmitted, NothingYet, RecordsJoin, PositionsLeft,
       ResultTells, LimitFits
<1>5. (\A o \in Callers : ProcessFits(call[o], process[o]))'
  <2>1. \A o \in Callers : ProcessFits(call[o], process[o])
    BY DEF IInv
  <2> QED
    BY <1>1, <1>2, <2>1 DEF ProcessFits, Working
<1> QED
  BY <1>3, <1>4, <1>5 DEF IInv

-----------------------------------------------------------------------------
LEMMA NextKeeps ==
  ASSUME BudgetAssumption, IInv, [Next]_vars
  PROVE  IInv'
<1>1. CASE Next
  <2>1. PICK c \in Callers :
          \/ Step(c) \/ Interrupted(c) \/ ProcessEnds(c)
          \/ \E game \in Games[c] : Begin(c, game)
    BY <1>1 DEF Next
  <2>2. CASE \E game \in Games[c] : Begin(c, game)
    BY <2>2, BeginKeeps
  <2>3. CASE Step(c)
    BY <2>3, AcquireKeeps, LaunchKeeps, ConfigureKeeps, EnterFailsKeeps, BudgetExhaustedKeeps,
       RequestKeeps, AnswerKeeps, EngineFailsKeeps, InvalidateKeeps, ExitKeeps, LeaveKeeps DEF Step
  <2>4. CASE Interrupted(c)
    BY <2>4, InterruptedWaitingKeeps, EnterFailsKeeps, InterruptedAnalysisKeeps, InvalidateKeeps,
       ExitKeeps, CutShortKeeps DEF Interrupted
  <2>5. CASE ProcessEnds(c)
    BY <2>5, ProcessEndsKeeps
  <2> QED
    BY <2>1, <2>2, <2>3, <2>4, <2>5
<1>2. CASE UNCHANGED vars
  BY <1>2 DEF vars, IInv, TypeOK, CallInv, GameAdmitted, NothingYet, RecordsJoin, PositionsLeft,
       ResultTells, LimitFits, LockInv, ProcessFits
<1> QED
  BY <1>1, <1>2

(* The inductive invariant of the calls on one engine object.              *)
THEOREM CallsInvariant == Spec => []IInv
<1>1. Init => IInv
  BY BudgetAssumption, InitHolds
<1>2. IInv /\ [Next]_vars => IInv'
  BY BudgetAssumption, NextKeeps
<1> QED
  BY <1>1, <1>2, PTL DEF Spec

(* Records of calls, the lock and the processes keep values of their kind: *)
(* no request exceeds the time of a position (FullGameAnalyzer.analyse).   *)
THEOREM CallTypes == Spec => []TypeOK
<1>1. IInv => TypeOK
  BY DEF IInv
<1> QED
  BY <1>1, CallsInvariant, PTL

(* StockfishAnalysisSession: a call that ends releases the lock, unless it  *)
(* was cut short where no handler does.  A process that was neither told   *)
(* to quit nor lost to an exception from outside belongs to the holder of  *)
(* the lock, whatever failed before, and was started for a game that is    *)
(* over.                                                                   *)
THEOREM SessionsCleanUp == Spec => []NothingLeftBehind
<1>1. IInv => NothingLeftBehind
  <2>1. SUFFICES ASSUME IInv
                 PROVE  NothingLeftBehind
    OBVIOUS
  <2>2. \A c \in Callers : (lock = c) <=> (call[c].pc \in InSession \cup {"cut"})
    BY <2>1 DEF IInv, LockInv, Locked
  <2>3. ASSUME NEW c \in Callers
        PROVE  /\ process[c] = "running" => lock = c
               /\ call[c].pc = "analysing" => process[c] = "running"
               /\ process[c] # "absent" => ExecutionAllowed(call[c].game)
    <3>1. ProcessFits(call[c], process[c]) /\ call[c] \in Calls
      BY <2>1, BudgetAssumption, RecordOf
    <3>2. process[c] = "running" => call[c].pc \in InSession
      BY <3>1 DEF ProcessFits, InSession, Calls
    <3> QED
      BY <2>2, <3>1, <3>2 DEF ProcessFits, Working, Authorized
  <2> QED
    BY <2>2, <2>3 DEF NothingLeftBehind
<1> QED
  BY <1>1, CallsInvariant, PTL

(* FullGameAnalyzer.analyse: whatever the process does, what a call        *)
(* returns is a prefix of the game without a gap, complete exactly when it *)
(* says so.                                                                *)
THEOREM ResultsArePrefixes == Spec => []ResultIsPrefix
<1>1. IInv => ResultIsPrefix
  BY DEF IInv, CallInv, RecordsJoin, ResultTells, ResultIsPrefix, Leaving
<1> QED
  BY <1>1, CallsInvariant, PTL

(* FullGameAnalysisBudget: for every budget, a call that has asked the     *)
(* engine is over two command timeouts after the budget of its game: one   *)
(* for the last answer, and one in which the process may not even quit.    *)
THEOREM BudgetsBoundTheEngine == Spec => []EngineTimeBounded
<1>1. IInv => EngineTimeBounded
  BY DEF IInv, CallInv, LimitFits, EngineTimeBounded, Working
<1> QED
  BY <1>1, CallsInvariant, PTL

(* The evaluations of a call that reached the end of its game are those of *)
(* a complete game: one for every position, in order, each with a score    *)
(* that the validator of StockfishScore lets through.                      *)
LEMMA CompleteCalls ==
  ASSUME BudgetAssumption, IInv, NEW c \in Callers,
         call[c].result = "COMPLETE", call[c].pc = "exit"
  PROVE  CompleteGame(call[c].evaluations)
<1> DEFINE evs == call[c].evaluations
           Recorded == [ply : 0 .. MaxMoves, score : Scores, played : BOOLEAN]
<1>1. call[c] \in Calls /\ CallInv(call[c]) /\ MaxMoves \in Nat
  BY RecordOf
<1>2. evs \in Seq(Recorded)
  BY <1>1 DEF Calls
<1>3. Recorded \subseteq Evaluations
  <2>1. Scores \subseteq StockfishScores
    BY DEF Scores, BudgetAssumption
  <2>2. 0 .. MaxMoves \subseteq Nat
    BY <1>1
  <2> QED
    BY <2>1, <2>2 DEF Evaluations
<1>4. evs \in Seq(Evaluations)
  <2> HIDE DEF evs, Recorded
  <2> QED
    BY <1>2, <1>3
<1>5. \A i \in 1 .. Len(evs) : evs[i].ply = i - 1
  BY <1>1 DEF CallInv, RecordsJoin, ValidRecords
<1>6. Len(evs) > 0
  <2>1. Len(evs) = call[c].game.moves + 1 /\ call[c].game.moves \in Nat
    BY <1>1, RecordOf DEF CallInv, ResultTells, Leaving, InSession
  <2> QED
    BY <2>1
<1> QED
  BY <1>4, <1>5, <1>6 DEF CompleteGame

(* MoveClassificationService and GameMetricAggregationService: the report  *)
(* of every call that completes is fair, whatever the process answered.    *)
THEOREM ReportsStayFair == Spec => []ReportIsFair
<1>1. IInv => ReportIsFair
  BY BudgetAssumption, CompleteCalls, ReportsAreFair DEF ReportIsFair
<1> QED
  BY <1>1, CallsInvariant, PTL
=============================================================================
