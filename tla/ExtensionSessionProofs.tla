----------------------- MODULE ExtensionSessionProofs -----------------------
(***************************************************************************)
(* Proofs about ExtensionSession, for any number of games and of handlers  *)
(* of the service worker.                                                  *)
(*                                                                         *)
(* Almost every step that writes the session commits it (Commit), so the   *)
(* part of the invariant that is about the session, SessionInv, follows    *)
(* from what is committed (Committed); a step that does not write it keeps *)
(* SessionInv unless it ends the handler of a login (SessionStays).  The   *)
(* one exception is Exchanged, which sets a token and stores nothing.      *)
(***************************************************************************)
EXTENDS ExtensionSession, TLAPS

TokenPairs == [user : BOOLEAN, extension : BOOLEAN]
CallStates == [about : Ids, pc : {"idle", "login", "logout", "queue", "job",
                 "result", "consent", "extend", "cancel", "ingest"}]
PageStates == [game : Games, phase : PagePhases, long : BOOLEAN, watched : BOOLEAN,
                 status : BOOLEAN, submitted : Ids, sending : Calls \cup {None}]
PopupStates == [open : BOOLEAN, call : Calls \cup {None}, paired : BOOLEAN, phase : Phases]

(* The ids of a session belong together, and a live session has none.      *)
Coherent(v) ==
  /\ v.jobId = v.gameId /\ v.sourceGameId = v.gameId
  /\ v.phase = "LIVE" => v = View(v.paired, "LIVE")

LoginEnding == \E c \in Calls : call[c].pc = "logout"

(* What is stored is the session, with both tokens; and unless a login is  *)
(* between its tokens, a complete session is stored.                       *)
StoredIsSession == stored.paired => stored = view /\ tokens.user /\ tokens.extension
SessionIsStored ==
  view.paired /\ tokens.user /\ tokens.extension /\ ~LoginEnding => stored = view

SessionInv ==
  /\ view \in Views /\ Coherent(view)
  /\ stored \in {v \in Views : v.paired} \cup {NewView} /\ Coherent(stored)
  /\ tokens \in TokenPairs
  /\ StoredIsSession
  /\ SessionIsStored

HandlerTypes ==
  /\ call \in [Calls -> CallStates]
  /\ page \in PageStates
  /\ popup \in PopupStates

IInv == SessionInv /\ HandlerTypes

-----------------------------------------------------------------------------
(* Sessions that handlers commit.                                          *)
LEMMA FreshView ==
  ASSUME NEW p \in BOOLEAN, NEW phase \in Phases
  PROVE  View(p, phase) \in Views /\ Coherent(View(p, phase))
BY DEF View, Views, Ids, Coherent

LEMMA ClearedView ==
  NewView \in Views /\ Coherent(NewView) /\ NoTokens \in TokenPairs
BY FreshView DEF NewView, NoTokens, TokenPairs, Phases

(* A session that goes to another phase than LIVE may change its pairing   *)
(* and its result with it.                                                 *)
LEMMA PatchedView ==
  ASSUME NEW v \in Views, Coherent(v), NEW phase \in Phases \ {"LIVE"}
  PROVE  /\ [v EXCEPT !.phase = phase] \in Views /\ Coherent([v EXCEPT !.phase = phase])
         /\ \A p \in BOOLEAN :
              /\ [v EXCEPT !.paired = p, !.phase = phase] \in Views
              /\ Coherent([v EXCEPT !.paired = p, !.phase = phase])
         /\ \A id \in Ids :
              /\ [v EXCEPT !.phase = phase, !.result = id] \in Views
              /\ Coherent([v EXCEPT !.phase = phase, !.result = id])
BY DEF Views, Coherent

LEMMA ReceivedView ==
  ASSUME NEW v \in Views, NEW id \in Ids, NEW phase \in Phases \ {"LIVE"}
  PROVE  LET k == [WithIds(v, id) EXCEPT !.phase = phase] IN k \in Views /\ Coherent(k)
BY DEF Views, Coherent, WithIds

(* What a commit leaves, in the worker and in the storage.                 *)
LEMMA Committed ==
  ASSUME NEW v \in Views, Coherent(v), NEW t \in TokenPairs, Commit(v, t)
  PROVE  SessionInv'
<1>1. view' = v /\ tokens' = t
      /\ stored' = (IF t.user /\ t.extension /\ v.paired THEN v ELSE NewView)
  BY DEF Commit, Persisted
<1>2. ~NewView.paired
  BY DEF NewView, View
<1>3. CASE t.user /\ t.extension /\ v.paired
  BY <1>1, <1>3 DEF SessionInv, StoredIsSession, SessionIsStored
<1>4. CASE ~(t.user /\ t.extension /\ v.paired)
  BY <1>1, <1>2, <1>4, ClearedView DEF SessionInv, StoredIsSession, SessionIsStored
<1> QED
  BY <1>3, <1>4

(* A step that writes nothing of the session leaves no login unfinished.   *)
LEMMA SessionStays ==
  ASSUME SessionInv, UNCHANGED <<view, tokens, stored>>, LoginEnding => LoginEnding'
  PROVE  SessionInv'
BY DEF SessionInv, StoredIsSession, SessionIsStored

(* Handlers and the popup.                                                 *)
LEMMA HandlerMoves ==
  ASSUME HandlerTypes, NEW c \in Calls, NEW k \in CallStates, call' = [call EXCEPT ![c] = k]
  PROVE  /\ call' \in [Calls -> CallStates]
         /\ call[c].pc # "logout" => (LoginEnding => LoginEnding')
  BY DEF HandlerTypes, LoginEnding

LEMMA Ending ==
  ASSUME HandlerTypes, NEW c \in Calls, Ends(c)
  PROVE  /\ call' \in [Calls -> CallStates]
         /\ call[c].pc # "logout" => (LoginEnding => LoginEnding')
<1>1. Idle \in CallStates
  BY DEF Idle, CallStates, Ids
<1> QED
  BY <1>1, HandlerMoves DEF Ends

LEMMA Going ==
  ASSUME HandlerTypes, NEW c \in Calls, NEW pc, NEW about \in Ids, Goes(c, pc, about),
         pc \in {"idle", "login", "logout", "queue", "job", "result", "consent", "extend",
                 "cancel", "ingest"}
  PROVE  /\ call' \in [Calls -> CallStates]
         /\ call[c].pc # "logout" => (LoginEnding => LoginEnding')
<1>1. [pc |-> pc, about |-> about] \in CallStates
  BY DEF CallStates
<1> QED
  BY <1>1, HandlerMoves DEF Goes

LEMMA PopupMoves ==
  ASSUME HandlerTypes, NEW c \in Calls, NEW v \in Views,
         \/ Wait(c) \/ Shows(v) \/ ShowsError \/ Answer(c, v) \/ AnswerError(c)
         \/ popup' = popup
  PROVE  popup' \in PopupStates
<1>1. popup \in PopupStates /\ v.paired \in BOOLEAN /\ v.phase \in Phases /\ "ERROR" \in Phases
  BY DEF HandlerTypes, Views, Phases
<1>2. /\ [popup EXCEPT !.call = c] \in PopupStates
      /\ [popup EXCEPT !.call = None, !.paired = v.paired, !.phase = v.phase] \in PopupStates
      /\ [popup EXCEPT !.call = None, !.phase = "ERROR"] \in PopupStates
  BY <1>1 DEF PopupStates
<1>3. CASE Wait(c) \/ popup' = popup
  BY <1>1, <1>2, <1>3 DEF Wait
<1>4. CASE Shows(v) \/ ShowsError
  BY <1>2, <1>4 DEF Shows, ShowsError
<1>5. CASE Answer(c, v)
  BY <1>1, <1>2, <1>5 DEF Shows, Answer
<1>6. CASE AnswerError(c)
  BY <1>1, <1>2, <1>6 DEF ShowsError, AnswerError
<1> QED
  BY <1>3, <1>4, <1>5, <1>6

-----------------------------------------------------------------------------
(* The popup and its commands.                                             *)
LEMMA PopupKeeps ==
  ASSUME IInv, OpenPopup \/ ClosePopup
  PROVE  IInv'
<1>1. UNCHANGED <<view, tokens, stored, call, page>>
  BY DEF OpenPopup, ClosePopup
<1>2. popup' \in PopupStates
  <2>1. CASE OpenPopup
    <3>1. TRUE \in BOOLEAN /\ view.paired \in BOOLEAN /\ view.phase \in Phases
      BY DEF IInv, SessionInv, Views
    <3> QED
      BY <2>1, <3>1 DEF OpenPopup, PopupStates
  <2>2. CASE ClosePopup
    BY <2>2, FALSE \in BOOLEAN DEF ClosePopup, Closed, PopupStates, Phases
  <2> QED
    BY <2>1, <2>2
<1>3. LoginEnding => LoginEnding'
  BY <1>1 DEF LoginEnding
<1> QED
  BY <1>1, <1>2, <1>3, SessionStays DEF IInv, HandlerTypes

LEMMA LoginKeeps ==
  ASSUME IInv, NEW c \in Calls, BeginLogin(c) \/ LoginFails(c)
  PROVE  IInv'
<1>1. Commit(NewView, NoTokens) /\ page' = page
  BY DEF BeginLogin, LoginFails
<1>2. SessionInv'
  BY <1>1, ClearedView, Committed
<1>3. call' \in [Calls -> CallStates]
  BY Ending, Going DEF BeginLogin, LoginFails, IInv, Ids
<1>4. popup' \in PopupStates
  BY PopupMoves DEF BeginLogin, LoginFails, IInv, SessionInv
<1> QED
  BY <1>1, <1>2, <1>3, <1>4 DEF IInv, HandlerTypes

LEMMA ExchangedKeeps ==
  ASSUME IInv, NEW c \in Calls, Exchanged(c)
  PROVE  IInv'
<1>1. /\ tokens' = [tokens EXCEPT !.extension = TRUE] /\ Goes(c, "logout", None)
      /\ UNCHANGED <<view, stored, page, popup>>
  BY DEF Exchanged
<1>2. call' \in [Calls -> CallStates]
  BY <1>1, Going DEF IInv, Ids
<1>3. LoginEnding'
  BY <1>1 DEF Goes, LoginEnding, IInv, HandlerTypes
<1>4. tokens' \in TokenPairs /\ tokens'.user = tokens.user /\ tokens'.extension
  BY <1>1 DEF IInv, SessionInv, TokenPairs
<1>5. SessionInv'
  BY <1>1, <1>3, <1>4 DEF IInv, SessionInv, StoredIsSession, SessionIsStored
<1> QED
  BY <1>1, <1>2, <1>5 DEF IInv, HandlerTypes

LEMMA PairedKeeps ==
  ASSUME IInv, NEW c \in Calls, Paired(c)
  PROVE  IInv'
<1> DEFINE v == [view EXCEPT !.paired = TRUE, !.phase = "READY"]
           t == [tokens EXCEPT !.user = TRUE]
<1>1. Commit(v, t) /\ Answer(c, v) /\ Ends(c) /\ page' = page
  BY DEF Paired
<1>2. v \in Views /\ Coherent(v)
  BY PatchedView DEF IInv, SessionInv, Phases
<1>3. t \in TokenPairs
  BY DEF IInv, SessionInv, TokenPairs
<1> HIDE DEF v, t
<1>4. SessionInv'
  BY <1>1, <1>2, <1>3, Committed
<1> QED
  BY <1>1, <1>2, <1>4, Ending, PopupMoves DEF IInv, HandlerTypes

LEMMA DisconnectKeeps ==
  ASSUME IInv, Disconnect
  PROVE  IInv'
<1>1. Commit(NewView, NoTokens) /\ Shows(NewView) /\ UNCHANGED <<call, page>>
  BY DEF Disconnect
<1>2. popup' \in PopupStates
  BY <1>1, ClearedView DEF Shows, PopupStates, Views, IInv, HandlerTypes
<1>3. SessionInv'
  BY <1>1, ClearedView, Committed
<1> QED
  BY <1>1, <1>2, <1>3 DEF IInv, HandlerTypes

LEMMA AnalyzeAnotherGameKeeps ==
  ASSUME IInv, AnalyzeAnotherGame
  PROVE  IInv'
<1>1. UNCHANGED <<call, page>>
  BY DEF AnalyzeAnotherGame
<1>2. Prepared(view) \in Views /\ Coherent(Prepared(view)) /\ tokens \in TokenPairs
  BY FreshView DEF Prepared, Phases, IInv, SessionInv
<1>3. SessionInv'
  <2>1. CASE view.paired
    BY <2>1, <1>2, Committed DEF AnalyzeAnotherGame
  <2>2. CASE ~view.paired
    BY <2>2, <1>1, SessionStays DEF AnalyzeAnotherGame, LoginEnding, IInv
  <2> QED
    BY <2>1, <2>2
<1>4. popup' \in PopupStates
  BY <1>2 DEF AnalyzeAnotherGame, Shows, ShowsError, PopupStates, Views, IInv, HandlerTypes, Phases
<1> QED
  BY <1>1, <1>3, <1>4 DEF IInv, HandlerTypes

LEMMA BeginRefreshKeeps ==
  ASSUME IInv, NEW c \in Calls, BeginRefresh(c)
  PROVE  IInv'
<1>1. UNCHANGED <<view, tokens, stored, page>> /\ call[c].pc = "idle"
  BY DEF BeginRefresh
<1>2. view \in Views /\ view.gameId \in Ids /\ view.jobId \in Ids
  BY DEF IInv, SessionInv, Views
<1>3. \/ Goes(c, "queue", view.gameId) \/ Goes(c, "job", view.jobId) \/ call' = call
  BY DEF BeginRefresh
<1>4. call' \in [Calls -> CallStates] /\ (LoginEnding => LoginEnding')
  <2>1. CASE call' = call
    BY <2>1 DEF IInv, HandlerTypes, LoginEnding
  <2>2. CASE Goes(c, "queue", view.gameId)
    BY <2>2, <1>1, <1>2, Going DEF IInv
  <2>3. CASE Goes(c, "job", view.jobId)
    BY <2>3, <1>1, <1>2, Going DEF IInv
  <2> QED
    BY <1>3, <2>1, <2>2, <2>3
<1>5. popup' \in PopupStates
  BY <1>2, PopupMoves DEF BeginRefresh, IInv
<1> QED
  BY <1>1, <1>4, <1>5, SessionStays DEF IInv, HandlerTypes

(* A handler passes on to the next request, or gives up.                   *)
LEMMA PassesOn ==
  ASSUME IInv, NEW c \in Calls, LeftQueue(c) \/ JobSucceeded(c) \/ RequestFails(c)
  PROVE  IInv'
<1>1. UNCHANGED <<view, tokens, stored, page>> /\ call[c].pc # "logout"
  BY DEF LeftQueue, JobSucceeded, RequestFails
<1>2. view \in Views /\ view.gameId \in Ids /\ view.jobId \in Ids
  BY DEF IInv, SessionInv, Views
<1>3. call' \in [Calls -> CallStates] /\ (LoginEnding => LoginEnding')
  <2>1. CASE Goes(c, "job", view.jobId)
    BY <2>1, <1>1, <1>2, Going DEF IInv
  <2>2. CASE Goes(c, "result", view.gameId)
    BY <2>2, <1>1, <1>2, Going DEF IInv
  <2>3. CASE Ends(c)
    BY <2>3, <1>1, Ending DEF IInv
  <2> QED
    BY <2>1, <2>2, <2>3 DEF LeftQueue, JobSucceeded, RequestFails
<1>4. popup' \in PopupStates
  BY <1>2, PopupMoves DEF LeftQueue, JobSucceeded, RequestFails, IInv
<1> QED
  BY <1>1, <1>3, <1>4, SessionStays DEF IInv, HandlerTypes

(* An answer is committed into the session that there is by then.          *)
LEMMA AnswerCommitted ==
  ASSUME IInv, NEW c \in Calls, NEW v \in Views, Coherent(v),
         Commit(v, tokens), Answer(c, v), Ends(c), page' = page
  PROVE  IInv'
<1>1. SessionInv'
  BY Committed DEF IInv, SessionInv
<1> QED
  BY <1>1, Ending, PopupMoves DEF IInv, HandlerTypes

LEMMA AnswersKeep ==
  ASSUME IInv, NEW c \in Calls,
         StillQueued(c) \/ JobStatus(c) \/ ResultArrives(c) \/ QueueActionDone(c)
  PROVE  IInv'
<1>1. view \in Views /\ Coherent(view)
  BY DEF IInv, SessionInv
<1>2. CASE StillQueued(c)
  BY <1>1, <1>2, AnswerCommitted DEF StillQueued
<1>3. CASE JobStatus(c)
  <2>1. PICK status \in {"PENDING", "CLAIMED", "FAILED", "CANCELLED"} :
          Commit([view EXCEPT !.phase = JobPhase(status)], tokens)
          /\ Answer(c, [view EXCEPT !.phase = JobPhase(status)])
    BY <1>3 DEF JobStatus
  <2>2. JobPhase(status) \in Phases \ {"LIVE"}
    BY DEF JobPhase, Phases
  <2>3. Ends(c) /\ page' = page
    BY <1>3 DEF JobStatus
  <2> QED
    BY <2>1, <2>2, <2>3, <1>1, PatchedView, AnswerCommitted
<1>4. CASE ResultArrives(c)
  <2> DEFINE v == [view EXCEPT !.phase = "AVAILABLE", !.result = call[c].about]
  <2>1. Commit(v, tokens) /\ Answer(c, v) /\ Ends(c) /\ page' = page
    BY <1>4 DEF ResultArrives
  <2>2. call[c].about \in Ids /\ "AVAILABLE" \in Phases \ {"LIVE"}
    BY DEF IInv, HandlerTypes, CallStates, Phases
  <2>3. v \in Views /\ Coherent(v)
    BY <2>2, <1>1, PatchedView
  <2> HIDE DEF v
  <2> QED
    BY <2>1, <2>3, AnswerCommitted
<1>5. CASE QueueActionDone(c)
  <2>1. PICK queueState \in ActionStates :
          Commit([view EXCEPT !.phase = ActionPhase(call[c].pc, queueState)], tokens)
          /\ Answer(c, [view EXCEPT !.phase = ActionPhase(call[c].pc, queueState)])
    BY <1>5 DEF QueueActionDone
  <2>2. ActionPhase(call[c].pc, queueState) \in Phases \ {"LIVE"}
    BY DEF ActionPhase, Phases
  <2>3. Ends(c) /\ page' = page
    BY <1>5 DEF QueueActionDone
  <2> QED
    BY <2>1, <2>2, <2>3, <1>1, PatchedView, AnswerCommitted
<1> QED
  BY <1>2, <1>3, <1>4, <1>5

LEMMA BeginQueueActionKeeps ==
  ASSUME IInv, NEW c \in Calls, NEW action \in {"consent", "extend", "cancel"},
         BeginQueueAction(c, action)
  PROVE  IInv'
<1>1. UNCHANGED <<view, tokens, stored, page>> /\ call[c].pc = "idle"
  BY DEF BeginQueueAction
<1>2. view \in Views /\ view.jobId \in Ids
  BY DEF IInv, SessionInv, Views
<1>3. call' \in [Calls -> CallStates] /\ (LoginEnding => LoginEnding')
  <2>1. CASE call' = call
    BY <2>1 DEF IInv, HandlerTypes, LoginEnding
  <2>2. CASE Goes(c, action, view.jobId)
    BY <2>2, <1>1, <1>2, Going DEF IInv
  <2> QED
    BY <2>1, <2>2 DEF BeginQueueAction
<1>4. popup' \in PopupStates
  BY <1>2, PopupMoves DEF BeginQueueAction, IInv
<1> QED
  BY <1>1, <1>3, <1>4, SessionStays DEF IInv, HandlerTypes

-----------------------------------------------------------------------------
(* The page.                                                               *)
LEMMA PageKinds ==
  ASSUME IInv
  PROVE  /\ page \in PageStates /\ page.game \in Ids /\ page.phase \in PagePhases
         /\ \A k \in PageStates : \A id \in Ids : [k EXCEPT !.submitted = id] \in PageStates
         /\ \A k \in PageStates : \A c \in Calls \cup {None} :
              [k EXCEPT !.sending = c] \in PageStates
BY DEF IInv, HandlerTypes, PageStates, Ids

LEMMA CapturedView ==
  ASSUME NEW v \in Views, Coherent(v), NEW phase, NEW id
  PROVE  Captured(v, phase, id) \in Views /\ Coherent(Captured(v, phase, id))
<1>1. v.paired \in BOOLEAN /\ {"LIVE", "READY"} \subseteq Phases
  BY DEF Views, Phases
<1> QED
  BY <1>1, FreshView DEF Captured, Live

LEMMA ConnectKeeps ==
  ASSUME IInv, Connect
  PROVE  IInv'
<1>1. view \in Views /\ Coherent(view) /\ tokens \in TokenPairs /\ call' = call
  BY DEF IInv, SessionInv, Connect
<1>2. CASE ~tokens.extension
  <2>1. UNCHANGED <<view, tokens, stored, page, call>> /\ ShowsError
    BY <1>2 DEF Connect
  <2>2. popup' \in PopupStates
    BY <2>1 DEF ShowsError, PopupStates, Phases, IInv, HandlerTypes
  <2> QED
    BY <2>1, <2>2, SessionStays DEF IInv, HandlerTypes, LoginEnding
<1>3. CASE tokens.extension
  <2> DEFINE v == Captured(view, page.phase, PathId)
  <2>1. Commit(v, tokens) /\ page' = Watched /\ Shows(v)
    BY <1>3 DEF Connect, Capture, Commit
  <2>2. v \in Views /\ Coherent(v)
    BY <1>1, CapturedView
  <2> HIDE DEF v
  <2>3. SessionInv'
    BY <2>1, <2>2, <1>1, Committed
  <2>4. page' \in PageStates
    <3>1. (page.phase = "UNKNOWN") \in BOOLEAN /\ TRUE \in BOOLEAN
      OBVIOUS
    <3> QED
      BY <2>1, <3>1 DEF Watched, PageStates, IInv, HandlerTypes
  <2>5. popup' \in PopupStates
    BY <2>1, <2>2 DEF Shows, PopupStates, Views, IInv, HandlerTypes
  <2> QED
    BY <2>3, <2>4, <2>5, <1>1 DEF IInv, HandlerTypes
<1> QED
  BY <1>2, <1>3

LEMMA AdapterStatusKeeps ==
  ASSUME IInv, AdapterStatus
  PROVE  IInv'
<1> DEFINE v == [view EXCEPT !.phase = "READY"]
<1>1. Commit(v, tokens) /\ page' = [page EXCEPT !.status = FALSE] /\ UNCHANGED <<call, popup>>
  BY DEF AdapterStatus
<1>2. v \in Views /\ Coherent(v) /\ tokens \in TokenPairs
  BY PatchedView DEF IInv, SessionInv, Phases
<1> HIDE DEF v
<1>3. SessionInv'
  BY <1>1, <1>2, Committed
<1>4. page' \in PageStates
  BY <1>1 DEF PageStates, IInv, HandlerTypes
<1> QED
  BY <1>1, <1>3, <1>4 DEF IInv, HandlerTypes

LEMMA SubmitKeeps ==
  ASSUME IInv, SubmitUnpaired \/ SubmitRepeated
  PROVE  IInv'
<1>1. page' = [page EXCEPT !.submitted = SourceId] /\ UNCHANGED <<call, popup>>
  BY DEF SubmitUnpaired, SubmitRepeated
<1>2. page' \in PageStates
  BY <1>1, PageKinds DEF SourceId
<1>3. CASE SubmitUnpaired
  <2> DEFINE v == [view EXCEPT !.paired = FALSE, !.phase = "ERROR"]
  <2>1. Commit(v, tokens)
    BY <1>3 DEF SubmitUnpaired
  <2>2. v \in Views /\ Coherent(v) /\ tokens \in TokenPairs
    BY PatchedView DEF IInv, SessionInv, Phases
  <2> HIDE DEF v
  <2>3. SessionInv'
    BY <2>1, <2>2, Committed
  <2> QED
    BY <2>3, <1>1, <1>2 DEF IInv, HandlerTypes
<1>4. CASE SubmitRepeated
  BY <1>1, <1>2, <1>4, SessionStays DEF SubmitRepeated, IInv, HandlerTypes, LoginEnding
<1> QED
  BY <1>3, <1>4

LEMMA BeginIngestKeeps ==
  ASSUME IInv, NEW c \in Calls, BeginIngest(c)
  PROVE  IInv'
<1> DEFINE v == [view EXCEPT !.phase = "INGESTING"]
<1>1. /\ Commit(v, tokens) /\ popup' = popup /\ Goes(c, "ingest", SourceId)
      /\ page' = [page EXCEPT !.submitted = SourceId, !.sending = c]
  BY DEF BeginIngest, Ingesting
<1>2. v \in Views /\ Coherent(v) /\ tokens \in TokenPairs
  BY PatchedView DEF IInv, SessionInv, Phases
<1> HIDE DEF v
<1>3. SessionInv'
  BY <1>1, <1>2, Committed
<1>4. SourceId \in Ids
  BY PageKinds DEF SourceId
<1>5. page' \in PageStates
  BY <1>1, <1>4 DEF PageStates, IInv, HandlerTypes
<1>6. call' \in [Calls -> CallStates]
  BY <1>1, <1>4, Going DEF IInv
<1> QED
  BY <1>1, <1>3, <1>5, <1>6 DEF IInv, HandlerTypes

LEMMA IngestEndsKeeps ==
  ASSUME IInv, NEW c \in Calls, IngestReceipt(c) \/ IngestFails(c)
  PROVE  IInv'
<1>1. Submitted(c) /\ Ends(c) /\ popup' = popup
  BY DEF IngestReceipt, IngestFails
<1>2. page' \in PageStates
  BY <1>1, PageKinds DEF Submitted
<1>3. call' \in [Calls -> CallStates]
  BY <1>1, Ending DEF IInv
<1>4. view \in Views /\ Coherent(view) /\ tokens \in TokenPairs /\ call[c].about \in Ids
  BY DEF IInv, SessionInv, HandlerTypes, CallStates
<1>5. SessionInv'
  <2>1. CASE IngestReceipt(c)
    <3>1. PICK queueState \in QueueStates :
            Commit([WithIds(view, call[c].about) EXCEPT !.phase = ReceiptPhase(queueState)], tokens)
      BY <2>1 DEF IngestReceipt
    <3>2. ReceiptPhase(queueState) \in Phases \ {"LIVE"}
      BY DEF ReceiptPhase, Phases
    <3> QED
      BY <3>1, <3>2, <1>4, ReceivedView, Committed
  <2>2. CASE IngestFails(c)
    <3> DEFINE v == [view EXCEPT !.phase = "ERROR"]
    <3>1. Commit(v, tokens)
      BY <2>2 DEF IngestFails
    <3>2. v \in Views /\ Coherent(v)
      BY <1>4, PatchedView DEF Phases
    <3> HIDE DEF v
    <3> QED
      BY <3>1, <3>2, <1>4, Committed
  <2> QED
    BY <2>1, <2>2
<1> QED
  BY <1>1, <1>2, <1>3, <1>5 DEF IInv, HandlerTypes

LEMMA PageMoves ==
  ASSUME IInv, PageChanges \/ Navigate
  PROVE  IInv'
<1>1. UNCHANGED <<view, tokens, stored, call, popup>>
  BY DEF PageChanges, Navigate
<1>2. page' \in PageStates
  <2>1. CASE PageChanges
    <3>1. PICK phase \in PagePhases : page' = [page EXCEPT !.phase = phase]
      BY <2>1 DEF PageChanges
    <3> QED
      BY <3>1 DEF PageStates, IInv, HandlerTypes
  <2>2. CASE Navigate
    <3>1. PICK g \in Games, p \in PagePhases, l \in BOOLEAN : page' = NewPage(g, p, l)
      BY <2>2 DEF Navigate
    <3> QED
      BY <3>1, FALSE \in BOOLEAN DEF NewPage, PageStates, Ids
  <2> QED
    BY <2>1, <2>2
<1> QED
  BY <1>1, <1>2, SessionStays DEF IInv, HandlerTypes, LoginEnding

(* The session that is stored comes back with both tokens, or nothing.     *)
LEMMA RestartKeeps ==
  ASSUME IInv, Restart
  PROVE  IInv'
<1> DEFINE v == IF stored.paired /\ Restorable(stored) THEN stored ELSE NewView
<1>1. /\ view' = v /\ stored' = v /\ call' = [c \in Calls |-> Idle]
      /\ tokens' = [user |-> v.paired, extension |-> v.paired]
      /\ page' = IF page.sending = None THEN page
                 ELSE [page EXCEPT !.sending = None, !.submitted = None]
      /\ popup' = IF popup.call = None THEN popup
                  ELSE [popup EXCEPT !.call = None, !.phase = "ERROR"]
  BY DEF Restart
<1>2. /\ v \in Views /\ Coherent(v) /\ v.paired \in BOOLEAN
      /\ v \in {k \in Views : k.paired} \cup {NewView}
  BY ClearedView DEF IInv, SessionInv, Views
<1> HIDE DEF v
<1>3. SessionInv'
  BY <1>1, <1>2 DEF SessionInv, StoredIsSession, SessionIsStored, TokenPairs
<1>4. call' \in [Calls -> CallStates]
  BY <1>1 DEF Idle, CallStates, Ids
<1>5. page' \in PageStates
  BY <1>1, PageKinds DEF PageStates, Ids
<1>6. popup' \in PopupStates
  BY <1>1 DEF PopupStates, IInv, HandlerTypes, Phases
<1> QED
  BY <1>3, <1>4, <1>5, <1>6 DEF IInv, HandlerTypes

-----------------------------------------------------------------------------
(* IInv is inductive.                                                      *)
LEMMA InitHolds == Init => IInv
<1> SUFFICES ASSUME Init PROVE IInv
  OBVIOUS
<1>1. view = NewView /\ stored = NewView /\ tokens = NoTokens /\ ~NewView.paired
  BY DEF Init, NewView, View
<1>2. SessionInv
  BY <1>1, ClearedView DEF SessionInv, StoredIsSession, SessionIsStored
<1>3. call \in [Calls -> CallStates]
  BY DEF Init, Idle, CallStates, Ids
<1>4. page \in PageStates
  <2>1. PICK g \in Games, p \in PagePhases, l \in BOOLEAN : page = NewPage(g, p, l)
    BY DEF Init
  <2> QED
    BY <2>1, FALSE \in BOOLEAN DEF NewPage, PageStates, Ids
<1>5. popup \in PopupStates
  BY FALSE \in BOOLEAN DEF Init, Closed, PopupStates, Phases
<1> QED
  BY <1>2, <1>3, <1>4, <1>5 DEF IInv, HandlerTypes

LEMMA NextKeeps == IInv /\ [Next]_vars => IInv'
<1> SUFFICES ASSUME IInv, [Next]_vars PROVE IInv'
  OBVIOUS
<1>1. CASE UNCHANGED vars
  BY <1>1, SessionStays DEF vars, IInv, HandlerTypes, LoginEnding
<1>2. CASE \/ OpenPopup \/ ClosePopup \/ Disconnect \/ AnalyzeAnotherGame
           \/ Connect \/ AdapterStatus \/ SubmitUnpaired \/ SubmitRepeated
           \/ PageChanges \/ Navigate \/ Restart
  BY <1>2, PopupKeeps, DisconnectKeeps, AnalyzeAnotherGameKeeps, ConnectKeeps,
     AdapterStatusKeeps, SubmitKeeps, PageMoves, RestartKeeps
<1>3. ASSUME NEW c \in Calls,
             \/ BeginLogin(c) \/ Exchanged(c) \/ Paired(c) \/ LoginFails(c)
             \/ BeginRefresh(c) \/ StillQueued(c) \/ LeftQueue(c) \/ JobStatus(c)
             \/ JobSucceeded(c) \/ ResultArrives(c) \/ RequestFails(c)
             \/ QueueActionDone(c) \/ BeginIngest(c) \/ IngestReceipt(c) \/ IngestFails(c)
      PROVE  IInv'
  BY <1>3, LoginKeeps, ExchangedKeeps, PairedKeeps, BeginRefreshKeeps, PassesOn,
     AnswersKeep, BeginIngestKeeps, IngestEndsKeeps
<1>4. ASSUME NEW c \in Calls, NEW action \in {"consent", "extend", "cancel"},
             BeginQueueAction(c, action)
      PROVE  IInv'
  BY <1>4, BeginQueueActionKeeps
<1> QED
  BY <1>1, <1>2, <1>3, <1>4 DEF Next

(* The session, what is stored of it and the tokens fit together in every  *)
(* reachable state (persist, restoreStoredSession, enterLiveSession and    *)
(* the handlers of service-worker.ts).                                     *)
THEOREM SessionInvariant == Spec => []IInv
BY InitHolds, NextKeeps, PTL DEF Spec

(* Type correctness; what is in the storage is a paired session or none.   *)
THEOREM SessionTypes == Spec => []TypeOK
<1>1. IInv => TypeOK
  BY DEF IInv, SessionInv, HandlerTypes, TypeOK, TokenPairs, CallStates, PageStates, PopupStates
<1> QED
  BY <1>1, SessionInvariant, PTL

(* The game, the job and the source that a session tracks come from one    *)
(* receipt of ingestCompletedGame, in the worker and in the storage.       *)
THEOREM IdsBelongTogether == Spec => []IdsFromOneReceipt
<1>1. IInv => IdsFromOneReceipt
  BY DEF IInv, SessionInv, Coherent, IdsFromOneReceipt
<1> QED
  BY <1>1, SessionInvariant, PTL

-----------------------------------------------------------------------------
(* While the session is live it has no ids, so a handler that moves has    *)
(* none to ask about.                                                      *)
AsksNothing ==
  \A c \in Calls : call'[c] # call[c] /\ call'[c].pc # "ingest" => call'[c].about = None

LEMMA OneAsksNothing ==
  ASSUME IInv, NEW c \in Calls, NEW k, call' = [call EXCEPT ![c] = k],
         k.about = None \/ k.pc = "ingest"
  PROVE  AsksNothing
BY DEF AsksNothing, IInv, HandlerTypes

LEMMA LiveAsksNothing ==
  ASSUME IInv, view.phase = "LIVE", [Next]_vars
  PROVE  AsksNothing
<1>1. view.gameId = None /\ view.jobId = None /\ ~Tracked(view)
  BY DEF IInv, SessionInv, Coherent, View, Tracked
<1>2. CASE call' = call
  BY <1>2 DEF AsksNothing
<1>3. ASSUME NEW c \in Calls, Ends(c)
      PROVE  AsksNothing
  BY <1>3, Idle.about = None, OneAsksNothing DEF Ends, Idle
<1>4. ASSUME NEW c \in Calls, NEW pc, Goes(c, pc, None)
      PROVE  AsksNothing
  BY <1>4, OneAsksNothing DEF Goes
<1>5. ASSUME NEW c \in Calls, BeginIngest(c)
      PROVE  AsksNothing
  BY <1>5, OneAsksNothing DEF BeginIngest, Goes
<1>6. CASE Restart
  BY <1>6 DEF Restart, Idle, AsksNothing
<1>7. CASE \/ OpenPopup \/ ClosePopup \/ Disconnect \/ AnalyzeAnotherGame
           \/ Connect \/ AdapterStatus \/ SubmitUnpaired \/ SubmitRepeated
           \/ PageChanges \/ Navigate \/ UNCHANGED vars
  BY <1>7, <1>2 DEF OpenPopup, ClosePopup, Disconnect, AnalyzeAnotherGame, Connect,
     AdapterStatus, SubmitUnpaired, SubmitRepeated, PageChanges, Navigate, vars
<1>8. ASSUME NEW c \in Calls,
             \/ Paired(c) \/ LoginFails(c) \/ StillQueued(c) \/ JobStatus(c)
             \/ ResultArrives(c) \/ RequestFails(c) \/ QueueActionDone(c)
             \/ IngestReceipt(c) \/ IngestFails(c)
      PROVE  AsksNothing
  BY <1>8, <1>3 DEF Paired, LoginFails, StillQueued, JobStatus, ResultArrives,
     RequestFails, QueueActionDone, IngestReceipt, IngestFails
<1>9. ASSUME NEW c \in Calls,
             BeginLogin(c) \/ Exchanged(c) \/ LeftQueue(c) \/ JobSucceeded(c)
      PROVE  AsksNothing
  BY <1>9, <1>1, <1>4 DEF BeginLogin, Exchanged, LeftQueue, JobSucceeded
<1>10. ASSUME NEW c \in Calls,
              BeginRefresh(c)
                \/ \E action \in {"consent", "extend", "cancel"} : BeginQueueAction(c, action)
       PROVE  AsksNothing
  BY <1>10, <1>1, <1>2 DEF BeginRefresh, BeginQueueAction
<1> QED
  BY <1>5, <1>6, <1>7, <1>8, <1>9, <1>10 DEF Next

(* enterLiveSession: a live session keeps nothing of an analysis, and no   *)
(* handler that moves meanwhile asks the API about a game.                 *)
THEOREM LiveStaysLocked == Spec => LiveIsLocked
<1>1. IInv /\ [Next]_vars =>
        (view.phase = "LIVE" => view = View(view.paired, "LIVE") /\ AsksNothing)
  BY LiveAsksNothing DEF IInv, SessionInv, Coherent
<1>2. IInv /\ [Next]_vars =>
        [view.phase = "LIVE" =>
           /\ view = View(view.paired, "LIVE")
           /\ \A c \in Calls : call'[c] # call[c] /\ call'[c].pc # "ingest" =>
                                  call'[c].about = None]_vars
  BY <1>1 DEF AsksNothing
<1> QED
  BY <1>2, SessionInvariant, PTL DEF Spec, LiveIsLocked

(* restoreStoredSession after persist: a restart keeps the session and its *)
(* tokens, or loses both, for one of the reasons that the code has.        *)
THEOREM RestartsKeepSessions == Spec => RestartKeepsSession
<1> DEFINE Reason == \/ ~view.paired \/ ~(tokens.user /\ tokens.extension)
                     \/ ~Restorable(view) \/ \E c \in Calls : call[c].pc = "logout"
<1>1. ASSUME IInv, Restart
      PROVE  (Kept \/ Lost) /\ (Lost => Reason)
  <2>1. ~NewView.paired /\ NewView.paired = FALSE
    BY DEF NewView, View
  <2>2. CASE stored.paired /\ Restorable(stored)
    <3>1. view' = stored /\ tokens' = [user |-> stored.paired, extension |-> stored.paired]
      BY <1>1, <2>2 DEF Restart
    <3>2. stored = view /\ tokens.user /\ tokens.extension /\ tokens \in TokenPairs
      BY <1>1, <2>2 DEF IInv, SessionInv, StoredIsSession
    <3>3. stored.paired = TRUE /\ tokens = [user |-> TRUE, extension |-> TRUE]
      BY <2>2, <3>2, <1>1 DEF TokenPairs, IInv, SessionInv, Views
    <3> QED
      BY <3>1, <3>2, <3>3, <2>1 DEF Kept, Lost
  <2>3. CASE ~(stored.paired /\ Restorable(stored))
    <3>1. view' = NewView /\ tokens' = [user |-> NewView.paired, extension |-> NewView.paired]
      BY <1>1, <2>3 DEF Restart
    <3>2. Reason
      BY <2>3, <1>1 DEF IInv, SessionInv, SessionIsStored, LoginEnding
    <3> HIDE DEF Reason
    <3> QED
      BY <3>1, <3>2, <2>1 DEF Lost, NoTokens
  <2> QED
    BY <2>2, <2>3
<1>2. IInv /\ [Next]_vars =>
        [Restart => (Kept \/ Lost) /\ (Lost => Reason)]_vars
  BY <1>1
<1> QED
  BY <1>2, SessionInvariant, PTL DEF Spec, RestartKeepsSession
=============================================================================
