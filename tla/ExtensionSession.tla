-------------------------- MODULE ExtensionSession --------------------------
(***************************************************************************)
(* The browser extension: the session that the service worker keeps and    *)
(* stores, the popup that shows it, and the script on a Lichess page that  *)
(* reports games.  The handlers of the service worker interleave wherever  *)
(* they wait for the API; a step between two waits is atomic and stores    *)
(* the session with the write that changes it.  The browser may stop the   *)
(* worker at any time.                                                     *)
(*                                                                         *)
(* The API may answer anything its contract allows, so the model keeps no  *)
(* state of it.  It names the game and the job of a source game after the  *)
(* source game.                                                            *)
(***************************************************************************)
EXTENDS Naturals, FiniteSets

CONSTANTS
  Games,       \* games on Lichess, by the id of eight characters
  Calls        \* handlers of the service worker that may run at once

CONSTANTS None, LongId     \* no game; the id of twelve characters of any game

VARIABLES
  view,        \* state: the session
  tokens,      \* userAccessToken and extensionAccessToken
  stored,      \* the session in chrome.storage, NewView when there is none
  call,        \* handlers in progress
  page,        \* the tab and its content script
  popup        \* what the popup shows, and the handler it waits for

vars == <<view, tokens, stored, call, page, popup>>

Phases == {"UNPAIRED", "READY", "LIVE", "INGESTING", "CONSENT_REQUIRED", "WAITING",
           "QUEUED", "RUNNING", "AVAILABLE", "FAILED", "CANCELLED", "ERROR"}

NoIds == [gameId |-> None, jobId |-> None, sourceGameId |-> None]

View(paired, phase) ==
  [paired |-> paired, phase |-> phase, gameId |-> None, jobId |-> None,
   sourceGameId |-> None, result |-> None]

NewView == View(FALSE, "UNPAIRED")

NoTokens == [user |-> FALSE, extension |-> FALSE]

Idle == [pc |-> "idle", about |-> None]

NewPage(g, phase, long) ==
  [game |-> g, phase |-> phase, long |-> long, watched |-> FALSE,
   status |-> FALSE, submitted |-> None, sending |-> None]

PagePhases == {"LIVE", "POST_GAME", "UNKNOWN"}

Closed == [open |-> FALSE, call |-> None, paired |-> FALSE, phase |-> "UNPAIRED"]

Init ==
  /\ view = NewView
  /\ tokens = NoTokens
  /\ stored = NewView
  /\ call = [c \in Calls |-> Idle]
  /\ page \in {NewPage(g, p, l) : g \in Games, p \in PagePhases, l \in BOOLEAN}
  /\ popup = Closed

Tracked(v) == v.gameId # None /\ v.jobId # None

(* persist *)
Persisted(v, t) == IF t.user /\ t.extension /\ v.paired THEN v ELSE NewView

Commit(v, t) ==
  /\ view' = v
  /\ tokens' = t
  /\ stored' = Persisted(v, t)

(* Defect: the source id is taken from the address of the page. *)
WithIdsOfPage(v, g) ==
  [v EXCEPT !.gameId = g, !.jobId = g, !.sourceGameId = IF page.long THEN LongId ELSE g]

(* A patch with the ids of a receipt and of the game that was submitted. *)
WithIds(v, g) == [v EXCEPT !.gameId = g, !.jobId = g, !.sourceGameId = g]

-----------------------------------------------------------------------------
(* The popup offers the buttons of the phase that it last heard of, which  *)
(* is not always the phase of the session.                                 *)
Offered ==
  IF ~popup.paired THEN {"login"}
  ELSE {"disconnect"}
       \cup (IF popup.phase = "READY" THEN {"connect"} ELSE {})
       \cup (IF popup.phase = "CONSENT_REQUIRED" THEN {"consent"} ELSE {})
       \cup (IF popup.phase = "WAITING" THEN {"extend", "cancel"} ELSE {})
       \cup (IF popup.phase \in {"QUEUED", "RUNNING", "WAITING", "FAILED", "ERROR"}
             THEN {"refresh"} ELSE {})
       \cup (IF popup.phase = "AVAILABLE" THEN {"another"} ELSE {})

Asked(action) == popup.open /\ popup.call = None /\ action \in Offered

(* run, and its timer: the popup sends one message at a time. *)
Wait(c) == popup' = [popup EXCEPT !.call = c]
Shows(v) == popup' = [popup EXCEPT !.call = None, !.paired = v.paired, !.phase = v.phase]
ShowsError == popup' = [popup EXCEPT !.call = None, !.phase = "ERROR"]

Answer(c, v) == IF popup.call = c THEN Shows(v) ELSE UNCHANGED popup
AnswerError(c) == IF popup.call = c THEN ShowsError ELSE UNCHANGED popup

OpenPopup ==
  /\ ~popup.open
  /\ popup' = [open |-> TRUE, call |-> None, paired |-> view.paired, phase |-> view.phase]
  /\ UNCHANGED <<view, tokens, stored, call, page>>

(* A closed popup forgets that it was waiting. *)
ClosePopup ==
  /\ popup.open
  /\ popup' = Closed
  /\ UNCHANGED <<view, tokens, stored, call, page>>

-----------------------------------------------------------------------------
Goes(c, pc, about) == call' = [call EXCEPT ![c] = [pc |-> pc, about |-> about]]
Ends(c) == call' = [call EXCEPT ![c] = Idle]

(* loginAndPair starts with disconnect. *)
BeginLogin(c) ==
  /\ Asked("login")
  /\ call[c].pc = "idle"
  /\ Commit(NewView, NoTokens)
  /\ Goes(c, "login", None)
  /\ Wait(c)
  /\ UNCHANGED page

(* login, create pairing, exchange *)
Exchanged(c) ==
  /\ call[c].pc = "login"
  /\ tokens' = [tokens EXCEPT !.extension = TRUE]
  /\ Goes(c, "logout", None)
  /\ UNCHANGED <<view, stored, page, popup>>

Paired(c) ==
  /\ call[c].pc = "logout"
  /\ LET v == [view EXCEPT !.paired = TRUE, !.phase = "READY"] IN
       Commit(v, [tokens EXCEPT !.user = TRUE]) /\ Answer(c, v)
  /\ Ends(c)
  /\ UNCHANGED page

LoginFails(c) ==
  /\ call[c].pc \in {"login", "logout"}
  /\ Commit(NewView, NoTokens)
  /\ AnswerError(c)
  /\ Ends(c)
  /\ UNCHANGED page

Disconnect ==
  /\ Asked("disconnect")
  /\ Commit(NewView, NoTokens)
  /\ Shows(NewView)
  /\ UNCHANGED <<call, page>>

(* prepareNextGame *)
Prepared(v) == View(TRUE, "READY")

AnalyzeAnotherGame ==
  /\ Asked("another")
  /\ IF view.paired
     THEN Commit(Prepared(view), tokens) /\ Shows(Prepared(view))
     ELSE UNCHANGED <<view, tokens, stored>> /\ ShowsError
  /\ UNCHANGED <<call, page>>

-----------------------------------------------------------------------------
(* refresh: it reads the ids again after every wait, and each answer       *)
(* changes what the session has become in the meantime.                    *)
BeginRefresh(c) ==
  /\ Asked("refresh")
  /\ call[c].pc = "idle"
  /\ IF Tracked(view) /\ tokens.extension
     THEN /\ IF view.phase \in {"WAITING", "CONSENT_REQUIRED"}
             THEN Goes(c, "queue", view.gameId)
             ELSE Goes(c, "job", view.jobId)
          /\ Wait(c)
     ELSE Shows(view) /\ UNCHANGED call
  /\ UNCHANGED <<view, tokens, stored, page>>

(* Still in the queue: only the position and the deadline are new. *)
StillQueued(c) ==
  /\ call[c].pc = "queue"
  /\ Commit(view, tokens)
  /\ Answer(c, view)
  /\ Ends(c)
  /\ UNCHANGED page

LeftQueue(c) ==
  /\ call[c].pc = "queue"
  /\ Goes(c, "job", view.jobId)
  /\ UNCHANGED <<view, tokens, stored, page, popup>>

(* parseJobStatus, and the phase that refresh gives to its value. *)
JobPhase(status) ==
  CASE status \in {"PENDING", "QUEUED", "RETRY_SCHEDULED"} -> "QUEUED"
    [] status \in {"CLAIMED", "RUNNING"}                   -> "RUNNING"
    [] status \in {"FAILED", "CANCELLED"}                  -> status

JobStatus(c) ==
  /\ call[c].pc = "job"
  /\ call[c].about # None
  /\ \E status \in {"PENDING", "CLAIMED", "FAILED", "CANCELLED"} :
       LET v == [view EXCEPT !.phase = JobPhase(status)] IN
         Commit(v, tokens) /\ Answer(c, v)
  /\ Ends(c)
  /\ UNCHANGED page

(* The result is asked for with the token of the user. *)
JobSucceeded(c) ==
  /\ call[c].pc = "job"
  /\ call[c].about # None
  /\ tokens.user
  /\ Goes(c, "result", view.gameId)
  /\ UNCHANGED <<view, tokens, stored, page, popup>>

(* The API releases the result of the game that was named. *)
ResultArrives(c) ==
  /\ call[c].pc = "result"
  /\ call[c].about # None
  /\ LET v == [view EXCEPT !.phase = "AVAILABLE", !.result = call[c].about] IN
       Commit(v, tokens) /\ Answer(c, v)
  /\ Ends(c)
  /\ UNCHANGED page

(* queueAction *)
BeginQueueAction(c, action) ==
  /\ action \in {"consent", "extend", "cancel"}
  /\ Asked(action)
  /\ call[c].pc = "idle"
  /\ IF view.jobId # None /\ tokens.user
     THEN Goes(c, action, view.jobId) /\ Wait(c)
     ELSE ShowsError /\ UNCHANGED call
  /\ UNCHANGED <<view, tokens, stored, page>>

(* The receipt of a queue action, and the phase that queueAction gives it. *)
ActionStates == {"ACTIVE", "WAITING", "CANCELLED"}

ActionPhase(action, queueState) ==
  CASE action = "cancel"        -> "CANCELLED"
    [] OTHER -> IF queueState = "WAITING" THEN "WAITING" ELSE "QUEUED"

QueueActionDone(c) ==
  /\ call[c].pc \in {"consent", "extend", "cancel"}
  /\ \E queueState \in ActionStates :
       LET v == [view EXCEPT !.phase = ActionPhase(call[c].pc, queueState)] IN
         Commit(v, tokens) /\ Answer(c, v)
  /\ Ends(c)
  /\ UNCHANGED page

(* A request of the popup fails, or its answer is not understood. *)
RequestFails(c) ==
  /\ call[c].pc \in {"queue", "job", "result", "consent", "extend", "cancel"}
  /\ AnswerError(c)
  /\ Ends(c)
  /\ UNCHANGED <<view, tokens, stored, page>>

-----------------------------------------------------------------------------
(* Defect: a live game keeps what the session tracks. *)
LiveKeepsIds(v) == [v EXCEPT !.phase = "LIVE"]

(* enterLiveSession *)
Live(v) == View(v.paired, "LIVE")

(* The first part of the path, which may carry a player's token. *)
PathId == IF page.long THEN LongId ELSE page.game

(* enterCaptureSession *)
Captured(v, phase, id) ==
  IF phase = "POST_GAME" /\ id = v.sourceGameId /\ Tracked(v) THEN v
  ELSE IF phase # "POST_GAME" THEN Live(v)
  ELSE View(v.paired, "READY")

(* Defect: the worker does not store the session that a capture leaves. *)
CaptureUnstored(v) == view' = v /\ UNCHANGED <<tokens, stored>>

Capture(v) == Commit(v, tokens)

(* connectCurrentTab, and the capture/started message that connectToLichess *)
(* sends.  The page cannot tell when its message is handled, so both are    *)
(* one step.  The page is watched from then on.                             *)
Watched == [page EXCEPT !.watched = TRUE, !.status = page.phase = "UNKNOWN"]

Connect ==
  /\ Asked("connect")
  /\ IF tokens.extension
     THEN /\ Capture(Captured(view, page.phase, PathId))
          /\ page' = Watched
          /\ Shows(view')
     ELSE ShowsError /\ UNCHANGED <<view, tokens, stored, page>>
  /\ UNCHANGED call

(* submitIfCompleted, which runs once at a time. *)
MayReport == page.watched /\ page.phase = "POST_GAME" /\ page.sending = None

(* capture/adapter-status: the page had no score when it was connected, or *)
(* its moves cannot be read although the game is over.                     *)
AdapterStatus ==
  /\ page.status \/ MayReport
  /\ Commit([view EXCEPT !.phase = "READY"], tokens)
  /\ page' = [page EXCEPT !.status = FALSE]
  /\ UNCHANGED <<call, popup>>

(* Defect: the source id is noted when the submission starts. *)
IngestingNotesSource(v, g) == [v EXCEPT !.phase = "INGESTING", !.sourceGameId = g]

Ingesting(v, g) == [v EXCEPT !.phase = "INGESTING"]

(* The first eight characters of the path. *)
SourceId == page.game

(* extractCompletedLichessGame has found a game that was not submitted. *)
Reports == MayReport /\ page.submitted # SourceId

(* ingestCompletedGame: the pairing is gone, *)
SubmitUnpaired ==
  /\ Reports
  /\ ~tokens.extension
  /\ Commit([view EXCEPT !.paired = FALSE, !.phase = "ERROR"], tokens)
  /\ page' = [page EXCEPT !.submitted = SourceId]
  /\ UNCHANGED <<call, popup>>

(* the game is the one that is tracked, *)
Repeated == view.sourceGameId = SourceId /\ Tracked(view)

SubmitRepeated ==
  /\ Reports
  /\ tokens.extension
  /\ Repeated
  /\ page' = [page EXCEPT !.submitted = SourceId]
  /\ UNCHANGED <<view, tokens, stored, call, popup>>

(* or it goes to the API. *)
BeginIngest(c) ==
  /\ Reports
  /\ tokens.extension
  /\ ~Repeated
  /\ call[c].pc = "idle"
  /\ Commit(Ingesting(view, SourceId), tokens)
  /\ page' = [page EXCEPT !.submitted = SourceId, !.sending = c]
  /\ Goes(c, "ingest", SourceId)
  /\ UNCHANGED popup

Submitted(c) == page' = IF page.sending = c THEN [page EXCEPT !.sending = None] ELSE page

(* parseIngestionReceipt, and the phase that a new game is given. *)
QueueStates == {"ACTIVE", "WAITING", "CONSENT_REQUIRED", "TERMINAL"}

ReceiptPhase(queueState) ==
  IF queueState \in {"WAITING", "CONSENT_REQUIRED"} THEN queueState ELSE "QUEUED"

IngestReceipt(c) ==
  /\ call[c].pc = "ingest"
  /\ \E queueState \in QueueStates :
       Commit([WithIds(view, call[c].about) EXCEPT !.phase = ReceiptPhase(queueState)], tokens)
  /\ Submitted(c)
  /\ Ends(c)
  /\ UNCHANGED popup

IngestFails(c) ==
  /\ call[c].pc = "ingest"
  /\ Commit([view EXCEPT !.phase = "ERROR"], tokens)
  /\ Submitted(c)
  /\ Ends(c)
  /\ UNCHANGED popup

-----------------------------------------------------------------------------
(* The game on the page ends, or the adapter loses or finds its score. *)
PageChanges ==
  /\ \E phase \in PagePhases \ {page.phase} :
       /\ page.phase = "POST_GAME" => phase = "UNKNOWN"
       /\ page' = [page EXCEPT !.phase = phase]
  /\ UNCHANGED <<view, tokens, stored, call, popup>>

(* The tab loads another page: its script is gone. *)
Navigate ==
  /\ page' \in {NewPage(g, p, l) : g \in Games, p \in PagePhases, l \in BOOLEAN}
  /\ UNCHANGED <<view, tokens, stored, call, popup>>

(* restoreStoredSession *)
Restorable(v) == v.phase = "AVAILABLE" <=> v.result # None

(* The worker is stopped, and started by the next message.  Handlers are   *)
(* lost; who waits for them gets an error.                                 *)
Restart ==
  LET v == IF stored.paired /\ Restorable(stored) THEN stored ELSE NewView IN
  /\ view' = v
  /\ stored' = v
  /\ tokens' = [user |-> v.paired, extension |-> v.paired]
  /\ call' = [c \in Calls |-> Idle]
  /\ page' = IF page.sending = None THEN page
             ELSE [page EXCEPT !.sending = None, !.submitted = None]
  /\ popup' = IF popup.call = None THEN popup
              ELSE [popup EXCEPT !.call = None, !.phase = "ERROR"]

Next ==
  \/ OpenPopup \/ ClosePopup \/ Disconnect \/ AnalyzeAnotherGame
  \/ Connect \/ AdapterStatus \/ SubmitUnpaired \/ SubmitRepeated
  \/ PageChanges \/ Navigate \/ Restart
  \/ \E c \in Calls :
       \/ BeginLogin(c) \/ Exchanged(c) \/ Paired(c) \/ LoginFails(c)
       \/ BeginRefresh(c) \/ StillQueued(c) \/ LeftQueue(c) \/ JobStatus(c)
       \/ JobSucceeded(c) \/ ResultArrives(c) \/ RequestFails(c)
       \/ \E action \in {"consent", "extend", "cancel"} : BeginQueueAction(c, action)
       \/ QueueActionDone(c) \/ BeginIngest(c) \/ IngestReceipt(c) \/ IngestFails(c)

Spec == Init /\ [][Next]_vars
-----------------------------------------------------------------------------
Ids == Games \cup {None}

Views == [paired : BOOLEAN, phase : Phases, gameId : Ids, jobId : Ids,
          sourceGameId : Ids, result : Ids]

(* Type invariant.  The source id of a session is never one of a path. *)
TypeOK ==
  /\ view \in Views
  /\ stored \in {v \in Views : v.paired} \cup {NewView}
  /\ tokens \in [user : BOOLEAN, extension : BOOLEAN]
  /\ call \in [Calls -> [about : Ids, pc : {"idle", "login", "logout", "queue", "job",
                  "result", "consent", "extend", "cancel", "ingest"}]]
  /\ page \in [game : Games, phase : PagePhases, long : BOOLEAN, watched : BOOLEAN,
                status : BOOLEAN, submitted : Ids, sending : Calls \cup {None}]
  /\ popup \in [open : BOOLEAN, call : Calls \cup {None}, paired : BOOLEAN, phase : Phases]

(* service-worker.ts: whatever captures, answers and restarts come between *)
(* a submission and its receipt, the game, the job and the source that a   *)
(* session tracks belong together, in the worker and in the storage.  The  *)
(* check for a repeated submission, and a poll of the job followed by a    *)
(* request for the result of the game, rest on that.                       *)
IdsFromOneReceipt ==
  \A v \in {view, stored} : v.jobId = v.gameId /\ v.sourceGameId = v.gameId

(* enterLiveSession: while a session is in the phase LIVE it keeps nothing *)
(* of an analysis, and neither a command of a popup that shows an older    *)
(* phase nor a refresh that was on its way asks the API about a game.      *)
LiveIsLocked ==
  [][view.phase = "LIVE" =>
       /\ view = View(view.paired, "LIVE")
       /\ \A c \in Calls : call'[c] # call[c] /\ call'[c].pc # "ingest" =>
                              call'[c].about = None]_vars

(* persist and restore: a restart of the service worker keeps the session  *)
(* it had, tokens included, or starts unpaired with nothing; it never      *)
(* brings back what a capture, a disconnect or the next game had cleared.  *)
(* The second happens only when the session is not complete, cannot be     *)
(* restored, or a login is between its two tokens.                         *)
Kept == view' = view /\ tokens' = tokens
Lost == view' = NewView /\ tokens' = NoTokens

RestartKeepsSession ==
  [][Restart =>
       /\ Kept \/ Lost
       /\ Lost => \/ ~view.paired
                  \/ ~(tokens.user /\ tokens.extension)
                  \/ ~Restorable(view)
                  \/ \E c \in Calls : call[c].pc = "logout"]_vars
=============================================================================
