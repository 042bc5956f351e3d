# BoardTrace: a verification development

BoardTrace analyses finished chess games: a browser extension submits a completed
game, an API (FastAPI, PostgreSQL, Redis) admits one analysis per user into two
slots or a short FIFO, a transactional outbox hands the job to Celery, and a worker
runs Stockfish over the game and persists one result, which its owner may read once.
These modules model the parts of that program in which order, concurrency and
failure decide whether it is correct. Paths below are relative to the repository;
`api/` stands for `apps/api/src/boardtrace_api/`.

## 1. Inventory

| Component | State | Operations | What makes it correct |
| --- | --- | --- | --- |
| Queue admission, `api/queue_admission.py` | six Redis keys: active, waiting, users, deadlines, extended, sequence | the Lua scripts admit, state, cancel, extend, sweep, complete | the keys agree; limits of slots, places and jobs per user; FIFO order; no idle slot beside a waiting job; at most two waiting periods |
| Job rows, `api/repositories/analysis_jobs.py`, `api/analysis/state.py` | status, worker id, lease, generation, attempts; the outbox rows | create, publish, claim, start, complete, fail, retry, terminalize | the transition table; a terminal status is final; a generation is granted once |
| Outbox and delivery, `api/services/analysis_jobs.py`, `api/analysis/celery_adapter.py` | due rows, messages in the broker | publish a batch, record a failure | at least one delivery per due row; duplicates do no harm |
| Worker, `api/worker.py` | lease generation in memory, the running engine | claim, start, check authority, analyse, persist, fail or retry, release the slot; failure signal | a stale execution changes nothing; one result per job; the game data goes when the job ends |
| Lifecycle sweep, `api/worker.py` | the list it is working through | expire waits, fail jobs with an expired lease | no job keeps a lease or a wait for ever |
| Ingestion and queue endpoints, `api/api/v1/endpoints/ingestion.py` | an open transaction between two Redis scripts | ingest, consent, cancel, extend | what runs in PostgreSQL holds a slot in Redis |
| Result persistence and delivery, `api/services/analysis_results.py`, `analysis_delivery.py`, `analysis_status.py` | runs, evaluations, availability of a game | persist and complete, read and consume | a run belongs to the generation that owns the job; delivered at most once |
| Engine, `api/analysis/full_game.py`, `stockfish.py` | process, session lock, budgets | analyse a game, analyse a position | budgets bound the run; one session at a time; no engine on a live game |
| Metrics and classification, `api/analysis/move_*.py`, `game_metrics.py` | none | pure functions | agree with their definitions at the boundaries |
| Sessions and pairing, `api/auth/service.py`, `api/services/pairing.py` | refresh token families, pairing codes | login, refresh, revoke, exchange | rotation, a reuse revokes the tokens it locked and their successors, a code is redeemed once |
| Rate limits, `api/rate_limits.py`, `api/core/rate_limit_middleware.py` | Redis counters and blocks | hit, block | a window admits no more than its limit and what was on its way |
| Extension, `apps/extension/src/` | session view and tokens in memory and in session storage; a page; a popup | login, capture, ingest, refresh, queue actions, restore | the ids of a session belong together; a live game keeps and asks for nothing; a restart keeps all or nothing |
| Game lifecycle read model, web client, configuration, scripts, logging | none of interest | | |

Interaction: the API and the worker share PostgreSQL (READ COMMITTED, row locks) and
Redis, with no transaction across the two; the publisher and the worker share the
broker; the worker calls back into Redis after its terminal commit. The hard
behaviours are the interleavings of those steps, the crashes between them, messages
delivered twice, early or never, leases and waits that run out while their holders
are busy, and reads that are stale when used. `PROJECT.json` lists each at its line.

## 2. Plan

Done:

1. `QueueAdmission`, `MCQueueAdmission`, `QueueAdmissionProofs` (Redis).
2. `JobStateMachine` (abstract), `AnalysisJobs`, `MCAnalysisJobs` (PostgreSQL, broker, worker, sweep).
3. `AdmissionLifecycle`, `MCAdmissionLifecycle`: composes `QueueAdmission` (by `INSTANCE`)
   with the endpoints and the job rows, and is shown to implement it.
4. `OneTimeResult` (abstract), `ResultDelivery`, `MCResultDelivery`, `ResultDeliveryProofs`:
   persistence, torn reads, polls, one-time delivery.
5. `RateLimits`, `AuthSessions`, `MCAuthSessions`: the failed-login limit, composed with
   logins, token families and pairing codes.
6. `ExtensionSession`, `MCExtensionSession`: the service worker, the page and the popup.
7. `GameReport`, `FullGame`, `MCFullGame`: the engine session, the budgets, and the metrics
   of the games it completes.

8. `FullGameProofs`, `AnalysisJobsProofs`, `AdmissionLifecycleProofs`, `AuthSessionsProofs`,
   `ExtensionSessionProofs`: the safety and action properties of their runs, and the
   refinements of `JobStateMachine` and `QueueAdmission`.
9. In `AnalysisJobsProofs`, the scope of the late FAILED: what the sweep alone is responsible
   for.
10. In `AdmissionLifecycleProofs`, the theorems of the queue stated of the composition, and
    with them the limits on what is delivered.
11. `GameReportProofs`: the report of a game of any length, and `ReportIsFair` with it.

Left, for whoever takes this further: liveness with a prover that has it; the read model of
`api/services/game_lifecycle.py`; the limits of authenticated requests, once paths that need
them are modelled.

## 3. What is modelled

**QueueAdmission.** Redis runs a script to its end, so each script is one action;
the refused calls of `_ADMIT` are actions that change nothing. Absolute deadlines are
kept as time left, and all that have passed read `-1`, which no script tells apart.
Variables are the six keys; `deadlines` and `extended` are set and deleted together,
and `extended[j] = "absent"` stands for both being absent.

**JobStateMachine.** The transition table of `api/analysis/state.py`, the abstract
specification that `AnalysisJobs` implements as far as workers and publishers go.

**AnalysisJobs.** A transaction is one action at its commit, except where others may
act inside it: the publisher lists (with `SKIP LOCKED`), sends, locks and marks each
row and commits the batch at the end; the sweep reads a row, then locks it. A worker
goes through `claim`, `start`, `check`, `analyse`, `persist`, `release`, `fail`,
`retry`. `game` abstracts the submitted data and the availability of the analysis.
`Kill` is the end of a child process, whose message the parent acknowledges
(`task_reject_on_worker_lost=False`); `HostDies` that of the whole host, after which
the broker delivers again. `TaskFailureSignal` is the handler as it is: it looks for
the payload in `args` and the adapter sends it in `kwargs`. The lease is one bit,
`expired`; time may pass it at any moment of a leased job. `onTime` remembers whether
it had passed when the analysis ended, which is the instant `replace_owned_generation`
compares.

**AdmissionLifecycle.** Every request, release and sweep is an actor that writes one
store and then the other. `status "LOST"` is an id chosen by a transaction that
rolled back (ids are random, the next attempt takes another); `"EXPIRED"` is FAILED
with the code `queue_wait_expired`. `Publish`, `Execute` and `EndJob` stand for the
inside of `AnalysisJobs`. Failures are one thing here, an actor that stops between two
steps: an unavailable Redis, a rollback, a crash. Extending and reading the state are
single scripts.

**ResultDelivery.** One game. The persisting transaction of the worker is one action
with all its checks; the lease, the failure paths and the late write of the sweep are
those of `AnalysisJobs`, with claim and start in one step. A reader takes a step for
each SELECT of `read_for_owner` (released game, authority, job, run, positions, moves),
since each has its own READ COMMITTED snapshot, then `Consume` (the DELETE, the update
of the game and the commit; a DELETE waits for another one of the row and finds
nothing) and `Respond`. A poll takes three. A run is its generation and the numbers of
its rows. `Disconnect` loses the connection of a request, after the commit as well as
before.

**OneTimeResult.** The abstract specification: a result is absent, kept, then taken for
ever; one request of an owner takes it and only that one can receive it.

**RateLimits, AuthSessions.** `RateLimits` is the counter script and the block of one
address; times to live are in half seconds, because Redis rounds what TTL reports and
the code takes 0 for "no limit". `AuthSessions` extends it with the requests of one
user: a request is the statements between its locks. `locks` are rows held with
`FOR UPDATE`; an UPDATE waits for them at the commit. Refresh, the reuse of a revoked
token (lock the family as it is seen, read it again without a lock, revoke), logout of
one token or of all, login, pairing and exchange. `Aborts` rolls a transaction back,
also the one that PostgreSQL chooses when two reuses wait for one another.

**ExtensionSession.** The handlers of the service worker are cut where they await a
fetch; between two awaits a step is atomic and ends with the write to storage.
`view`, `tokens` and `stored` are the session in memory and in `chrome.storage.session`;
`call` the handlers in progress with what they asked about; `page` the tab and its
content script, with the path of eight characters and the one of twelve (`LongId`);
`popup` what the popup shows, which may be older than the session. The API answers
anything its contract allows. `Restart` is the browser stopping the worker.

**GameReport.** Move metrics, classification and game metrics as operators; decimals of
two places are integers in hundredths with the rounding of the code. A score is what
`StockfishScore` allows, so a mate in zero is one; the code leaves a move beside it
unclassified, since the sign that would say whose mate it is is missing. `FairReport` says
what a report must be without the steps that compute it: from the standing of White in each
position, the evaluations shown, and the moves of both players together.

**FullGame.** Callers of one `StockfishEngine`: authorization and replay limits, the
session lock, the launch of the process and its options, a request per position with the
smaller of the two budgets, an answer, a failure, and `__exit__` in two steps: the quit
(`Exit`) and the release of the lock (`Leave`). Time passes for every call in progress by
what a step takes, since the clock of a call starts before it waits for the lock. A final
position without a legal move has no variation and fails, as `_build_result` has it.

A process is stopped only by `engine.quit()`, in `__enter__` after refused options (`Undo`),
after a failed position (`Invalidate`) and in `__exit__`. That is a command with a timeout
of its own, and `_stop_engine` logs its failure and does no more. So each of the three takes
up to `CommandTimeout` and leaves the process `absent` or `told`: asked to quit, and possibly
still running, which only the process itself may end (`ProcessEnds`). An exception from
outside (the soft limit, a cancellation) can arrive in every state of a call. In a launch it
leaves a process that nobody refers to (`lost`); between `acquire` and the `try` of
`__enter__`, in the handler of `__enter__` while it waits for the quit, and before the `try`
of `__exit__` it also leaves the lock taken (`CutShort`). The worker makes a `StockfishEngine`
for each job (`api/worker.py:169`), so waiting, and a lock that is lost, concern only callers
that share the object, as `docs/decisions/0002-backend-stockfish-foundation.md:21` lets them.

Definitions whose comment begins with `Defect:` are not part of the specifications.
They are slips the code could contain, next to the definition each would replace, and
each is known to break one property (`PROJECT.json`, `mutants`).

## 4. What the runs show

| Run | Instance | Shows |
| --- | --- | --- |
| `admission` | 6 jobs of 5 users (one user has two), 2 slots, 2 places, 2 ticks per period, 4 scores; 44 000 states | the keys agree, limits, FIFO order, no idle slot, bounded waits that end |
| `jobs` | 1 job, 2 publishers, 2 workers of one host, 2 overlapping sweeps, 2 claims, 2 process failures, automatic retry; 88 000 states | fencing by generation, one run per job, data lives as long as the job, nothing due is forgotten, every change is in the transition table, leases and due rows are dealt with |
| `lifecycle` | 2 jobs of 2 users, 1 slot, 1 place, 2 requests, 1 failure; 1.6 million states | what PostgreSQL delivers or runs holds a slot, so is within the limit and one per user; nothing that ended is opened again; an expired wait ends its job; Redis behaves as the queue alone |
| `analysis` | a game of 3 moves (a second is over the move limit), five short or forbidden ones, 2 callers, game budget 4, position budget 2, command timeout 1, 5 outputs; 934 000 states | the lock is released and every process told to quit whatever fails in the engine or the game, results are valid prefixes, the time of a call is bounded by its budget and two command timeouts, callers get their turn, the report agrees with the evaluations |
| `delivery` | 2 requests of the owner, one with an unsteady connection, 1 stranger, 1 poll, 2 claims, 2 moves; 30 000 states | a game is released exactly while its run is kept, polls never take back the end, a released result is taken, the refinement of `OneTimeResult` |
| `sessions` | 2 overlapping requests, 4 tokens, 1 code, 1 unpunished failure, window and block of 1.5 s, 1 Redis outage; 4.9 million states | tokens and codes are spent once, a reuse revokes the tokens it locked and their successors, failures of a window are bounded |
| `extension` | 2 games with paths of both lengths, 2 handlers; 1.2 million states | ids of one receipt, the live lock, restarts |

Five runs find what a document or a name in the code denies; `PROJECT.json`, `findings`,
has the quotations.

- `late_terminal_write`: a lease runs out after the analysis ended in time. The sweep
  lists and reads the job (RUNNING), the worker commits SUCCEEDED, the sweep's locked
  query returns the object its session already has, and FAILED overwrites SUCCEEDED.
- `early_delivery`: a worker claims between `send_task` and the publisher's lock, finds
  PENDING and drops the only delivery. The job is QUEUED afterwards, with no message.
- `hard_failure`: the handler of a lost worker rejects the payload, the job stays RUNNING.
- `promotion_without_outbox`: a job waits in Redis before its row is committed; a release
  promotes it then, finds no row and gives up.
- `slot_of_ended_wait`: a consent that read PENDING before the sweep ended the job takes a
  slot for it after the sweep released it. Nothing frees that slot.

Other things the models do because the code does, for which no run was added; each is
a hazard in `PROJECT.json`:

- A poll torn across the persisting commit reads FINISHED, then SUCCEEDED, and answers
  FAILED without the guidance to poll again, although the result is there.
- A released result whose job the late write of the sweep fails stays released and
  answers 503; `ReleasedIsTaken` excepts it.
- A response lost after the commit loses the result.
- A game that ends in mate or stalemate fails at its last position, where
  `docs/decisions/0003-full-game-evaluation-orchestration.md:18` counts N+1 evaluations.
- An engine that does not quit within its timeout outlives its call, and nothing ends it
  (`api/analysis/stockfish.py:194`; `apps/api/tests/unit/test_stockfish_engine.py:329` has the timed-out
  quit). `docs/decisions/0002-backend-stockfish-foundation.md:21` says that the process is cleaned
  up. What holds is that the call does not ask that process again, and ends in time.
- An exception from outside in one of three places of the session leaves its lock taken, and
  later calls on that object wait for ever; `EveryCallEnds` excepts it (`LockLost`).
- A logout does not see the successor that a refresh in progress is about to issue.
- An answer that was on its way when a page goes live, or another user logs in, is
  committed into the session it finds.
- A player's path of twelve characters is not the id the game was submitted under, so
  connecting again drops the tracked session.

Bounds and why they suffice. Two actors of a kind and one more of the other are enough
for every race above, since each concerns one job (one token, one session) and two
writers; the second job or user is there for the queue behind it. `MaxSequence`,
`MaxClaims`, `MaxMessages`, `MaxCrashes`, `MaxFailures`, `MaxGenerations`, `MaxTokens`,
`MaxFailed` and `MaxOutages` cap counters in guards. In `jobs` a message
is sent once for the job, once for each of at most two retries, and again only after
one of the two failures, so `MaxMessages = 5` never blocks a publisher and the liveness
results do not rest on it. `MaxFailed = 5` is above the bound that
`FailuresBounded` states (1 + 2 requests + 1 outage), and four tokens are a login, its
rotations and the successor of a reuse. A game of three moves has two moves of one
player and one of the other, so that averages, percentages and coverage differ from
their single values; the five scores are two centipawn values, a mate for and against, and
a mate in zero. Two positions use up what the game is given, and a start or a wait before
them cuts the limit of the second: the budget is exhausted between positions and within
one, and the bound of `EngineTimeBounded`, four units and two timeouts, is reached.
Two games and two handlers make every overlap of a submission with a refresh, and two
handlers of a popup that was closed and opened.

Symmetry. `sessions` permutes the requests and `extension` the games and the handlers:
they occur in the specifications only as names. Neither run checks liveness.

Fairness. `QueueAdmission`: the sweep, which beat starts every five seconds, and the
clock. `AnalysisJobs`: lease expiry, the sweep and a publisher that is not killed;
nothing of the workers, which may hang. `AdmissionLifecycle`: the sweep goes through its
list. `ResultDelivery`: a request of the owner goes on, and the owner asks again; no
worker, sweep or poll is made to run, and only requests in `Unsteady` lose connections.
`FullGame`: a thread that runs goes on, and a command to the engine is answered or given up
within its time, which `python-chess` enforces; nobody is made to start or interrupted, and
no process that was left is made to end. No
request, release or user action is assumed elsewhere. `AdmissionLifecycle` lets time
pass only between requests and sweeps (they are shorter than a waiting period of three
minutes); everything within that instant interleaves freely. `AuthSessions` and
`ExtensionSession` have no liveness properties and assume nothing.

Deadlock is checked for `admission` and `extension`. The other systems stop by design:
when all jobs have ended, every caller is done, or the tokens of the bound are issued
and every counter has run out.

## 5. What is proved

`QueueAdmissionProofs`, for every finite set of jobs, every number of users, slots,
places and ticks (`QueueAssumption`: the owners are users, there is at least one slot
and a waiting period, `NoJob` is no job):

- `AdmissionTypes`, `OneJobPerUser`, `LimitsHold`, `SlotsStayBusy`: the type invariant and
  the invariants of the `admission` run;
- `WaitsAreRecorded` (`WaitRecords`);
- `FirstComeFirstServed`, `BudgetsNeverGrow`: the action properties `NoOvertaking` and
  `WaitBudgetNeverGrows`. The second needs that a wait without an extension has at most one
  period left.

They rest on `AdmissionInvariant`. None of the conjuncts is inductive alone: that a slot
freed by `_COMPLETE` is filled by the head needs the users entry of the job to be its
own (`UsersMatchQueues`), that the head is unique needs distinct scores, and distinct
scores need the counter to bound them (`WaitRecords`). There is one lemma per script,
`HeadExists` (a finite non-empty FIFO has a head) and `LeaveQueueEffect` (what removing
jobs from the three waiting keys does to the FIFO).

`ResultDeliveryProofs`, for any sets of readers, owners among them, and polls, any number
of moves and claims (`DeliveryAssumption`):

- `DeliveryTypes`, `ReleasedExactlyWhileKept`: the invariants of the `delivery` run;
- `PollingGuidanceIsFinal`: the action property `PollsAgree`;
- `DeliveredOnce`: `ResultDelivery` implements `OneTimeResult`.

They rest on `DeliveryInvariant`, which adds three facts: an execution was numbered by a
claim (`WorkerNumbered`); a taken result was the only one and belongs to a job that has
ended (`OneTaker`); what a poll has read or returned about the end of the job still holds
(`PollsRemember`). The point of the argument is that a kept or taken result implies an
ended job and that no step opens a job again, not even the late write of the sweep: the
persisting transaction, which needs a RUNNING job, therefore never finds an older
result. For the refinement `PersistAndComplete` is `Publish`, a successful `Consume` is
`Take`, `Respond` is `Receive`, and all else stutters.

`AnalysisJobsProofs`, for any sets of jobs, workers, hosts, publishers and sweeps and any
bounds (`JobsAssumption`: `None` is no job and no host, the bounds are naturals):

- `JobsTypes`, `LeasesAreFenced`, `OneResult`, `DataIsCleaned`, `OutboxRemembers`: the
  invariants of the `jobs` run;
- `JobsFollowStateMachine`: `AnalysisJobs` implements `JobStateMachine`;
- `EndsOverwrittenBySweepsOnly`: when a terminal status changes, SUCCEEDED becomes FAILED, by
  a sweep that read the job before it ended, and the run and the game's availability stay;
- `FirstWriteWinsWithoutSweeps`: with no sweep, `FirstTerminalWriteWins` holds, which the run
  `late_terminal_write` finds violated with one. The two bound that finding from both sides:
  nothing else overwrites an end, and that step does nothing else.

They rest on `JobsInvariant`. The properties lean on one another: a claim grants a new
generation because a worker's is at most the row's (`WorkersHoldJobs`); it finds no older
run because only an open job has its data; a retry has a row of the outbox to itself
because no row is numbered past the attempts (`DeliveriesNumbered`), which a claim and
its retry count once each (`AttemptsCounted`). A publisher and a sweep act on what they
listed or read, so that rows and jobs they hold exist (`PublishersHoldEvents`,
`SweepersHoldJobs`). There is a lemma for each action. For the last two theorems every step
of a worker and a publisher writes at most one row, that of an open job (`WritesOpenRow`).

`AdmissionLifecycleProofs`, for any finite set of jobs, any users, requests, limits and
number of actors that stop half way (`LifecycleAssumption`, which is that of the queue and
the two bounds):

- `LifecycleTypes`, `DeliveriesHoldSlots`: the invariants of the `lifecycle` run, the second
  with the limits: never more than `ActiveLimit` jobs are delivered, nor two of one user;
- `QueueStaysSound`: the keys of Redis agree, the records of the FIFO are right and the slots
  within their limit, here where the scripts run between statements of PostgreSQL;
- `EndsAreFinal`: the action property `EndedStaysEnded`;
- `LifecycleImplementsAdmission`: what the actors do to Redis is a run of `QueueAdmission`.

They rest on `LifecycleInvariant`. A job is held when it owns a slot or has ended; it stays
held, since a slot is freed for an ended job only and nothing opens an ended job. The
answer ACTIVE that a request carries to its commit, a row of the outbox and a promotion
are each about a held job. For the refinement, an endpoint that calls a script is that
script, or refused by it, and all else stutters. The prover cannot cite the theorems of
`QueueAdmissionProofs` through `INSTANCE`, so what the limits need of the queue (its type, whose
entry a user has, distinct scores) is proved again, with `SameCount` between the cardinality
of the instance and that of the composition; the order of the FIFO holds in the composition
by the refinement.

`GameReportProofs`, for any positive scale of the accuracy (`ScalePositive`) and complete games
of any length, with any scores:

- `ReportsAreFair`: `FairReport` of every complete game. A move that loses a mate, or allows one,
  is a BLUNDER, one that wins or escapes one is praised, and one beside a mate in zero is not
  judged; the loss of a move is the difference of the evaluations shown around it; every move
  counts for one player; who lost less for each counted move is not told the lower accuracy;
- `ReportsAreInRange`: percentages and accuracies are between 0 and 100, or absent exactly
  when nothing was counted.

The verdicts follow from the class of a score before and after (`GainOfMover`). The comparison
of players needs two things the provers do not have. That the sum of losses, a fold over a
set, is a natural number: the fold is shown to exist (`FoldExists`) and to be one
(`FoldNatural`) by looking at the least size for which it fails, which needs no induction
rule. And integer division: `HalfUp` is monotone in its numerator and the accuracy falls with
the loss (`HalfUpMonotone`, `AccuracyAntitone`), each from the bounds of one quotient.

`FullGameProofs`, for any callers and games, any budgets and move limits
(`BudgetAssumption`, the checks of the settings and of `StockfishScore`):

- `CallTypes`, `SessionsCleanUp` (`NothingLeftBehind`), `ResultsArePrefixes`,
  `BudgetsBoundTheEngine` (`EngineTimeBounded`): invariants of the `analysis` run;
- `ReportsStayFair` (`ReportIsFair`): what a call completes is a complete game in the sense of
  `GameReportProofs` (`CompleteCalls`), so its report is fair.

They rest on `CallsInvariant`: a condition on the record of one call, `CallInv`, one on what
has become of its process, `ProcessFits`, and one that ties the lock to the records. Only the
holder of the lock is inside a session, so a step replaces one record and the state of its
process, and lets time pass for those that wait; such a step keeps the invariant when the new
ones satisfy the two conditions (`RecordReplaced`). The time bound needs the lock, since a call
that has made a request waits for nobody, and that a call waits for one quit at most after its
last request: a process that failed is forgotten before it is told to quit, so `__exit__` finds
none (`ProcessFits`), and every other answer or failure leaves the second timeout to `__exit__`.

`AuthSessionsProofs`, for any finite set of requests, any codes, any number of tokens and
any limits (`TokenAssumption`, and `RateAssumption`, of which the proof needs that a block
outlasts a window, as `api/rate_limits.py:74` and `:76` set them):

- `SessionTypes`, `TokensSpentOnce` (`NothingIsSpentTwice`), `FailuresStayBounded`: the
  invariants of the `sessions` run;
- `LockedChainIsRevoked`: the action property `ReuseRevokesLocked`.

They rest on `SessionsInvariant`, in four parts. `Chains` says what a family looks like without
counting, from which the cardinalities of the property follow; `Holding` what a request
may rely on because of its locks; `Spending` is about codes; `Counting` is an account of
failed logins: before a block each failure past the limit is paid for by a request about
to set one or by an outage, after it by the requests that were let in earlier.

`ExtensionSessionProofs`, for any games and handlers, without assumptions:

- `SessionTypes`, `IdsBelongTogether`: the invariants of the `extension` run;
- `LiveStaysLocked`, `RestartsKeepSessions`: its action properties.

They rest on `SessionInvariant`: session and storage are coherent, what is stored is the
session, and the session is stored unless a login is between its two tokens. Almost every
step that writes the session ends with the write to storage, so one lemma (`Committed`) is
about all of them.

Only model-checked: liveness (`EveryWaitEnds`, `LeaseAlwaysEnds`, `DueJobIsQueued`,
`ExpiredJobEnds`, `EveryCallEnds`, `ReleasedIsTaken`), which is beyond the prover. All other
properties of the passing runs are theorems.

## 6. What is not modelled

- `heartbeat_job` and `recover_expired_lease`: only tests call them.
- The delay of the retry policy: `AnalysisJobs` lets a scheduled retry become due at any
  time. It is a pure function of the attempt.
- The global, per-user and per-operation limits of authenticated requests: the counter
  of `RateLimits` without a block, on paths that the other models do not need.
- Access tokens (a JWT has no state), registration, expiry of tokens and codes, which
  only refuses.
- In the extension: the validation of messages and payloads, the extraction of a game from
  the page and the rendering of a result.
- Chess rules and the text of UCI: a game is its length, whether it replays and whether its
  last position is terminal.
- Loss of Redis data, `clear`, and edits of the keys from outside.
- A slot lost to a failure between two stores (a rollback after the admission, a
  release that Redis did not take) stays lost; the code claims nothing else, so no
  property says otherwise. The model reaches those states, and the safety properties
  are checked in them.
- The game lifecycle read model, the web client, logging, metrics, provenance validation,
  configuration, scripts and deployment: no state that decides anything above.
