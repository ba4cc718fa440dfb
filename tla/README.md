# Verification of the Open Format 3D Viewer backend

TLA+ models of the backend under `src/apps` (the FastAPI service `api`, the
Celery `worker`, the Node `ws-server`), the TLC runs that check them, and
theorems about them that TLAPS checks.  Paths below are relative to `src/`.

## 1. Inventory

| Component | State | Operations | Talks to |
|---|---|---|---|
| Upload API (`apps/api/app/services/models.py`, `storage.py`, `routers/models.py`) | rows of `models`, raw and processed objects | initiate, upload bytes, confirm, delete, list | Postgres, object store, broker |
| Scan and routing (`apps/worker/app/tasks/scan.py`, `mesh.py`) | none of its own | `scan_file`, `generate_chunks` | object store, clamd, Postgres, broker, Redis events |
| Converters (`ifc.py`, `gltf.py`, `step.py`, `obj.py`, `stl.py`, with `common.py`, `error_handler.py`) | Redis key `task_lock:{task}:{model}`, metadata rows, chunks | one task each | object store, Postgres, Redis, broker |
| Sweeper (`maintenance.py`) | none | hourly pass over old pending rows | Postgres, object store |
| Celery application (`celery_app.py`) | queues, unacknowledged messages | delivery, redelivery, time limits | Redis broker |
| Project membership (`services/projects.py`, `core/authorization.py`) | `projects`, `project_members` | create, invite, change role, remove, delete | Postgres |
| WebSocket server (`apps/ws-server/src/server.js`) | `rooms`, `userConnections`, per-connection state, gauge | connect, messages, heartbeat, cleanup, fan-out | Redis pub/sub, the API's internal authorisation |
| Accounts and sessions (`services/auth.py`, `oauth.py`, `api_key.py`, `core/redis.py`, `dependencies.py`) | users, refresh tokens in Redis, API keys | register, login, Google login, refresh, logout; create, revoke and use a key | Postgres, Redis |
| Webhooks (`services/webhooks.py`, `tasks/webhook.py`) | webhooks, delivery log | register, edit, dispatch, deliver with retries | Postgres, broker, HTTP |
| Share links (`services/share.py`) | `share_links` | create, resolve, list, revoke, expire | Postgres, object store |
| Annotations and BCF export (`services/annotations.py`, `bcf_export.py`) | `annotations`, `annotation_comments` | create, update, comment; export | Postgres, Redis events, webhooks |
| Request middleware (`apps/api/app/middleware`) and upload quota | counters in Redis | one check per request | Redis |
| Pagination | none | cursors of the list endpoints | Postgres |
| Output splitting (`ifc.py`, `common.py`) | none | a file over the limit is cut into parts | local files |
| Metrics, logging, configuration | counters | output only | - |

How a model travels: `POST /models/upload` inserts a *pending* row, the client
stores its bytes, `POST /confirm` verifies them, commits *processing* and sends
`scan_file`; a clean scan sends the converter's task (through `generate_chunks`
except for IFC); the converter uploads chunks, writes metadata, sets *ready* and
publishes `MODEL_READY` on `model_events:{user}`, which `ws-server` forwards.
Every failure is meant to go through `handle_task_failure` to *failed*.

What is hard here: a request reads a row, awaits, and commits a decision made on
what it read; tasks are delivered at least once, die between any two effects, are
killed by time limits, and are retried; the lock has a TTL and fails open; the
sweeper and deletions cross all of this; a WebSocket may close while its handler
is waiting for Redis or for the API; presence is spread over replicas by an
unreliable channel; a refresh token is presented twice; counters are read, compared
and incremented in separate commands; a link is revoked while it is resolved; a list
changes while it is read page by page.  `PROJECT.json` lists each hazard at its line.

What makes each component correct:

* pipeline: at most one conversion of a model at a time; *ready* only for complete
  output made from a clean file; the status moves along the documented flow and
  always leaves *processing*; the owner hears the outcome;
* membership: the owner is always a member, there is always an admin, only
  invitations add members;
* WebSocket server: a connection is in the room it thinks it is in and only if
  authorised; presence shows no ghosts; events arrive exactly once; closed
  connections are forgotten;
* accounts: a refresh token works once, one session has one live token and never
  revives, revoked credentials admit nobody;
* webhooks: an event is posted a bounded number of times, not again once answered,
  is logged, and comes to an end;
* limits: no identity of the limiter exceeds its rate, refusals are counted too,
  counters expire;
* share links: what was revoked stays hidden, what is shown is complete;
* annotations: the last status of each was announced to its author and its room;
* pagination and splitting: nothing is repeated, lost or out of order.

## 2. Modules

    PipelineState            state shared by API, workers, broker, Redis; TypeOK, Init
      UploadApi              initiate_upload, upload_local_file, confirm_upload, delete_model
      ScanTasks              scan_file, generate_chunks
      ConvertTasks           process_model, process_gltf, process_step, process_obj, process_stl
        ModelPipeline        composition with Celery, the lock's TTL and the sweeper; properties
          MCModelPipeline         instances for TLC
          ModelPipelineProofs     types and mutual exclusion
            PipelineOutputProofs  scan gate, completeness, life cycle, outcome
    WsServer                 the WebSocket server;   MCWsServer, WsServerProofs
    ProjectMembers           membership of a project; MCProjectMembers, ProjectMembersProofs
    Sessions                 abstract login sessions
      AuthSessions           accounts, refresh tokens, API keys; implements Sessions
                             AuthSessionsProofs
    Annotations              annotations, comments, announcements
      MCAccounts             AuthSessions + ProjectMembers + Annotations for TLC
    WebhookDelivery          fan-out, Celery delivery, log
    RequestLimits            rate limiter, authentication middleware, upload quota
    ShareLinks               public links of a model
    Pagination               cursor pagination of lists
    ChunkSplit               splitting of converted files
      MCClients              WebhookDelivery + RequestLimits + ShareLinks + Pagination
                             + ChunkSplit for TLC
    CountingProofs           theorems about RequestLimits and WebhookDelivery
    ModelRecordsProofs       theorems about ShareLinks and Annotations
    OrderingProofs           theorems about Pagination and ChunkSplit

Definitions carry the names of the functions they model; `map` in
`PROJECT.json` gives the lines.  A definition commented as *Mutant* is not part
of any specification: it is a plausible bug, kept to show that a property is able
to fail.

`MCAccounts` and `MCClients` put components that share no state into one TLC run.
The constant-like variable `part` picks the component that takes all the steps of a
behaviour; the others stay in their initial states.  No two parts have a
variable in common and no property speaks of two of them, so a property of one part
holds of all interleavings of the parts exactly if it holds of that part's own
steps.

### Pipeline

One step of a request or task is one effect on a shared service: a request is cut
at its SELECT, its storage checks, its COMMIT and its `send_task`; a task at every
read or write of Postgres, storage, Redis and the broker.  So a crash, a time limit
or another worker may fall between any two effects.  `worker[w]` is the task that
a pool process executes (program counter, delivery count, stage and chunk);
`queue` counts the copies of each message, unordered, since the queues are
separate and the pools concurrent; a crash puts the message back
(`reject_on_worker_lost`), a hard time limit acknowledges it.  `lock[m]` is the
worker that set the key, or `"orphan"` when nobody is left to delete it; the TTL
(2100 s) is longer than the tasks' `time_limit` (1800 s), so only orphans expire.
The converters differ in the sequence of their stages (`IfcStages`, ...) and in
one except block of glTF; the geometry itself is abstracted to "the stage
succeeds or raises".  `Raises` separates retryable errors from permanent ones as
`is_retryable` does.  `self.retry(exc=exc)` beyond `max_retries` re-raises `exc`:
that is Celery's documented behaviour, modelled from its use here.

The soft time limit is an ordinary `Exception`, raised once in a delivery wherever
the task happens to be.  Three events tell apart what becomes of it:

* `soft`: a handler takes it while the outcome is open, that is, in the inner try
  block of a converter (released lock, then `handle_task_failure`) or in the try block of
  the scan (an unexpected error);
* `soft_lost`: the `except Exception` of a helper swallows it before the helper had its
  effect (`publish_model_ready`, the three steps of `handle_task_failure`, the scan's
  publishers and deletion, `release_task_lock`); it escapes the task where no handler is in
  reach (guard, lock and row of a converter, its except blocks between those calls, the
  scan's SELECT and its last UPDATE); or it comes between the scan's last effect and its
  return;
* `soft_lock`: inside the calls of the lock, so that `acquire_task_lock` fails open, or
  between the release and the return, so that the handler releases once more.

Which faults an instance contains is the constant `Enabled`; its meaning is given
in `PipelineState`.  `built` and `notices` are history variables.

### Project membership

A request is the role check of `require_role`, the SELECT of the target's row,
the count of other admins and the COMMIT, four statements under READ COMMITTED.
`seen` is the role the ORM loaded: a session keeps the attributes of a row it has
already loaded (an admin acting on itself), and an UPDATE is written only if the
attribute changed.  Projects do not share state, so one project is modelled.

### WebSocket server

A replica is a Node event loop: a handler runs to its next `await` in one step.
The queue of messages received before readiness is drained within one handler;
`loop[p]` keeps the replica's other callbacks out while that happens.  The room
operations are functions on a record (`Hub`), because `joinRoom` calls `leaveRoom`
and both broadcast.  `wire[p]` are the Redis messages on their way to replica `p`
(FIFO, as on one subscriber connection).  `CURSOR_MOVE`, the annotation events and
`MODEL_SYNC` are one message, `ROOM_EVENT`, which may be dropped (throttle,
validation); their payloads play no part.  `view` (whom a client shows as present),
`got` and `audience` are what clients can observe.

### Accounts and sessions

A token is the number of its jti.  `stored` is Redis: the user of each
`refresh:{token}`; `account` the users rows, of which only matters whether there is
a row, a password and a Google identity.  Requests are cut at their awaits: a login
between the password check and the SET of its token, a refresh between GETDEL
and the SET of the next token, a registration between the SELECT of the e-mail and
the INSERT, whose unique constraint decides the race.  A client may present any
refresh token ever issued, which covers lost responses, second tabs and replays.
`session` is a history variable: the login each token goes back to.  The
refinement mapping `SessionState`, `SessionOwner` takes a session as live while one
of its tokens is stored or is being rotated; `SessionsEnd` says that the tokens
implement `Sessions`, so that a session keeps its owner and never revives.

### Request limits

A request is its route's class and what it presents.  `Identity` is `_identify_request`:
a JWT counts for its user, whatever its type; each token that begins with `ofv_` counts for
itself on the free plan, whoever owns it and also if nobody does; all else counts for the
address; login and register count for the address under a name and a limit of their own.
Exempt routes and the JWTs of an unlimited plan are not counted.  A request passes the
limiter (INCR, then EXPIRE if the count is 1, then the comparison), the authentication
middleware (which stands before the protected routes only and lets every `ofv_` token pass),
`get_current_user`, where a key that is nobody's is refused, and, for uploads, the daily quota (GET, comparison,
INCR and EXPIRE through a blocking client: one API process does not interleave them with
its own other requests, another process does).  The clock is the hour bucket.
With a Redis error at the quota the upload goes on uncounted; `free` counts these.  If
the limiter's INCR fails the request ends and nothing is counted; its plan lookup fails to
the free plan, which is left out, as are the CSRF check and a lower-case `bearer` scheme.

### Webhooks

A fan-out selects the user's active webhooks and sends one message for each (a *job*).
A worker process takes a message, loads the row, posts, writes the log row, and
finishes or sends its own retry; the message is acknowledged last, and given back
when the process dies, so that a retry may be sent twice.  Answers are 2xx,
4xx (final) and 5xx or a timeout (retried).  A timed-out POST may have arrived.  The API's
Celery client has no `task_routes`; its messages go to the queue `celery`, which no
worker consumes.

### Share links

`get_share_link` resolves the link, then reads the model and then its metadata, three
SELECTs with snapshots of their own; links are revoked or expire and the model is
converted or deleted in between.  `reader[r].dead` records which links were over when
the request arrived.  A request that read its link before the revocation is still
answered, by design of the code, and the property does not forbid it.

### Annotations

A request commits, loads the row again and then publishes it on the author's and
the room's channel.  Two updates may announce in an order other than their
commits', which the code does not promise to avoid; what it owes is that the last
status was announced after the commit that gave it.

### Pagination and splitting

`list_page` is the query that five endpoints share: it reads `created_at` of the
row the cursor names, compares `(created_at, id)` and takes one row more than the
page.  Rows appear behind the cursor too, since `created_at` is the start of a
transaction.  `ChunkSplit` is the loop of `_split_xkt_chunks`, one action per
file kept whole and per part read; bytes are positions.

## 3. Runs

Every property has a mutant in `PROJECT.json`: the model with that bug violates it
under the same configuration.

| Run | Checks | Result |
|---|---|---|
| `pipeline_mutex` | `ConversionMutex`, `InfectedNeverReady`, `ReadyIsComplete`: two confirms, a crash, soft limits (`soft`, `soft_lost`), the sweeper | hold |
| `pipeline_formats` | `TypeOK`, `StatusFlow`, `ReadyIsComplete`: all formats and contents, storage, broker, database and conversion errors, killed tasks, deletion | hold |
| `pipeline_outcome` | `OutcomeIsPublished`, and `ProcessingEnds` under fairness, with the errors the handlers are written for, soft limits (`soft`, `soft_lock`), late uploads and a lock that fails open | hold |
| `ws_rooms` | `TypeOK`, `RoomsAgree`, `OnlyAuthorized`, `ActiveIsSubscribed`, and `ClosedIsForgotten` under fairness: two connections, two rooms, failing subscriptions | hold |
| `ws_presence` | `NoGhosts`: three connections on two replicas, closing at any time | holds |
| `ws_delivery` | `DeliveredOnce`: three connections on two replicas, publishes that Redis rejects | holds |
| `api_accounts` | sessions: `TokenUsedOnce`, `OneLiveToken`, `AdmittedWasValid`, `SessionsEnd` (refinement); members: `TypeOK`, `OwnerIsMember`, `InviteOnlyAdds`; annotations: `StatusIsAnnounced` | hold |
| `api_clients` | webhooks: `NoExtraCopies`, `AttemptsBounded`, `AcceptedIsLogged`, `PipelineEventsEnd` under fairness; limits: `RateLimitHolds`, `GuessesAreLimited`, `QuotaOvershoot`, `CountersExpire`; links: `RevokedStaysHidden`, `SharedReadyHasChunks`; pages: `NoRowTwice`, `SteadySeen`; parts: `PartsJoin`, `PartsFit` | hold |

`QuotaOvershoot` is the strongest bound the code keeps, not the one it means: with
*n* API processes up to *n* - 1 uploads too many pass; with one process it is exact.

Disagreements between the code and what its documentation says (`findings`):

| Run | Violates | Because |
|---|---|---|
| `pipeline_crash_stuck` | `ProcessingEnds` | a redelivered task meets the lock of the process that died and is acknowledged as a duplicate |
| `pipeline_retry_skipped` | `RetryRuns` | a retry is preceded by the status *failed*, which its guard skips |
| `members_last_admin` | `AlwaysAnAdmin` | the admins are counted without a lock |
| `webhook_annotation` | `AnnotationEventsEnd` | the API's Celery client sends annotation events to a queue that no worker consumes |

More are a change of one constant or property away, and are not kept as runs:

* `ProcessingEnds` and `OutcomeIsPublished` with `Enabled = {"soft_lost"}`: the soft limit
  is not always "caught internally and routed through `handle_task_failure()`"
  (`README.md:203`).  Swallowed around the UPDATE of `handle_task_failure`
  (`error_handler.py:112-119`) it leaves the model *processing* while its failure is
  published; swallowed in `publish_model_ready` (`common.py:263-269`) it leaves it *ready*
  and unannounced; before the inner try block (`ifc.py:414-462`) it ends the task.
* `ConversionMutex` with `Enabled = {"soft_lock", "crash"}`: in `acquire_task_lock` the
  soft limit makes the lock fail open (`common.py:441-443`).
* `StatusFlow` with `Enabled = {"soft"}`: the soft limit after *ready* takes the model
  to *failed*.
* `LinkEndsSessions` of `AuthSessions` under `AuthSpec`: once linked, an account "must only
  be reachable via Google-verified login" (`apps/api/app/services/oauth.py:88-90`), but
  linking clears the password alone: the refresh tokens and API keys issued before stay
  good, and a session opened with the old password can be refreshed for ever.
* `UserIsLimited` of `RequestLimits` in `api_clients`: the limiter calls itself per-user
  (`middleware/rate_limit.py:57`), but a user has the free plan's limit once more for each of
  its API keys, and a key of an unlimited plan is limited as free.
* `AddressIsLimited` of `RequestLimits` in `api_clients`: failed authentications are to be
  "counted against the per-IP rate limit" (`apps/api/app/main.py:113-115`), but each guessed
  `ofv_` token has its own counter (`middleware/rate_limit.py:172-175`).
* `ProcessingEnds` with `Enabled = {"broker"}`: *processing* is committed before
  `send_task` (`apps/api/app/services/models.py:198`); if that fails, the model can
  neither be confirmed again nor swept.
* `ProcessingEnds` with `Enabled = {"clamd"}`: once the scan's retries are used up,
  `self.retry` raises the original error, past the `except MaxRetriesExceededError`
  that would have set *failed* (`apps/worker/app/tasks/scan.py:335`).
* `StatusFlow` with `Enabled = {"webhook"}`: queueing the webhooks is part of the
  try block that follows *ready* (`ifc.py:579`), so an error there takes a ready
  model to *failed*.
* `StatusFlow` with two requests: the confirm writes *processing* on the strength of
  the status it read (`services/models.py:171`), also over *ready* or *failed*.
  `"sweep"` does the same with *failed* (`maintenance.py:23`).
* `DeletedLeavesNoChunks` with `Enabled = {"delete"}`: a deletion removes the objects
  under the prefix it read, which is not recorded before the conversion ends
  (`services/models.py:249`).
* `GaugeIsExact` with `Enabled = {"heartbeat", "close"}`: `cleanup()` counts a
  connection out each time it runs (`server.js:657`), and it runs twice after a
  missed PONG.
* `CountersExpire` with the fault `"ttl"`: EXPIRE of the upload counter is sent only by
  the request that found it at zero; if that command fails, the counter stays for ever.
* `ListedNotExpired` of `ShareLinks` under `ShareSpec`: the list of a model's links is
  documented as "active (non-revoked, non-expired)" (`routers/share.py:124`), but the
  query (`services/share.py:129`) filters on revocation only.

### Bounds

The pipeline's state is per uploaded model, so one model shows every interleaving of
one lock, one row and one prefix; models interact only by occupying workers.  Two
workers are the smallest number that can break the mutual exclusion, and with
two confirms (`pipeline_mutex`) each of them has a message of its own.  Two chunks
make an incomplete upload observable.  One crash suffices for an orphaned lock and a
redelivery (`MaxCrashes`).  The faults are spread over the three runs: each property
meets those under which the code claims it.  Retries have the code's bounds (3 and 2).

For the WebSocket server, two connections on a replica and one on another are the
smallest instance where local delivery, fan-out and a second tab differ; `MaxSent`
bounds the messages of all clients together and `MaxEvents` the room events.  The
pending queue is cut to one message so that its overflow occurs.

`api_accounts`: three refresh tokens (`MaxTokens`) are two rotations of one login, or
one rotation beside a second login; two requests at once present the same token, or
cross a logout; one key is created, used and revoked.  Three users let two admins
demote each other with an owner beside them.  Two annotations and two edits contain
every race on one row.

`api_clients`: one job with `MaxRetries` 2 (the code's is 4) has a first, a middle
and a last attempt, and one lost process duplicates its retry; jobs do not interact.
Three requests, two on one process and one on the other, against limits of 2 (pro), 1 (free
and keys) and 1 (login) and a quota of 1: either uploads, of a pro user by its access token and
its key and of a user without limits, or requests that are refused or exempt (at login,
without a token, with a key that is nobody's), these in two hours.  Two links and two
readers.  Four rows at two times, pages of one and two rows.  Files of 0 to 7
bytes cut into parts of 2: empty, exact multiples and remainders, two files in a row.

`CHECK_DEADLOCK` is off: users owe nothing, and a system without requests stops.

`InfectedNeverReady` is checked for clients that upload before they confirm, as the
documented workflow says; the endpoint itself would accept bytes later (`late_put`,
enabled in `pipeline_outcome`).  `ws_rooms` and `ws_presence` run with publishes that
succeed; `ws_delivery` lets Redis reject them.

### Fairness

`FairSpec` of `ModelPipeline`: a request in progress continues; a pool process
executes its task, and each message that waits is taken in the end (the queues are
first in, first out); the TTL of an
orphaned lock passes; a started deletion and a started sweep continue.  No fairness
for users, faults or the start of a sweep.  `FairSpec` of `WsServer`: timers fire
(Node's event loop), the authorisation of the initial model ends within its 3 s
timeout, and queued messages are drained.  No fairness for clients, for the
subscription, for Redis or for the arrival of a `close` event.  `HookFairness` of
`WebhookDelivery`: a worker process runs the task it has (the POST has a timeout) and takes each
message of the queues it consumes; none for users, crashes, fan-outs or the endpoint's
answers, and none for the queue that nobody consumes, whose messages are never enabled to be taken.

## 4. Proofs

`tlapm` checks the eight proof modules; nothing is assumed but the constants'
assumptions.

* `ModelPipelineProofs`.  `TypeCorrect`: `Spec => []TypeOK`.  `MutexCorrect`:
  if the lock does not fail open (neither `redis_acquire` nor `soft_lock`),
  `Spec => []ConversionMutex`.
  `ConversionMutex` is not inductive: it does not say why a second worker cannot
  enter.  `LockInv` does: a worker that is converting a model owns that model's
  lock.  It is preserved because the lock is taken only when free, because a process
  that disappears leaves an orphan, and because only its owner can be at a release;
  the soft limit and the glTF branch release early, which is why the failure
  handler's steps count as converting only if the lock was not released before.
* `PipelineOutputProofs`.  `GateHolds`: without late uploads,
  `Spec => []InfectedNeverReady`.  The invariant `GateInv` follows the verdict through
  the system: whoever carries a message (a worker, the queue, a confirm about to
  enqueue) carries a model that has left *pending* for good, and whoever carries one
  past the scan carries one whose bytes are not infected.  Without `late_put` the bytes
  of a model that has left *pending* are not replaced, which is why it is preserved.
  `ReadyModelsAreComplete`: `Spec => []ReadyIsComplete`, with no assumption.
  `OutputInv` says of every worker which effects lie behind it (all chunks once its
  stage is past the upload, the row's prefix and metadata before *ready*), and of the
  row that nothing but a deletion removes them; so it also holds of two conversions
  that run at once, and the theorem does not need the mutual exclusion.  The lemmas
  `Forward` and `Kept` are about two states, so that an action that only moves one
  worker is one citation.
  `OutcomesArePublished`: `Spec => []OutcomeIsPublished`, if there is at most one confirm
  request at a time and none of the events `crash`, `hard`, `db`, `publish`, `sweep` and
  `soft_lost` (`Undisturbed`).  The events that remain are deletions, late uploads, errors of
  storage, scanner, broker, converter, webhooks and locks, and the soft time limits that
  the task handles or that strike in the lock's calls.  `OutcomeInv`
  says that a model has one token, in a confirm, one message or one worker
  (`OneWorker`, `OneMessage`, `Fresh`), and that the last notice agrees with the status unless the worker
  is at a place from which it will publish (`OwingPc`), where it knows which status
  it wrote (`Agrees`).  The assumption is as weak as it can be: with any single one of the six
  events, or with a second request, TLC finds `OutcomeIsPublished` violated.
  `LifecycleHolds`: `Spec => StatusFlow`, the action property, for one confirm at a time
  and without `crash`, `webhook`, `sweep` and soft limits (`OnlyTokensWrite`), each of which
  breaks it, as does a second request.  `FlowInv` keeps the token and adds what its holder knows: whoever is
  about to write a final status (`WritingPc`), and each message but a `convert`,
  belongs to a model that is *processing* or deleted; a `convert` message may be a
  retry of a failed conversion, and its guard finds that out.  The lemmas about the token
  (`TokenMoves`, `FirstMessage`, `TakeMoves`) serve both theorems.
* `ProjectMembersProofs`.  `TypeCorrect`; `OwnerStays`, for which the invariant
  adds that a removal past its SELECT is not of the owner; `SerialKeepsAdmin`: if
  there is at most one request at a time a live project has an admin, where the
  invariant adds that a demotion or removal past its count still has another admin.
  That the assumption is needed is what `members_last_admin` shows.
  `LostRacesChangeNothing`: `Spec => InviteOnlyAdds`, the action property, from the
  types alone: the guard of each commit looks at the row as it is by then.
* `WsServerProofs`.  The invariants are stated on the record `Hub`, so that
  `leaveRoom`, `joinRoom` and the broadcasts each preserve them as functions, and
  a handler that composes them needs no more than the lemmas about its parts.
    * `RoomsCorrect` (`RoomsAgree`) and `JoinsFailClosed` (`OnlyAuthorized`), from `Consistent`.
    * `StateIsTyped`: `Spec => []TypeOK`.  The lemmas `LocalEffect` and `BroadcastEffect`
      say once what a broadcast adds to each replica's queue and to each client; the later
      proofs cite them too.
    * `ActiveHearsModelEvents`: `Spec => []ActiveIsSubscribed`.  `Life` adds how
      far each connect handler is: a connection that is registered, has joins under way or
      drains its queue is past its subscription, and a closed one has none.
    * `PresenceHasNoGhosts`: if Redis takes the publications, `Spec => []NoGhosts`.
      `NoGhosts` speaks of quiet states only.  `GhostFree` says it of all: whoever a
      client shows, and whoever a USER_JOINED on the wire announces, still has a connection
      in the room, or a USER_LEFT is on its way to the same replica, behind that message.
      The assumption is needed, because a lost USER_LEFT is not repeated.
    * `EventsArriveOnce`: `Spec => []DeliveredOnce`, with no assumption.  `Once`: an
      event is at most once on the wire to a replica, and then none of its clients has received
      it; each open client of the event's audience has received it or is in the room of a
      message with it on the wire to its replica.
* `AuthSessionsProofs`.  `AuthTypes`; `TokensUsedOnce`; `OneTokenLives`;
  `SessionsRefined`: `AuthSpec` implements `Sessions`.  The invariant is `OneCarrier`: of
  one session there is at most one thing that can continue it, a stored token or a
  request that rotates one.  With it a rotation is a stutter of the abstract
  session, and each other removal of a token closes it.  `OnlyValidAdmitted`
  (`AdmittedWasValid`), from `CredentialInv`: the key that a request looked up was active
  then or has been revoked since.
* `ModelRecordsProofs`.  `RevokedLinksStayHidden` and `SharedPagesAreComplete`:
  `ShareInv` says that a link over at arrival is still over, so no later
  query can return it, and that a reader that saw *ready* can miss the chunks only if
  the model was deleted meanwhile.  `LastStatusIsAnnounced` (`StatusIsAnnounced`):
  each channel was told the status the row has, or a request is still to tell it and will
  read the row after its last change (`EventuallyTold`).
* `OrderingProofs`.  `PagesDoNotRepeat` and `PagesAreComplete` from `PagesInv`:
  in the order of the list no row that was seen comes after the cursor, and each row
  that was there all the time and does not come after it was seen.  `SplitJoins` and
  `SplitFits`, for any files and limit: the list so far ends where the loop stands.
* `CountingProofs`, about cardinalities of sets that steps move their members between.
    * `RateIsLimited` (`RateLimitHolds`) and `DeniedIsLimited` (`GuessesAreLimited`).
      Both are of one identity of the limiter, and so neither of a user nor of an address.
      `RateInv`: the requests of an identity let through in this hour, and those past their INCR whose
      count lets them through, are together at most the limit and at most the counter; of a past
      hour only the first remains, because its counter may expire and takes no more requests.
    * `QuotaAlmostHolds` (`QuotaOvershoot`).  `QuotaInv`: each upload is counted or came while
      Redis failed, and the counter with the requests between their GET and their INCR is
      at most the quota and one for each process but the first, as a process has one request
      at its blocking client.
    * `CountersDoExpire` (`CountersExpire`): if no EXPIRE fails.  Without the assumption
      it is false: a counter whose EXPIRE failed stays.
    * `NoCopiesMultiply` (`NoExtraCopies`), `AttemptsAreBounded` (`AttemptsBounded`) and
      `AcceptedGetsLogged` (`AcceptedIsLogged`), from `HookInv`: a job's messages, its
      holders, its final answers and its POSTs are bounded by what the crashes so far
      allow, summed over where each copy is (`Counts`); between the answer and the
      INSERT of an accepted job a worker holds that answer.

What the proofs showed about the modules: `RequestLimits` needs at least one API process and
`WebhookDelivery` at least one webhook (both are in the constants' assumptions now:
without them the quota and the job of a message mean nothing), and the number
of a job's live copies is stated as two cardinalities, of its messages and of its holders.

Every invariant that a passing run checks is proved, and with them the action
properties `InviteOnlyAdds` and `StatusFlow` and the refinement `SessionsEnd`.  Only model-checked: the
liveness properties `ProcessingEnds`, `ClosedIsForgotten` and `PipelineEventsEnd`
(fairness and `ENABLED` are outside the prover's reach).  The four violation runs refute what they
state.  Induction over data and `RECURSIVE` operators are beyond the
prover too; no module here needs them.

## 5. Not modelled

* Geometry, file contents and formats beyond what decides between success and
  error; HTTP and JSON; metrics, logs and configuration.
* The BCF export: the API's (`services/bcf_export.py`) only reads, and its comments
  are by their query those of the annotations it has read.  The worker's task `export_bcf`
  (`tasks/bcf.py`) is enqueued by nothing, and its SELECT names columns (`title`, `body`,
  `position`) that the table lacks.
* CSRF and security headers: functions of one request, without state.  Password
  hashing and JWT signatures: data.
* Creation of projects beyond one, their listing and renaming; read-only endpoints
  other than lists and share pages.
* The forwarding of a user's `model_events` to its own sockets (the subscription is
  modelled, the messages are not); the loss of a whole WebSocket replica or of Redis'
  data.  A client message that is the JSON value `null` makes `msg.event` throw
  (`server.js:430`), past the handler for messages that are not JSON.
* Two concurrent deletions of one model; transactions of the API that span several
  models.

Not claimed, because the code does not: that a request which had read a link before its
revocation is refused; that concurrent updates of an
annotation are announced in the order of their commits; that a user with two tabs
stays visible when one of them closes.

## 6. Next

1. Loss of a replica in `WsServer` and the delivery of model events to sockets.
2. Abstract specifications `ModelLifecycle` (what the API promises about one model)
   for `ModelPipeline`, and `Presence` (one room without replicas) for `WsServer`.
3. Theorems: the refinements of 2; `DeletedLeavesNoChunks` for deletions of
   models that are *ready*, without storage errors.
