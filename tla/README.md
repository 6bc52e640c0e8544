# Liquio in TLA+

Liquio is a low-code BPMN platform: a *workflow* is a walk through a BPMN schema
whose nodes are tasks for people, events (requests, delays, notifications, ...)
and gateways.  Several Node.js services do the walking; they share a PostgreSQL
database and talk through RabbitMQ.  This directory models the parts whose
correctness depends on the order in which those services act.

## 1. Inventory

| Component (under `src/components`) | State it keeps | Operations that change it | Talks to |
|---|---|---|---|
| `manager` | `workflows` (`data.messages`, `is_final`, `has_unresolved_errors`); per message: the workflow it has read | consume a completion, append `in` and `out` messages, route, finish a workflow, flag an error | queues of task, gateway, event; tables of all |
| `task` (message part) | `tasks`, `documents` | create a task from a message, fill its document, auto-commit | manager's queue |
| `task` (HTTP part) | `tasks`, `documents`, `document_signatures`; the Redis key of a PDF under way | create a workflow, update a document, make its PDF, sign it, set the signers, commit | manager's queue, the queue of large PDFs, filestorage, register |
| `task` (caches) | keys and timestamps in Redis; the connection that listens to PostgreSQL | get or set, invalidate, reconnect | Redis, PostgreSQL |
| `gateway` | `gateways` | evaluate and save a gateway | manager's queue |
| `event` | `events`, `workflow_errors`; Redis work-in-progress keys | create an event, retry, tolerate, give up, stop other tasks and events, calls to outside systems | manager's queue, register, notification |
| `event` daemon | `events.lock_id`, `events.done`, `events.data.dueDates` | lock due delays, set them done, unlock old locks, send postponed notifications | manager's queue |
| message queue library (one copy per service) | channels, reconnect timers, Redis keys of handled messages | connect, reconnect, consume, ack, dead-letter | RabbitMQ, Redis |
| `register`: records and search index | `records`, `history` (written by a trigger), `afterhandlers`; the index; Redis marks of reindexed keys | create, update, patch, delete; afterhandler worker; reindex | Elasticsearch |
| `register`: the rest | encryption flags; imports, rollbacks and jobs in memory | import, rollback, encryption jobs, legacy reindex | database |
| `filestorage`, `persist-link`, `pdf-generator`, `sign-tool`, `external-reader` | files, links, browsers, certificates | stateless or single-statement request handlers | task, event |
| `notification` | messages and their delivery state | send and resend | providers |
| `id-api` | users, sessions, authorisation codes | login, OAuth, second factor | front ends |
| `admin-api`, `cabinet-api`, the fronts | schemas, user interface state | CRUD | all |

**Interaction.**  A finished task, event or gateway is announced by a
*completion* message `{workflowId, taskId | eventId | gatewayId}` on
`bpmn-manager-incoming`.  The manager looks up the flows that leave the
finished element, appends an `in` message that names them to
`workflows.data.messages`, and for every flow sends a message to the queue of
the service that owns the flow's target.  That service inserts a row and, when
the row is worked off, sends its completion.  A parallel join
(`gateway-N-end`) has no row: it is done when `data.messages` names each of
its incoming flows.  An end event makes the manager cancel what is unfinished
and set `is_final`.

**What is hard here.**  Every service runs in replicas, and each replica
handles `maxHandlingMessages` messages concurrently, interleaved at every
`await`.  No handler holds a transaction: each is a sequence of single
statements and sends.  Messages are acknowledged after handling, so a crash
redelivers a message whose effects are partly there.  Exceptions are caught,
reported on the workflow and the message counts as handled.

### What makes each component correct

| Component | Correct when | Where it is stated |
|---|---|---|
| manager with task, gateway and event service | it walks the schema and nothing but the schema: nothing starts early or too often, no token is dropped, the workflow ends or says that it cannot | `WorkflowEngine`, `TokenFlow` |
| `task` (HTTP) | one of several commits of a task wins and is reported; a task that is done is signed by every signer, or by as many as the template asks for; the signers sign in their order; a signature is one of what the document shows | `Commit` in `WorkflowEngine`, `DocumentSigning` |
| delay daemon | a delay is reported once by however many replicas; a lock left behind does not keep a delay back; young locks stay | `DelayDaemon` |
| postponed notifications | each report stands for a sending of its own that has not thrown; sent in the end; sent at the dates of the schedule | `DelayDaemon` |
| template caches of `task` | a changed template leaves the cache, or does so after a bounded time; a list is not older than the request; the replica listens again after a break | `TemplateCache`, `PgPubSub` |
| message queue library | a message leaves the queue only when it is handled and what follows from it is under way; each is settled in the end | `MessageQueue` |
| `register`, index | the index ends up with the data of the records; "Synced" means that it has; a reindex repairs it | `RecordIndex` |
| `pdf-generator` | every job is answered; no browser is idle while a job waits | not modelled |
| other services | single-statement CRUD or stateless; nothing that depends on an order | - |

## 2. Modules

| Module | What it models |
|---|---|
| `WorkflowEngine` | one workflow: manager, task, gateway and event service, the queues between them, the delay daemon and the users' commits |
| `TokenFlow` | abstract: what walking a schema means |
| `WorkflowTokens` | properties of the engine that count tokens or look ahead; the refinement mapping onto `TokenFlow` |
| `MCWorkflow` | schemas for TLC |
| `WorkflowEngineProofs` | theorems about the engine, for every schema: nothing starts early, `TokenFlow` is implemented |
| `WorkflowProgressProofs` | no token is lost, a done join continues |
| `WorkflowCountProofs` | nothing starts more often than tokens come to it |
| `DelayDaemon`, `DelayDaemonProofs` | the daemon that wakes delays and sends postponed notifications, in every replica, with the stop event and time |
| `MessageQueue`, `MessageQueueProofs` | how a service consumes a queue over connections that break |
| `RecordIndex`, `RecordIndexProofs` | the register's search index: requests, history, afterhandlers, worker, reindex |
| `DocumentSigning`, `DocumentSigningProofs` | requests at work on one task and its document: updates, PDFs, signatures, commits |
| `MCSigning` | its instance for TLC: the list of signers, the symmetry |
| `PgPubSub` | the connection on which a replica of the task service listens to the database, and its reconnect |
| `TemplateCache`, `TemplateCacheProofs` | the cache in Redis, composed with `PgPubSub` (`OnLink`) by the notifications that arrive or are lost |

Next to a definition stands, now and then, one marked *mutant*: the same
definition with a plausible mistake.  No specification uses them; the property
of some run is violated when the mutant takes the definition's place, which
shows that the property looks at that piece of code (`mutants` in
`PROJECT.json`).

### WorkflowEngine

*Schema constants.*  `Nodes` are the tasks, events and opening gateways;
`Joins` the `gateway-N-end`s; flows are `bpmn:sequenceFlow`s.  `First[n]` is
what `sequenceFlow.find` yields for a task or event: the code follows exactly
one flow out of those.

*State.*  `rows` stands for the three tables `tasks`, `gateways` and `events`:
a row is `draft` (a task inserted by a `create` that has not finished yet),
`open`, `finished`, `failed` (an event saved by the error path) or `cancelled`.
`history` is the set of flows named in `workflows.data.messages`; an `out`
message names the same flows as the `in` message of its handler, so a set is
enough.  `incoming` and `outgoing` count the deliverable copies of each
message; their order is left open because several messages are unacknowledged
at once and any of them may come back.  `mgr` and `wrk` are the handlers that
run.

*Actions.*  One action per database statement or send.  The manager:
`Receive` (completion read, row and schema loaded), `PushIn`
(`appendMessage` returning the updated workflow; a final workflow is walked no
further), then per flow `Skip`, `PushOut` and `SendOut`, or `BeginFinish`
followed by the two `cancelAllInProgress` updates in any order
(`Promise.all`), `SetStatusFinal`, and `AckIn`.  `Held(s)` is the workflow the
handler holds: the code decides about a join with the copy that the last
`appendMessage` *of this handler* returned, never with a fresh one.  The services: `Take`, `CreateGateway`,
`CreateEvent`, `CreateTask`, `FillTask`, `Produce`, `AckOut`; their catch
blocks are `RetryLater`, `CarryOn` (`notFailOnError`) and `GiveUp`.
`Commit` is a user's, `DaemonPick`, `DaemonSetDone` the delay daemon's;
`SendCompletion` the send that follows either.

*Faults.*  `ManagerCrash`, `WorkerCrash` lose a handler at any step and give
its message back to the queue.  `ManagerError`, `WorkerError` are exceptions.
`ErrorPathFails` is an exception that the code only logs, and it takes one or
two of them: `Unguarded` says where a handler of a service has no catch block
that works.  One is the catch block itself; the other is the creation of an
event until its template is read, because the catch block of `event.js` reads
`jsonSchemaObject` (line 1394), which is undefined before line 1213.  What such
an exception drops is kept in the history variables `droppedNodes` (the node
that was asked for) and `droppedFlows` (the flows of a completion, when the
manager's own catch block fails), and the properties except exactly that.  The
catch block of a task creation (`task.ts:1969`) is different: an exception there
is an unhandled rejection, which ends the process (`app.ts:137-141`), and the
message is delivered again: `WorkerCrash`.

`MaxCrashes` and `MaxErrors` bound each kind of fault,
`MaxFaults` both together.

*Abstractions, named.*  Rows inserted by a retry and the retry message are one
step (the code saves the row in the background).  Whether an exception is
retried is left open (the retry count is not modelled).  The result of an
exclusive gateway may be empty (`Outcomes`): when no condition holds and there is
no default flow the row is saved and nothing follows, which no property counts as
a loss since no token is owed to a flow that was not chosen.  A crash of the
process that serves the user's commit, between the commit and the send, is not
a step of this module.  Debug mode, stopping a workflow by
hand and messages to a sub-workflow are left out.

### DelayDaemon

*State.*  The columns `done` and `lock_id` of the delays (`Events`) and
postponed notifications (`Notes`) of one workflow, the age of each due date
(not yet due, due, due for more than an hour), the ticks that run, and the stop
event.  `left` is the length of a notification's `data.dueDates`.  `young`,
`tried`, `delivered` and `unseen` are history variables: locks set less than an
hour ago, how often a notification has been sent again, how often a provider has
taken it, and how often one has refused it without an exception.

*Actions.*  A tick is `LockRunningEvents` (one update of every delay that is
due, not done and not locked), `GetRunningEvents`, then `SetDone` and `Produce`
per delay, then `UnlockOldLockedEvents`, and in its second half
`GetPostponedEvents`, then per notification `SendSucceeds`
or `SendPassesUnseen` (a bad SMS result is only logged and the result of an
e-mail is not looked at, `event.js:1779-1784`),
`SetNotificationDone` and `ReportNotification`, or `SendFails` or
`SetDoneFails` followed by `Postpone`, then `TickEnds`.  `DelayError` ends the
first half, `NoteError` and `Crash` the tick.  `BecomeDue`, `BecomeLate` and
`LockAges` are time.  `StopEventsRead`, `StopEventsCancel` are the stop event,
which cancels by id what it has read as in progress.

*Abstractions.*  Lock identifiers are 20 random bytes: `Unused` never yields one
that is in use.  A daemon runs one tick at a time (`isRunning`).  The first
sending of a notification, which fails and fills `dueDates`, is before `Init`.
A tick writes `data` back as it has read it (`copy`), which is why another
replica's entry may come back.

### MessageQueue

*State.*  The broker: `queue`, `gone`, per process the unacknowledged
deliveries of its channel and their tags.  A process: `link`, its view of the
connection, and its handlers; `old` marks a handler that has its tag from an
earlier channel.  `handled`, `forwarded` and `mistaken` are history
variables: which messages a handler has returned true for, which follow-up
messages have reached the broker, and which messages an *old* handler has
acknowledged.  `keys` are the Redis keys of handled messages.

*Actions.*  `Deliver`, `GetKey`, `Produce`, `HandlerReturns`/`NotHandled`,
`Ack`/`Nack`, `SetKey`, and `AckKnown`, `DeleteKey` for a message whose key is
found; Redis may fail at each key, and when it fails at `DeleteKey` a message
that has been acknowledged is handled and acknowledged once more.  `Settle` is
what the broker does with a tag: acknowledge the delivery it stands for *on the
channel of now*, or close the channel if it stands for none.
`Drop`, `NoticeClose`, `Reconnect`, `CloseOk`, `Connect`, `InitFails` are the
connection.  `Reconnect` of a channel that was closed on a connection that stands
waits for the broker's CloseOk (`closing`); a connection that dies meanwhile leaves
`isClosing` and `reconnectTimeout` set for good (`deaf`).  `Exit` is
`process.exit(1)`, where an exception that nobody catches ends
(`unhandledRejection`).

*Abstractions.*  A channel that cannot be created counts as a
connection that cannot be made.  Business code is a follow-up message and a
return value; nothing bounds the time it takes.

### RecordIndex

*State.*  `history` is the table the trigger writes, a row per change;
`records` and `index` name the history row whose data they have; `queue` is
the table `afterhandlers` in the order of `created_at`; `writer`, `worker`
and `reindex` are what requests, workers and a reindex are about to do.
`orderly` is a history variable: no request has overlapped another on the same
record, stopped half way, patched, and no reindex has begun.  These are what the
queue does not cope with, and the properties say so.

*Actions.*  `Save` (create and update), `UpdatePatch`, `Delete` and
`Destroy` write the record and, by the trigger, its history;
`FindHistory` and `CreateAfterhandler` are the two statements of
`createAfterhandlers`.  The worker: `FindFirstNotSynced`, `Handle` or
`HandleFails`, `SetSynced` or `SetSyncedWithError`.  The reindex, one step per
await: `ReindexStart`, `ReindexReset`, `ReindexClear`, `ReindexPage`,
`ReindexAdd`.  `RequestFails`, `WorkerFails`, `ReindexAddFails` and
`ReindexDies` are faults that somebody hears of.  `ReindexResetFails` and
`ReindexAddPasses` are silent: `dropIndex` logs its exceptions and the reindex
goes on with the old documents, and `reindex` does not look at what `reindexAdd`
answers.  `reindex.unrepaired` are the records these have passed over and that
have not been written since.

*Abstractions.*  One key; data is told apart by its history row.  `Hazards`
selects what may happen, see the comment there.  Restoring a deleted record
under its old identifier (rollback), `isDisableHistory` and bulk operations
are left out; the latter queue no afterhandlers and are `UpdatePatch` in that
respect.

### DocumentSigning

*State.*  `document`, `signatures` (rows in the order of `created_at`),
`task` (its signers and status) and the Redis key `generating` are shared.
`request` is what every request has read so far and what it does next.  `sent`
are the requests that have told the manager that the task is done.  Data is
known by the updates it contains, a PDF by its number and the data it shows, so
that a stale signature can be told from a current one.

*Actions.*  One action per await that reads or writes what is shared, named
after what the code calls:
`PUT /documents/:id` is `ReadForUpdate`, `CheckUnsigned`, `UpdateData`;
`POST .../pdf` is `ReadForPdf`, for a large file `MarkGenerating`, `QueuePdf`
and the consumer's `TakePdfMessage`, then `CreatePdf`, `AddDocumentFile`,
`PdfMessageDone` (or `PdfMessageFails`, `PdfMessageReturns`);
`POST .../sign` is `ReadForSign`, `CheckTurn`, `GetDataForSign`,
`CreateSignature`, then `Recheck`, or `RecheckFails` and `ResetSignatures`, and
with `?commit=true` the commit;
`DELETE .../sign` is `ReadForDelete`, `DeleteDocumentSigns`; the endpoints that
set the signers are `SetSigners`;
a commit is `ReadForCommit`, `CheckTask`, `CheckSigned`, `SetStatusFinished`
(`UPDATE ... WHERE finished = false`), `ReadForFinal`, `SetStatusFinal`,
`Produce`.  `RequestStops` ends any of them anywhere, `KeyExpires` is Redis.

*History.*  `history` records what some properties exclude, each found with
TLC and each possible in the code: `overlap` (an update or a PDF began or was
under way while another request was at work), `resign` (signers set anew when
signing had begun), `withdrawn` (signatures deleted after a commit had counted
them, or of a task that was done).

*Abstractions.*  The template asks for a PDF and signatures and keeps the order
of signers (`isKeepSignersOrder`).  `MinPercent` is the template's
`minSignaturesLimit`: with it a commit is content with fewer signatures
(`LimitRaised`).  Rejections, `multiSignInfo`, attachments and
additional data to sign, the text of letters, access checks and the
cryptographic check are left out; that any of them refuses
a request is `RequestStops`.  So are the attachments a system task writes into the
data without dropping the PDF (`isKeepDocumentFile`).

### PgPubSub and TemplateCache

*State.*  Of the connection: `conn`, `heard` (channels it listens on), `inbox`
(notifications under way), `client`, and of the reconnect the flags
`isReconnecting` and `reconnectTimer`, the number of interval timers that tick,
the ticks that wait in `queryQueue` and over which client the query goes.  Of
the cache: `row` (the version in the database), `cache` and `stamp` (the entry
and its timestamp in Redis), `deletes` (deletions sent and not yet done) and
the `reader`s.  `late` and the entry's `overtaken` are history: a tick
came while another was under way; a change passed the entry without a
notification, or the entry was set after a change it does not show.

*Actions.*  `Reconnect`, `SetTimer`, `Tick`, `Connected` or `ConnectFails`,
`Listen` (one per channel) or `ListenFails`: `reconnect()` and the callback of
its timer, which is asynchronous and is not held back by the tick before.
`Break`, `ErrorIgnored`: the end of a connection and its error event.
`Get`, `Fetch`, `Set` are `getOrSet`; `Request`, `ReadOld` and `ReadNew` (in
any order, `Promise.all`), `Invalidate`, `SetStamp` come before it in
`getOrSetWithTimestamp`.  `Update`, `Notification`, `DeleteKey` are the trigger,
`on('notification')` and the deletion it does not wait for.

*Abstractions.*  One key, of one of three kinds that `Init` chooses: `noticed`
(templates, units: deleted by notifications), `stamped` (lists of tasks,
workflows, documents), `timed` (keys that no notification deletes, such as
`task.documentTemplate.getAll`).  `Connections` are places: a closed one stands
for the next client.  All replicas share the cache and each hears every
notification; one replica is looked at, which is the worst case.  Failures of
Redis, and timestamps that are equal for different data or go back, are left
out.  So is the deletion of a row: the trigger reads `NEW.id`, which a deletion
does not have, and no entry of `findById` is deleted for it.

## 3. Runs

All bounds are in the configuration files.  `CHECK_DEADLOCK FALSE` everywhere:
each system stops when its work is done and the bounds on faults or changes
are used up.

| Run | Question | Why the bounds suffice |
|---|---|---|
| `EngineFork` | Does the engine walk a schema with a parallel block, an exclusive choice and a delay as `TokenFlow` does, without starting a node too often, even when exceptions are swallowed? | two handlers on each side: the two branches' completions are handled at the same time in every interleaving; two exceptions, so that a catch block that works fails as well; six rows, one per node |
| `EngineFaults` | Does a crash or an exception anywhere lose a token or start something early, and does the workflow end or say that it cannot? | one fault: a crash duplicates at most one message; six rows hold the duplicates of the four-node schema; the event may be retried or tolerated, the task is committed at creation; fair handlers |
| `EngineRace` | (violated) Is nothing in progress in a final workflow? | smallest schema that shows it |
| `Delays` | Do replicas report each delay once, and postponed notifications only after a sending of their own that has not thrown? Is every due delay and notification done in the end? | two replicas, a delay and a notification, a crash and an exception anywhere, the stop event; four lock identifiers, one per tick that leaves locks behind and two at work |
| `DelayUnlock` | (violated) Do young locks stay? | two replicas |
| `NotificationSchedule` | (violated) Is a notification sent again once per date of its schedule? | one replica, two dates, three failures |
| `QueueCrash` | Does a message leave the queue before it is handled and its follow-up is sent? | two replicas of two handlers, two messages: each message may be in the hands of both replicas; a lost connection, a crash and a message given back; a handler may outlive its channel |
| `QueueLive` | Is every message settled? | one replica, two lost connections, one of which may die while it is being closed, and any number of channels that the broker closes itself because of an unknown tag |
| `IndexQueue` | Does the index catch up, and agree when all is done? Does a reindex repair it? | two requests, two records, four history rows: several rows of a record wait at once; two failures, so that the worker dies with either, the index fails and a request throws, or a reindex that has kept an old document passes over a record as well; pages of one record, so that a reindex turns a page |
| `IndexOverlap` | (violated) Does "Synced" mean in sync? | one record, two requests |
| `Signing` | Does one commit win, with enough signatures, in the order of the signers, of the current document? | three requests of any kind: two that race and a third that changes what they have read; three signers of whom two are enough (60 per cent); one request may stop anywhere, or a PDF message fail or come back. Requests are symmetric and no property is temporal, so the symmetry is sound |
| `TemplateCache` | Is what is answered current, does the rest heal, does the replica listen again? | two readers: one sets what another one's notification or comparison has made stale; two changes; two breaks, so that the reconnect breaks as well; two channels: a reconnect may stop between two LISTENs; two connections: a tick may overlap another |

**Fairness.**
`EngineFaults`: weak fairness of each handler, because RabbitMQ redelivers until
acknowledged and Node runs every started handler; and of each row's steps, i.e.
users commit and due dates arrive.
`Delays`: of each daemon (`setInterval` fires again) and of time; a step of a
daemon does not include the failures, whose number is bounded.
`QueueLive`: of each handler, of the broker's delivery to a consumer that has
room, and of noticing a lost connection (heartbeats) and opening a new one.
`IndexQueue`: of what a request, the worker or a reindex has begun; new requests
are not fair.
`TemplateCache`: an entry ages (`EX`; every key has the default time to live), a
request that has begun goes on, `SetTimer`, `Tick`, the errors of broken
connections and the queries in `queryQueue` happen; and strong fairness of
`Connected`: the database is reached again sooner or later, although
attempts may fail any number of times before.
Faults are never fair.

**What the violated statements show.**

* `EngineRace`: `finishWorkflow` "stops all tasks and events in progress"
  and then sets `is_final`, but a task whose message is under way is created
  afterwards - `TaskBusiness.create` does not look at `is_final` - and stays in
  progress in a final workflow.
* `DelayUnlock`: `unlockOldLockedEvents` recognises old locks by the due date.
  A delay that is an hour overdue when it is locked, after an outage, loses its
  lock at the end of any other replica's tick, and a third one may take it as
  well.  This is why `ReportedOnce` speaks of delays that are not an hour
  overdue, and why `DueIsTakenUp` excludes behaviours in which replicas
  release each other's fresh locks forever.
* `NotificationSchedule`: `handleNotification` prepares a list of dates for
  sending again, and each failure moves the next one to `data.dueDate`; but the
  query selects by the column `due_date`, which stays in the past, so that the
  notification is tried at every tick, and goes on when the list is used up.
* `IndexOverlap`: `createAfterhandlers` reads the newest history row and queues
  it an await later.  Of two updates of one record, the one that read first may
  queue last, and the older data stays in the index.

**What the properties do not hold of.**  They are stated for what the code can
cope with; these limits were found with TLC or read in the code.

* Joins.  A join counts the flows of all messages since the workflow's start
  (`workflow.ts:223`), so in the second round of a loop it lets the first branch
  through and then the second one too; and behind a done join the flow is not
  looked at again for another join (`workflow.ts:234`), so the token is dropped.
  A parallel gateway with a branch directly into a join, beside at least two
  others, starts what is behind the join twice: the handler refreshes the workflow
  it holds at every `out` message, so that after the branch that completes the
  join another one of the same handler finds it done as well.
  `NoExtraStart` and `DoneJoinContinues` are checked on schemas without these
  shapes, and the theorems about them name the shape they exclude
  (`OnceAtJoins`, `JoinsStandAlone`, `JoinsFedSingly`); the other theorems hold
  for all schemas.
* One exception while an event is created and before its template is read leaves
  a workflow that stands still and is not flagged (`event.js:1209`, `1394`, `1532`,
  `1516`); elsewhere it takes two, the second in a catch block
  (`ErrorPathFails`).  `EveryTokenIsFollowed`, `DoneJoinContinues` and
  `EndsOrReports` except what is lost in this way and show that nothing else is.
* An exclusive gateway without a flow to choose ends its branch without a flag;
  `EndsOrReports` is checked on a schema without one.
* What a provider refuses without an exception is done and reported like what it
  has taken (`unseen`).
* A crash between `setDone` and `produce` (or between a user's commit and its
  message) loses the completion.
* A handler that outlives a reconnect acknowledges its old tag on the new
  channel, where it stands for another message, which is lost (`mistaken`).  With
  the Redis keys a send and an acknowledgement that are lost together leave a key,
  and the redelivered message is dropped as known: `AckedIsForwarded` is false with
  `Cache = TRUE`.
* A connection that dies while the reconnect waits for it to be closed leaves the
  replica deaf until it is restarted (`index.ts:75-79`, `69`, `72`);
  `EveryMessageIsSettled` excepts the case that this has happened to all replicas.
* A reindex can end regularly with an old document or without a record, because
  failures of `dropIndex` and answers of `reindexAdd` are not looked at.
* A patched record never reaches the index; a reindex leaves all but the two
  newest changes of the key in the queue, because `getByKeyId` returns two rows
  by default (`history.ts:130`); several workers would apply rows out of order
  (the chart deploys one replica); an exception outside the inner `try` of a
  reindex leaves its mark for a day.
* Signing.  The consumer of large PDFs does not look whether the document is
  final and deletes its signatures; a sign request that fails after a commit
  (a letter that cannot be sent is enough) deletes the signatures of a task
  that is done.  After a crash between a signature and the second check the
  signature that is out of order stays, and everyone else is refused.  A
  message that the task is done is lost with a crash after the compare-and-set.
  An update or a PDF that overlaps a signature leaves a signature of data that
  the document no longer has.  Where no signers are set a new PDF keeps the
  signature of the old one.
* Caches.  A reader that has read before a change and sets after it keeps the
  old entry until its time to live; so does a change while nobody listens.  When
  connecting takes longer than the interval of the timer, ticks overlap: with
  four connections TLC finds that a late `SetTimer` forgets the newer client
  while late ticks end the reconnect, after which the replica is deaf for good;
  a timer that is overwritten is never cleared.

## 4. Proofs

For every value of the constants, without bounds on rows, messages, faults or
replicas:

| Theorem | States | Assumes |
|---|---|---|
| `WorkflowEngineProofs!TypeCorrect` | `TypeOK`; queues and handlers name existing rows | `SchemaAssumption`, `BoundAssumption` |
| `NothingStartsEarly` | `StartedOnlyWhenReached` | the same |
| `FlowsComeFromSettledRows` | `TakenOnlyWhenSettled` | the same |
| `Refinement` | `Spec => ImplementsTokenFlow` | the same |
| `WorkflowProgressProofs!TokensAreFollowed` | `EveryTokenIsFollowed` | the same |
| `JoinsContinue` | `DoneJoinContinues` | the same; no join leads into a join (`JoinsStandAlone`) |
| `WorkflowCountProofs!StartsAreCounted` | `NoExtraStart` | the schema's assumptions and `FiniteAssumption`; a flow into a join is the only one of its row (`JoinsFedSingly`); no message is handled again, no retry, no tolerated error (`Repeats`); no branch comes to its join twice (`OnceAtJoins`) |
| `DelayDaemonProofs!TypesHold` | types | `DaemonAssumption` |
| `OnceWhenPrompt` | `ReportedOnce` | the same |
| `NoneReportedUntried` | `ReportedIsSent` | the same |
| `MessageQueueProofs!HandledBeforeAcked` | `AckedIsHandled` | `QueueAssumption` |
| `ForwardedBeforeAcked` | `AckedIsForwarded` | the same; no Redis keys (`~Cache`, the default) |
| `RecordIndexProofs!IndexFollowsRecords` | `IndexAgrees` | one worker (`OneWorker`) |
| `ReindexRepairs` | `ReindexRestores` | requests wait while a reindex is at work (no `"busy"` among the `Hazards`) |
| `TypesHold` | types | the same |
| `DocumentSigningProofs!TypesHold` | types | `SigningAssumption` |
| `OneMessage` | `CommittedOnce` | the same |
| `OrderRestored` | `SignedInOrder` | the same |
| `DoneIsSigned` | `CommittedIsSigned` | the same |
| `CurrentIsSigned` | `SignedIsCurrent` | the same |
| `TemplateCacheProofs!TypesHold` | types; a timer that is set ticks; requests know only what has been | `PubSubAssumption`, `CacheAssumption` |
| `CacheIsNotified` | `NotifiedIsCurrent` | the same |
| `ListIsFresh` | `StampedIsFresh` | the same |
| `LinkIsNeverDeaf` | `NeverDeaf` | the same |

*Engine.*  `StartedOnlyWhenReached` speaks of rows and queues only; a step of
the manager preserves it only if what the *handler* holds is covered by what is
recorded, so the invariant `IInv` adds: `ReportedIsSettled` (a completion, in a
queue, in a handler, or about to be sent, is of a row that has been worked off),
`ChosenAllowed` (a gateway's row holds a result the gateway may choose),
`ManagerKnows` (the flows a handler still has to walk and the workflow it holds
are part of the history; a handler that finishes the workflow has reached an
end) and `InTransitReached` (nodes in handlers' hands are reached).  All parts
are monotone in `history` and in `RowsGrow` (rows are only added and never
become unsettled), so one frame lemma per component carries them over every step
and an action only has to show what it changes itself.  For the refinement only
`PushIn` and `SetStatusFinal` are visible; `Reached` is `TokenAt`.

*Tokens are followed.*  `EveryTokenIsFollowed` looks at the completions in the
manager's hands; that one of them will walk on has to be known before.
`FlowsFollowed` says of every recorded flow where it is: over, on its way as a
completion that has not been acknowledged and whose handler, if there is one, has
the flow before it (`StillToWalk`), or with the services (`Asked`: its message,
a handler at work on it, a row).  A crash gives the completion back and undoes
nothing; a catch block that works flags the workflow or puts the message back, and what an
exception drops that is only logged is in `droppedFlows` or `droppedNodes`.
`JoinsFollowed` is the same of a join: of its flows one is in the hands of a
handler that holds a workflow in which the join is done.  The handler whose
`in` message is the last one has read all the others with it, which is why not
all branches can miss each other.

*Starts are counted.*  Two invariants, one on top of the other.  `Places`: the
completion of a row is in one place at most (the queue, a user's or the daemon's
send, a worker, a manager handler), and only a finished row has one.  `Counted`:
`Starts(n)` is bounded by `Spent(n)`, the flows and the rounds of joins that
have been *used* for starting n, not only those that might be; each `PushOut` uses
one that no other handler can use.  For flows this follows from `Places`; for
joins from `OneHot`: of the handlers at the flows of one join at most one holds a
workflow in which the join is done; and from `RecordedIsPast`: a flow into a join
that is recorded has no completion left that could record it again.
The hypotheses `Repeats`, `JoinsFedSingly` and `OnceAtJoins` are each what a step
of the code breaks `OneHot` or `Places` with.  What is used was there
(`SpentIsCredit`), which gives the property; the sums are cardinalities of sets
that are finite because a workflow's rows are.

*Daemon.*  `ReportedOnce` follows from an invariant that counts: a delay that
some tick still has in its list has not been sent, and no two ticks have the
same delay, because both lists come from locks with different identifiers and a
lock of a delay that is not done is never released while the delay is not late.
`ReportedIsSent`: every tick that is about to report a notification has
tried to send it without an exception, so reports and the ticks that are about to
report are together not more than the sendings; that the set of those ticks is finite is why the
replicas are.

*Queue.*  A delivery that is not acknowledged belongs to exactly one handler of
the same process that is not old, the one with its tag; so the acknowledgement of a
handler that is not old settles its own message, which is handled by then, and what
an old one settles is in `mistaken` by definition.  For forwarding: a handler whose send was lost holds a delivery
on a dead channel, so its acknowledgement is lost too.

*Index.*  While requests are orderly: the newest history row of a record is the
last one queued for it, or in the hands of a request; rows are handled in the
order of the queue (the handled ones are a prefix); the last handled row of a
record is in the index or has an error; a worker has the first waiting row.
When all is quiet these give the agreement.

*Reindex.*  `PagesWritten` says what is in the index after each page: the data
of the records whose place in the order of creation is before the offset, of the
page at work those already written, and of others nothing, for all records that
are not in `unrepaired`.  It is kept because
nobody else writes (`Resting`: a reindex begins when all is quiet).  The end is
the first empty page; that behind an empty page there are no records either is
`PlacesOfRecords`: the places of n records are 0 to n - 1 without gaps, which
follows from counting (`PlacesFilled`: an injection between finite sets of the
same size is onto), since induction is not available.

*Signing.*  `OneMessage`: at most one request is past the compare-and-set.
`OrderRestored`: the last signature of a wrong order belongs to a request that
has its second check before it.  `DoneIsSigned`: the signers a
request has read are those of the task unless they were set anew
(`FreshCopies`), so from `CheckSigned` on the signatures are enough
(`CountedIsSigned`), which only a deletion takes away: one more signature does not
(`EnoughStays`, which counts the users who have signed).  `CurrentIsSigned` needs
the most: without overlap an update or a PDF is the only request at work
(`EditsAlone`), and the PDF, all signatures and what the requests have read are
of the data and the PDF the document has (`AllCurrent`).

*Caches.*  `NotifiedIsCurrent` is inductive with the types.  `ListIsFresh`: of an
entry that is not overtaken, the timestamp in Redis and every timestamp that a
request has compared or is going to store are not newer than the entry
(`StampsReliable`); a request sees the new timestamp after it has come, so what
is left in the cache is not older.  `LinkIsNeverDeaf`: while no tick has been
late, the replica is in one of three phases (`Listening`, `Ending`, `Ticking`),
with one timer and one tick at most, whose LISTENs go over its own client.

Only model-checked: everything that needs liveness under fairness, which TLAPS
does not reach: `EndsOrReports`, `DueIsTakenUp`, `PostponedIsSent`,
`EveryMessageIsSettled`, `CatchesUp`, `Heals` and `ListensAgain`.  Every other
property of a passing run is proved.

## 5. Open

What would come next, in this order.

* `PdfCluster`: the pool of browsers; every job is answered, no browser is idle
  while a job waits, and a browser that has died is not noticed.
* The flag `is_current` of tasks: two creations of a task at the same time.
* Jobs of the register in one replica's memory (import, rollback, encryption),
  with a restart.
* Proofs: `StartsAreCounted` with redeliveries, where a node may start once more
  for each message that is handled again; `ReindexRepairs` for the records no
  request has touched since the reindex began, when requests do come.

## 6. Not modelled

`filestorage`, `persist-link`, `sign-tool`, `external-reader`, `cabinet-api`,
`admin-api` and `id-api` handle requests that each touch one row or one outside
system; what could go wrong there is input validation or cryptography, not the
order of steps.  `notification` sends through providers; its SMS scheduler has
two in-memory sets in one process.  `pdf-generator` runs jobs on a pool of browsers and
keeps nothing.  The register's imports, rollbacks and encryption jobs are loops
over pages whose progress is in the memory of one replica: a restart loses job and
progress together.  The fronts are user interface.  The
packages are helpers and plugins; an event plugin is one step of the engine that
succeeds or throws.  Within the modelled services, sandboxed code, the contents
of documents and messages, access checks and logging are data.
