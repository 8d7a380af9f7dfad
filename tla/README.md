# Verification of the Delivery Orders Hub

TLA+ models of the hub's order pipeline, order desk, dashboards and webhook
translation, model-checked with TLC, with inductive proofs checked by TLAPS. Paths
without a prefix are relative to `apps/api/src`.

## 1. The system

Delivery platforms post signed webhooks. The API process stores the raw body and
queues a job; a worker process turns the body into an order; operators move the
orders through their lifecycle on a dashboard that is fed over Redis and
websockets. Failed jobs are parked in a dead-letter queue and requeued by hand.

| Part | State it keeps | Operations | Talks to |
| --- | --- | --- | --- |
| Webhook controller, signature guard (`webhooks/`) | none | verify, hand over to `receive` | intake |
| Intake (`ingestion/ingestion.service.ts`) | `WebhookDelivery` rows | `receive`: insert, add a job, ack; P2002 acks a duplicate | PostgreSQL, `ingest` queue |
| Ingest worker (`ingestion/ingest.processor.ts`) | executions in memory | `process`: read, adapt, commit, publish | PostgreSQL, pub/sub, adapters |
| Failure listener (same file, `onFailed`) | runs in memory, not awaited by the worker | FAILED, or park a letter and DEAD | PostgreSQL, `ingest-dlq` |
| Dead-letter queue (`dlq/`) | letters in Redis | `list`; `retry`: fetch, reset, add, remove | PostgreSQL, both queues |
| BullMQ (external) | jobs, attempts, locks, stall counters | take, finish, fail, promote, stalled check | workers |
| Adapters (`providers/`) | none | payload to canonical order, or an error | worker |
| Order lifecycle (`orders/domain`, `packages/shared`) | none | `canTransition` on a table | orders API, dashboard |
| Orders API (`orders/`) | `Order`, `OrderEvent` rows | `transition`, `list`, `metricsSummary` | PostgreSQL, pub/sub |
| Realtime bridge (`realtime/`) | subscriptions | publish; relay to sockets | Redis, sockets |
| Dashboard (`apps/web`) | Pinia store | load a snapshot, apply events, ask for transitions; columns and counters; poll the letter count | orders API, sockets, dead-letter queue |
| Simulator (`simulator/`) | none | draw a cart, build, sign and send a payload; advance an order at random | webhook controller, orders API |
| Bootstrap, configuration, health (`main.ts`, `worker.main.ts`, `config/`, `health/`) | the environment | validate the environment, then start | |

What is hard here:

- **partial failure**: every handler is a chain of awaits over two stores that share
  no transaction (`receive`, `process`, `onFailed`, `retry`, `transition`);
- **duplicates and double execution**: providers retry webhooks, the same order comes
  in distinct events, BullMQ runs a job again after a failure, a crash or an expired lock;
- **concurrency**: any number of workers, of retry calls and of operators, and listeners
  that run beside the next attempt;
- **lost updates**: `transition` writes on the strength of a status it read earlier;
- **messages against snapshots**: a dashboard loads all orders once and applies events all
  the time, compares nothing with what it holds, and does not load again after a reconnect;
- **answers that are old**: the simulator asks for a move of an order as it was listed; the two counts
  of the metrics summary are two statements; polls of the letter count overtake each other;
- **numbers at the boundary**: pesos with fractions, cents, an INTEGER column;
- **agreement between code and queue**: `onFailed` recomputes BullMQ's decision whether
  a job will be retried, and files a letter under an id that the queue may refuse.

What makes each part correct:

- intake: a stored body has a job, or the failure of the add was reported;
- worker: at most one order per business key, announced at most once and after its commit,
  and success (PROCESSED, a completed job) only when the order exists;
- listener and dead-letter queue: letters are for final failures only, and a failure has a letter, a
  listener about to park one, or a requeued job, unless the process died under the listener. A requeued
  job that fails always ends that way (§3);
- queue and worker together: every job ends, and every accepted body ends as an order, as a letter, or with a
  failure whose listener died;
- orders API: status and audit trail agree, only legal moves from real statuses are
  recorded, only committed rows are published; a summary counts each order once;
- bridge and dashboard: only committed rows are shown, and a board that missed nothing shows the
  database once things are quiet, in its columns and in its numbers; the letter count comes off an
  old number;
- guard and adapters: what a provider's own signing and payloads produce is verified,
  translated and stored as the order that was meant, and everything else that reaches the guard is a 401;
- bootstrap: one failed boot names all that is missing.

The full list of hazards, each at its line with the properties that cover it, is under
`hazards` in `PROJECT.json`.

## 2. The modules

| Module | What it is |
| --- | --- |
| `Intake` | The abstract promise of the pipeline: bodies are stored, each business order is created and announced at most once, success is claimed only when the order is there. |
| `IngestPipeline` | `receive`, `process`, `onFailed` and `retry`, with BullMQ between them. |
| `DlqIndicator` | Composition: the pipeline, `GET /dlq`, and the letter count of the dashboard that polls it. |
| `MCIngestPipeline`, `MCDlqIndicator` | Their instances for TLC. |
| `IngestPipelineProofs`, `LetterProofs` | Theorems: types, success and the refinement; letters, failures and stored bodies. |
| `OrderLifecycle` | The statuses and the transition table of `packages/shared`. |
| `OrderDesk` | Concurrent `PATCH /orders/:id/transition` calls on the orders that the worker creates. |
| `OrderReads` | Composition: the desk, the metrics summary, and the simulator's nudges of listed orders. |
| `Dashboard` | Composition: the desk, the gateway and the dashboards that watch it and click. |
| `MCOrderDesk`, `MCOrderReads`, `MCDashboard` | Their instances for TLC. |
| `OrderDeskProofs`, `OrderReadsProofs`, `DashboardProofs` | Their theorems. |
| `Adapters` | The providers' payloads to canonical orders, as operators. |
| `Ingress` | The start of the hub, and one webhook from its sender through guard and adapter to its row; checked directly. |
| `IngressProofs`, `AmountProofs` | Theorems: guard, boot and the rounding of one amount; orders, totals and rows. |
| `Sums` | Lemmas about sums over finite sets and lists of any length, which `OrderReadsProofs` and `AmountProofs` use. |

`IngestPipeline` implements `Intake`. `OrderReads` and `Dashboard` extend `OrderDesk` and implement it;
`DlqIndicator` extends `IngestPipeline` and only reads it. The
pipeline and the desk meet in one transaction, the one that inserts an order: `CommitOrder` of the
one is `Create` of the other. `Ingress` looks inside the step that `IngestPipeline` abstracts to
three kinds of bodies.

### `IngestPipeline`

*State.* `delivery` is the status column of `WebhookDelivery`; `orders` says which body's
transaction inserted the order of a business key. `jobState`, `attemptsMade`, `stalls` and
`lock` are what BullMQ keeps of a job, `dlq` the letters. `announced` counts the
`order.created` messages per order. `request`, `worker`, `listeners` and `call` are the
handlers that are under way, each with a pc; a pc is an await of the code.

*Identity.* `externalEventId` is the hash of the body and unique, so a delivery row is
identified with its body. The job of a delivery has the delivery's id (`jobId: delivery.id`);
a requeue gets a fresh id, which the model writes as the name of the call that adds it.

| Code | Actions |
| --- | --- |
| `receive` | `StoreDelivery`, `AckDuplicate`, `Enqueue`, `EnqueueFails` |
| `process` | `Read`, `RejectPayload`, `CommitOrder`, `FindDuplicateOrder`, `AckDuplicateOrder`, `Publish`, `ProcessingFails` |
| `onFailed` | `MarkFailed`, or on `Exhausted`: `Park` then `MarkDead` for a delivery's first job, `ParkRefused` for a requeued one |
| `retry` | `FetchLetter`, `ResetDelivery`, `Requeue`, `RemoveLetter`, `CallFails` |
| BullMQ (external) | `Take`, `Finish`, `Fail`, `Promote`, `ExpireLock`, `ReleaseStalled` |
| the process | `Crash` |

*Choices worth knowing.*

- One SQL statement, one transaction, and one queue call is one step. The write of a call
  may take effect while its answer is lost: `Enqueue`, `CommitOrder`, `AckDuplicateOrder` and `Publish`
  then go on as a failure. For the other writes the loss of the answer is the step followed by
  `ProcessingFails`, `CallFails` or `Crash`.
- The adapter and the insert are abstracted to three kinds of bodies: `Malformed` (the adapter
  raises `InvalidProviderPayloadError`), `Poison` (it raises another error, such as the
  `RangeError` of an invalid date, or the insert can never succeed), and good ones.
  Any await may also fail for a reason that passes.
- `MaxTries`: `IngestionModule` registers the queue with `INGEST_JOB_OPTIONS`; `DlqModule`
  registers it again without them (`dlq/dlq.module.ts`, 12), so a requeued job has one attempt.
- `Fail` and `Finish` move a job only while the worker holds its lock, as BullMQ's scripts do;
  `failed` is emitted only after the move. A job over its stall limit is failed with an
  `UnrecoverableError` when it is next taken.
- `Crash` also stands for an `onFailed` whose database or Redis call rejects: the listener's
  promise is not awaited, and the unhandled rejection ends the process. The worker process
  that comes back is idle.
- The letter has the id of its job (`jobId: job.id`). For the first job of a delivery that is a UUID. The
  job of a requeue has an id that BullMQ made up, an integer, and BullMQ 5 takes no integer as a
  custom id: `ParkRefused` is an add that always rejects and, by the same unhandled rejection, the death of
  the process (`Dies`, which `Crash` shares). `MaxCrashes` does not bound it: it is not a fault from outside.
- `orphaned` is history: the jobs that had failed for good when the process died under the listener that was
  about to park them. Nothing in the model reads it.
- A retry call on an unknown id is a 404 and changes nothing, so it is no action.
- Left out: delays and their lengths, the eviction of old completed jobs
  (`removeOnComplete: 1000`), the error column, the contents of an order.

### `DlqIndicator`

`DlqIndicator.vue` asks for the count when it is mounted and every ten seconds, and never waits for the
call before. `answers` are the counts that calls under way carry back; calls with the same count
are one element, so that any number may be under way, and a call that ends may or may not have
been the last with its count. `fetchDlqCount` is a call with the API's answer (`DlqService.list`
counts letters that no worker ever takes, so they are all waiting), `refresh` its arrival,
`refreshFails` the `catch` that keeps the last count. Before the first answer the indicator shows the
store's initial 0, in green.

### `OrderDesk`

`status` is the column of `Order`, `trail` the `OrderEvent` rows of an order, `patch` the PATCH
call that an operator has under way, `unannounced` the orders that a worker has committed and
not yet published, `feed` the `order.created` and `order.updated` messages. `Create` is the worker's
transaction, `Announce` and `AnnounceFails` its publish; `Decide` reads the order and asserts the
transition; `Apply` is `applyTransition`, one transaction, with an answer that may be lost;
`Publish` sends the row that the transaction returned; `PatchFails` is a rejection or a crash. The
400, 404 and 409 answers change nothing. Who clicks what is not constrained: any status may be
asked for, by any operator. Rows and messages carry a `version`, the length of the trail when the
row was written. It stands for `updatedAt`, which is in every row and message and which nothing reads.

### `OrderReads`

`summary` is a call of `metricsSummary` (one at a time, as calls share nothing): `CountByProvider` and
`CountByStatus` run in either order with any steps of the desk between them. Its field `since`
is history, the count when the call came in. `nudge` is the simulator's move: `ListAndChoose` takes an
order that has somewhere to go, and its next status, from the list; the simulator takes the first or the
last of the next statuses, so of RECEIVED never REJECTED; `NudgeArrives` is the PATCH, with the verdict of
the controller, the service and the state machine, and goes on as `Decide` of an operator or is
refused. That operator, `Simulator`, asks for nothing else. The others ask for any status.

### `Dashboard`

`relayed` says how far the gateway is in the feed; `socket`, `inbox`, `fetch`, `snapshot` and `shown`
are a dashboard's connection, its unhandled events, its `GET /orders`, the rows read for it,
and the store; `clicked` is an operator's PATCH between the button and the API. `gaps` is history: why the
dashboard missed something since the API read its rows.

| Code | Actions |
| --- | --- |
| worker, orders API | `DeskStep`: the actions of `OrderDesk` but `Decide` |
| `OrderCard.vue`, the store's `transition` | `Click`: a button that the card offers puts a request on its way (`clicked`) |
| `OrdersController`, `OrdersService` | `Arrive`: the API reads the order as it is by then, `Decide`; `ClickFails`: a 409, or a request that is lost |
| `EventBridgeService`, `OrdersGateway` | `Relay` (to the connected sockets), `RelayMisses` |
| `App.vue`, the store's `load` | `OpenPage`, `Answer` (the API reads), `Load` (`setOrders`), `FetchFails` |
| `useRealtimeOrders`, socket.io | `Connect`, `Disconnect`, `Receive` (`applyOrderEvent`) |

There are five ways to miss something: the publish failed, the gateway or its Redis connection was
down, the page was not connected, a message came after a newer one, the snapshot came after an event.
`Click` writes nothing on the board: the store waits for the event. The getters `all`, `byStatus` and
`countsByProvider`, the columns with their cards, the line of hidden orders (`closedCount`) and the
total of the bar are operators on `shown`. Labels, colours and the order of cards in a column are left out.

### `Adapters` and `Ingress`

Numbers are in thousandths of their unit, so that pesos with fractions and `Math.round` can be said;
the product `pesos * 100` is taken as exact, and no input is a half of a cent, where the double may
fall on either side. Quantities are whole. `MaxInt` is the column's largest value, scaled down from
2^31 - 1. `None` is a field that is missing or has
the wrong type, or a header that is missing or empty. An HMAC is the record of key, timestamp,
message and encoding: equal only where all are, which is what the code relies on. Digests have the
length of their encoding, and `timingSafeEqual` raises on two that differ in it.

Before the webhook the hub starts: `env` says of each required variable whether it is set, empty or
missing, `bootstrap` is a boot with `validateEnv`, and `Repair` sets what the last failed boot listed.

The sender is the simulator (`sendWebhook`), a provider whose payload deviates in one respect
(`SendDeviating`: a missing field, an invalid date, a fraction, a total out of range), or a right payload at
the wrong endpoint or under another key (`SendMisdirected`), or with one header dropped, empty, cut or re-encoded,
or without a raw body (`SendMangled`). The simulator signs with the hub's secrets, which its defaults, the compose
file and `.env.example` share. `canActivate` answers 401, queues, or fails with a 500.
What the body parser refuses before the guard is asked, a body that is no JSON (400) or too large (413), is left out.
`RejectsPayload`, `RejectsDate` and `Translate` are the adapter, `Insert` the column's check. The stages
`malformed`, and `threw` and `refused`, are the bodies that the pipeline calls `Malformed` and `Poison`.

## 3. What TLC checks

All configurations switch the deadlock check off, because the system comes to rest: every
request is answered, every job completed or failed.

| Run | Instance | Properties |
| --- | --- | --- |
| `Pipeline_duplicates` | 2 bodies of one order, 2 requests, 2 workers, 2 attempts, 1 crash, 1 expired lock | `SuccessMeansOrder`, `AnnouncedOnceAfterCommit`, `StoredIsAccounted` |
| `Pipeline_deadletters` | 1 request with a good, a poison or a malformed body, 2 workers, 2 retry calls, 2 attempts, 1 crash | `TypeOK`, `IndInv`, `LettersAreFinal`, `DeadMeansFailedJob`, `FailureIsAccounted`, `KeepsPromise` (refinement of `Intake`) |
| `Pipeline_settles` | the same bodies, 1 worker, 1 retry call, 2 attempts, 1 crash, polls, fair | `JobsSettle`, `AcceptedIsOrderOrLetter`, `CountSettles` |
| `Desk_concurrent` | 1 order, 2 operators and the simulator, up to 3 moves, 1 summary | `TypeOK`, `TrailEndsAtStatus`, `EntriesAreLegal`, `FeedIsCommitted`, `SummaryIsRecent`, `NudgeRefusedOnlyIfOvertaken` |
| `Board` | 1 order, 2 operators, 1 dashboard, 2 moves, 2 openings, 1 loss | `BoardTypeOK`, `BoardShowsCommitted`, `OnlyGapsMislead`, `NoOrderIsHidden` |
| `Ingress` | every environment; carts of up to 2 lines of up to 2 units, 2 prices, deviations by 4, 9 and 500 thousandths, one mangled header | `TypeOK`, `TakenIffSigned`, `SimulatedIsStored`, `RoundingIsBounded`, `RepairedInOneGo` |

*What they show.* However deliveries repeat and executions overlap, success means that the order is
there, it is announced at most once, and no stored body is forgotten without the provider having
been told (`Pipeline_duplicates`). Letters and final failures belong together through every
interleaving of listeners, retries and a crash, but for the one way to lose a letter, a process that dies
under the listener, and the whole is an `Intake` (`Pipeline_deadletters`). Every
job ends, every accepted body becomes an order or a letter but in that same case, and the letter count ends
on the number of letters though polls fail and overtake each other (`Pipeline_settles`).
Stale reads never falsify the audit trail, a summary is of the time between its call and its answer,
and the simulator is refused by the race and by nothing else (`Desk_concurrent`). A board is stale only for
one of five reasons, and no order on it goes uncounted (`Board`). Simulator, verifiers and adapters agree for
all three dialects, what reaches the guard and is not signed right is a 401 whatever its headers look like, a
payload that adds up makes an order that does, unless Rappi prices in fractions of a cent, where the two
sides drift apart by a bounded amount, and one repair is enough to boot (`Ingress`).

*Why these bounds are enough.* The races of the pipeline are between two executions (of two
jobs for one order, or of one job after an expired lock) and between two retry calls on one
letter; two of each are there. One crash and one expired lock together exceed the stall
limit of 1, so that the stall-limit failure happens. Two attempts tell "retried" from
"final" (the code has 5; a third attempt repeats the second). A second order adds nothing:
orders share only workers, and an idle worker remembers nothing. In `Pipeline_settles` one worker is enough:
with one request, one retry call and no expired lock at most one job is unfinished at a time, and the
listener of a failed attempt runs beside the next one all the same. On the desk two operators
make a stale read and the simulator makes a chain of two; with `MaxMoves = 2` there is room for three
moves, enough to go through one (`Apply` tests the length of the trail, which starts at the order's
creation). A second order would not meet the first but in a sum, and the theorems
about desk, nudges and both counts of a summary hold for any finite number.
A dashboard acts on nobody but through its clicks, so one is enough; two moves make
two messages that can overtake each other and the snapshot; the second opening is a reload in the
middle of anything; one loss is each of the two kinds. In `Ingress` two lines and two units
are the least for which a sum has several terms and a rounding error several parts; as parts of
a peso the three fractions round down, round up and are whole cents; as parts of a cent they make totals
that are not whole, and two halves make one that is. Longer carts, more units and other menus are
covered by theorems: every invariant of the passing runs is proved for all values of the
constants, so that these bounds limit the liveness properties and the refuted ones only. The initial states of `Ingress` are all
environments of five variables.

*Bounds in the guards*: `MaxCrashes` (`Crash`), `MaxExpiries` (`ExpireLock`), `MaxMoves`
(`Apply`), `MaxOpens` (`OpenPage`), `MaxLosses` (`RelayMisses`, `Disconnect`). Requests and retry calls are
used once, so their number bounds them.

*Symmetry*: requests, workers, retry calls, operators, orders and dashboards are interchangeable and
are used as symmetry sets in the runs without liveness; bodies are not, because `KeyOf` and their
kinds tell them apart.

*Fairness* (`Fairness`, `IndicatorSpec`). A handler that was started goes on until it returns or fails: weak
fairness of each request's add, of each worker, of the listeners, and of a retry call that
was made. BullMQ promotes delayed jobs and checks for stalled ones as long as a worker
process runs. Fairness says nothing of which outcome a call has: a database that rejects every
call is fair. Providers, operators, crashes and expiring locks have no fairness. The run
assumes that a dead worker process comes back: the compose file has no restart policy, so
that is up to whoever operates the hub. `AcceptedIsOrderOrLetter` says what becomes of a body also with a
crash and with a requeue that fails: it may then end in `orphaned`, which is what `Finding_invisible_failure` shows
(below), and nowhere else.
The browser's interval goes on firing (weak fairness of `fetchDlqCount`), and of calls that carry
some count for ever, some arrive and are the last of that count (strong fairness of `refresh`). The second
is an assumption on network and API: with one that never answers nothing could be said of the indicator,
and the code has no other source for the count. It does not exclude that answers fail, or overtake each
other, any number of times in between. `CountSettles` speaks of executions in which the letters at some
time stay as they are.

### Where the code and its documents differ

Each of these is a run whose single property TLC refutes.

- `Finding_acked_not_queued`: "persist exactly what arrived, enqueue, ack"
  (`ingestion/ingestion.service.ts`, 20). When the add fails the row stays; the provider's retry
  meets P2002, is answered 202, and the body is never queued.
- `Finding_invisible_failure`: "Permanent failures are observable and recoverable in one call" (ADR 0004, 9).
  When a requeued job fails again, `onFailed` files its letter under `job.id`, the integer that BullMQ made up for
  the requeue (`dlq/dlq.service.ts`, 53), and BullMQ refuses it ("Custom Id cannot be integers"). No letter, no
  DEAD, the old letter is gone (54), and the unhandled rejection ends the worker with whatever else it was
  doing: recovery works once. The run has no other fault in it, no crash and no expired lock. A worker that dies
  between BullMQ's final failure and the listener breaks the sentence for a first job too; with `MaxCrashes = 1`
  the same run finds that trace first.
- `Finding_letter_with_order`: the dead-letter queue shows "what failed permanently"
  (`dlq/dlq.controller.ts`, 6). The publish is inside the `try`: if it rejects on the last attempt,
  after the commit, the body gets a letter and DEAD although its order is on the board.
- `Finding_total_not_sum`: "The canonical total must equal the sum of its items - no provider quirk is allowed
  to leak through" (`providers/adapter.contract.spec.ts`, 42-43; ADR 0002, 9). `pesosToCents` rounds unit prices
  and total one by one: two units at 3.004 pesos, in all 6.008, are stored as 300 cents each and 601 together.
  The fixtures of the test are in whole pesos. That a total is taken as sent also lets a delivery fee or any
  other difference through, from Rappi and from DiDi.
- `Finding_lost_update`: "the API enforces it" (repository README, 89). Two operators who read the same
  status are both let through, and the second moves the order along an edge that the table does not have: from
  CANCELLED to ACCEPTED in TLC's trace, and in the same way from REJECTED to ACCEPTED.
- `Finding_stale_buttons`: "it is impossible to render an action the server would reject"
  (`apps/web/src/components/OrderCard.vue`, 21-22). A page whose `load` was answered before a move and
  arrives after the event of that move keeps the old status for good, with every message delivered.

Smaller things met on the way, without a run:

- deterministic failures are to "skip the backoff ladder" (`ingestion/ingest.processor.ts`, 93-94), and only
  `InvalidProviderPayloadError` does: a date that is none (a `RangeError`) or an amount that the column refuses
  goes through every attempt. The comment speaks of malformed payloads, so it may not mean these;
- an order whose publish fails after the commit is never announced: the retry reads PROCESSED and
  returns. `AnnouncedOnceAfterCommit` is "at most once";
- `onFailed` writes FAILED or DEAD whatever the row reads by then: the listener of an earlier attempt can
  overwrite the PROCESSED of a later one with FAILED, and `MarkDead`, when an operator requeues the letter
  between the add and the update, that of the requeue with DEAD. No document says what the column must read,
  so no run refutes it. `SuccessMeansOrder` does not depend on it: an execution that no longer reads PROCESSED
  meets the unique constraint;
- the second of two retry calls on a letter resets a delivery that may be PROCESSED; if its add
  then fails the row keeps reading RECEIVED, although ADR 0004 calls requeuing twice harmless;
- item prices with a fraction of a cent from Uber Eats or DiDi go unrounded into the JSON items: Uber
  Eats' derived total may then be no integer, and the insert is refused at every attempt;
- the comment on the backoff ladder names five waits (`queue/queue.constants.ts`, 12); five
  attempts have four.

## 4. What is proved

TLAPS checks these for every value of the constants, under the assumptions named in the modules:
keys of bodies, disjoint ids, `None` outside them, a positive number of attempts, natural
bounds, a finite set of orders (only what counts them needs it), a simulator among the operators, and
of the menus that prices are natural numbers whose dearest cart fits the INTEGER column (`MenusFit`; in the
code 4 lines of 3 units of 28 900 pesos are 34 680 000 cents, against 2^31 - 1). Nothing is assumed of the number of bodies, workers, requests, calls or operators,
not even that it is finite.

`IngestPipelineProofs`

- `Invariance`: `Spec => []IndInv`
- `TypeCorrect`, `SuccessIsReal`, `AnnouncedOnce`: the type invariant, `SuccessMeansOrder` and
  `AnnouncedOnceAfterCommit`
- `ImplementsIntake`: `Spec => KeepsPromise`, the refinement of `Intake`

*Argument.* `SuccessMeansOrder` is not inductive: `Finish` completes a job because of where the
worker is, not because of the database. `IndInv` adds
  - `JobsAreKnown`: a handler, listener or letter holds a job that was added, whose delivery is known.
    Without it `DeliveryOf`, which for a requeued job reads the call, could change its
    meaning under a running job; the lemma `DeliveryFixed` says that it does not;
  - `RowsExist`: whoever is about to touch a delivery row has one;
  - `WorkersSeeOrder`: at `publish`, `ackDuplicate` and `finish` the order is there. Orders are
    never deleted (`OrdersStay`), so a worker that lost its lock long ago is still right;
  - `OnePublisher`: the execution that committed an order is the only one at `publish` for it, and
    has not published. The unique constraint gives it: a second commit finds the key taken.

The proof that a step keeps `IndInv` is one lemma per conjunct (`TypeStep`, `KnownStep`, `RowsStep`,
`SuccessStep`, `WorkersStep`, `PublishersStep`), each with one step per action that can disturb it.
`StepKeepsPromise` maps each step to `Store`, `CreateOrder`, `Announce`, `Settle` or a stutter;
`StoredStep` and `SettledStep` show that the mapped sets do not shrink.

`LetterProofs`

- `LettersInvariance`: `Spec => []LetterInv`, and from it `LettersFinal`, `DeadIsFailed`, `FailuresAccounted`,
  `BodiesAccounted`: `LettersAreFinal`, `DeadMeansFailedJob`, `FailureIsAccounted` and `StoredIsAccounted`

*Argument.* `onFailed` computes from `attemptsMade` and `opts.attempts` what BullMQ has decided already, and
it may run when the job has gone on. Two facts make the two agree. A final failure is for good:
nothing takes, finishes or fails the job again (`FailedStays`). And the listener of a final failure is the last
of its job: every other one is of an earlier attempt (`ListenersBehind`, with `AttemptsGrow`), so it computes
"not exhausted" and parks nothing. That a failure stays accounted for (`AccountedStep`) goes through the places
where it can be: the listener about to park, the letter, the job that a retry call has added. A letter
leaves only behind such a job (`RequeuedFirst`, `LetterLeaves`). The last place is `orphaned`: where a listener
about to park leaves `listeners` without a letter, `Dies` has put its job there (`OrphansStep`), and it stays
(`OrphansStay`).

`OrderDeskProofs`

- `Invariance`; `TypeCorrect`, `TrailMatchesStatus`, `AuditIsLegal`, `OnlyCommittedIsPublished`: the four
  invariants of `Desk_concurrent` for any number of operators, orders and moves
- `SingleOperator`: with one operator the status column follows the table and the trail is a path
  (`StatusFollowsTable`, `TrailIsPath`), which `Finding_lost_update` refutes for two

*Argument.* `EntriesAreLegal` needs `Grounded`: the status that a call read is one that the trail holds,
and stays there because trails only grow (`TrailsGrow`). `SingleOperator` adds `SoleReader`: with one
operator, what the call read is what the order has. The refuted run shows that the assumption
on `Operators` cannot be dropped.

`OrderReadsProofs`

- `ReadsIsDesk`: `ReadsSpec => Spec`
- `OnlyTheRaceRefuses`: `NudgeRefusedOnlyIfOvertaken`
- `CountsAreRecent`: `SummaryIsRecent`

*Argument.* A nudge on its way stands on the row that was listed (`NudgeStands`): the row stays in the trail,
because trails only grow, and the table allows the move from it. While that row is the last one the
order has its status, so the PATCH is legal; if the verdict is 409 the trail is longer. Of the two counts of
a summary, the one by provider only grows, because orders are never deleted and never change their provider.
A single count by status does not: orders leave a status. What grows is their sum, and it is the
number of orders, because an order is in exactly one group (`CountsAddUp`, from `SumOfClasses`). So each of
the two groupings adds up to a number between that at the call and that at the answer (`TotalsStand`),
though an order may have moved between the two statements.

`DashboardProofs`

- `BoardIsDesk`: `BoardSpec => Spec`, so that every theorem about the desk holds of the board
- `BoardInvariance`, and from it `BoardTypeCorrect`, `OnlyCommittedIsShown`, `QuietBoardIsRight` and
  `AllOrdersAreCounted`: the four invariants of `Board`, for any number of orders, operators, dashboards,
  moves, openings and losses

*Argument.* A request under way names an order and a status of the lifecycle (`ClicksTyped`), so that `Arrive` is
a `Decide` of the desk whatever has happened since the click. That a quiet board is right says nothing of one that
is not quiet. `NothingLost` does: when a dashboard has no gap, the newest row of an order is what it shows, or is on its way
(`OnItsWay`): in its inbox, in the part of the feed that is not relayed, about to be published by
an operator or a worker, or in a snapshot that is not loaded. `DeskHandsOn`, `ClickHandsOn` and
`BoardHandsOn` show that a step hands a row on to the next of these places, or records a gap;
`VersionBound` says that no row is newer than the database's. On a quiet board with a loaded
snapshot there is no place left but the board itself. `AllOrdersAreCounted` adds that the columns and the two
closed statuses are all of them, and share none (`CardsOrClosed`).

`IngressProofs`

- `GuardIsExact`: `Spec => []TakenIffSigned`, and `OneRepairIsEnough`: `Spec => RepairedInOneGo`, for every menu,
  cart and limit
- `RoundsToTheCent`: what `pesosToCents` makes of any one amount

*Argument.* What the guard decides depends on what can be on its way, which `InFlight` says: the headers of a
right signature, of one made for another dialect or with another key, or of a right one with one header changed
(`Mangled`). For each dialect a lemma (`RappiDecides`, `UberEatsDecides`, `DidiDecides`) shows that the verifier
answers "equal" for the first and "different" for the others: the headers of another dialect lack the name it
reads, and `timingSafeCompare` is equality, whatever the lengths (`CompareIsEquality`). `NoneIsNoValue` is
assumed: what is there, a header or a field, is not what is missing. For the boot, `ListedAll` says that a failed
boot listed all that is missing.

`AmountProofs`

- `AmountInvariance`: `Spec => []AmountInv`, and from it `TypeCorrect`, `SimulatorAgreesWithHub` and `DriftIsBounded`:
  `TypeOK`, `SimulatedIsStored` and `RoundingIsBounded` of `Ingress`, for every menu, number of lines and
  units, fraction and column

*Argument.* None of the three is inductive, because each speaks of a stored order alone. `AmountInv` keeps
with the order where it came from: a payload has natural numbers in its lines, whoever sent it
(`BodyIsShaped`); an order is what the adapter of its endpoint makes of that payload, and a stored one has
passed the column's check (`Translated`); and a cart that the simulator drew has travelled unchanged, as
the payload built from it with the headers signed for it (`Drawn`). That the guard lets the last one
through is `GuardIsExact`, so `Drawn` rests on `IngressProofs`. What remains is arithmetic on one payload.
`SimulatedOrder`: the factory's total in pesos, rounded by `pesosToCents`, is a hundred times the sum of the
cart, and so is the sum of the rounded items, in the dialect that derives its total from them; with `MenusFit`
the row takes it (`PlainTotalFits`). `TotalDrift`: `pesosToCents` is off by at most half a cent (`CentDrift`), a
line of n units by n times that (`ItemsDrift`), the total by one half more; so the stored total and the sum of
the stored items are apart by at most half a cent per unit and half a cent. They are equal when Rappi's prices
are whole cents (`CentsAreExact`, `WholeCentsAddUp`) and in the other two dialects, which round nothing. The
bound holds whichever way a half of a cent is rounded. Plain equality is what `Finding_total_not_sum` refutes.

`Sums` has the lemmas that this takes: `SumUnfolds` (a sum is one term and the sum of the rest), and from it
that sums are monotonic, linear and bounded, and that the classes of a function on a finite set have
sizes that add up to the size of the set (`SumOfClasses`). The provers take no induction principle that is stated
with an operator. `SubsetInduction` does without: it takes the set of the subsets for which the claim
holds, and shows that a smallest subset outside it cannot exist (`WFMin`, of the strict subsets of a finite set).

*What the refuted sentences need.* Five of the six findings are also theorems about the condition under which
the sentence does hold of the code, so that without the faults that the runs use no other refutes it:

- `VisibleUntilTheFirstOrphan` (`LetterProofs`): every permanent failure can be seen as long as no worker process
  has crashed and no requeued job has failed for good. Neither condition can be dropped: the run shows it of the
  second, and with a crash of the first. It rests on `OrphansExplained`: what is in `orphaned` got there
  by one of the two;
- `QueuedUnlessARequestIsLost` (`LetterProofs`): every acked body is in the queue, or its request is at the add, as
  long as no request was lost between the row and the job. It adds `AckedIsStored`, as an ack may come from
  a request that only met the row;
- `SingleOperator` (`OrderDeskProofs`), above;
- `ButtonsNeedNoGaps` (`DashboardProofs`): on a quiet board without any of the five gaps every button is a move
  that the API accepts;
- `DriftIsBounded` (`AmountProofs`), above: of a payload that adds up, the order does too, unless Rappi prices in
  fractions of a cent.

For `Finding_letter_with_order` no condition is stated: a publish that fails is only one of the ways to it, and any
late answer after the commit another. `MalformedFailsFast` (`LetterProofs`) is the part of the sentence about
deterministic failures that the code keeps: a body on which the adapter raises `InvalidProviderPayloadError` leaves
`process` as unrecoverable, and in no other way but the death of its process.

*Only model-checked*: the liveness properties `JobsSettle`, `AcceptedIsOrderOrLetter` and `CountSettles`. They rest on
fairness, which is about ENABLED, out of the prover's reach. Every other property of a passing run is the
statement of a theorem.

## 5. Plan

In this order, the most important behaviour first; all of it is done:

1. `IngestPipeline`, refining `Intake`, and its proofs; then `LetterProofs`.
2. `OrderDesk` on `OrderLifecycle`, and its proofs.
3. `Dashboard` on `OrderDesk`'s feed, and its proofs.
4. `Adapters` and `Ingress`, then the verifiers' headers, encodings and lengths, and the boot, and the proofs of these.
5. The reads: columns and counters (`Dashboard`), metrics and the simulator's list (`OrderReads`), the poll of
   the letter count (`DlqIndicator`), and the proofs of the first two.
6. `Sums`, and with it the proofs about carts and counts of any size; the conditions of the refuted sentences.

## 6. Not modelled

- The HTTP and Nest wiring, the containers, and the health endpoint, which answers a constant. Who restarts
  a dead process is an assumption of `Pipeline_settles`.
- Redis and PostgreSQL are taken as reliable stores whose calls may fail: a Redis that loses its data is
  outside the models. Messages that pub/sub drops for a disconnected subscriber are in `Dashboard`.
- Columns, names, menus and messages that no property reads; labels, colours and sorting on the board; the
  getter `countsByStatus`, which no component uses.
- That a comparison takes constant time.
- The simulator's counts, rates and arguments: any webhook and any nudge may come at any time.
- Times. The properties are about orders of events; backoff, lock durations and intervals are steps that
  may come at any time.
