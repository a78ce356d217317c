# Verification of the e-commerce order platform

TLA+ modules, TLC configurations and TLAPS proofs for the order platform: a
NestJS API process, a separate payments process reached over gRPC, one Postgres
database, RabbitMQ, Kafka and an S3 store. Paths below are relative to the root
of the repository.

Run from this directory:

    tlc -workers 2 -config PlacementRace.cfg MCOrderPlacement
    tlapm OrderPlacementProofs.tla

Every module has small bounds in its `MC` module and its `.cfg` files;
`PROJECT.json` lists the runs, the source lines behind each definition, a
mutant of the code that each property catches, the hazards and the theorems.

## 1. Inventory

| component | state it keeps | operations | hard behaviour |
|---|---|---|---|
| Order placement (`src/orders/orders.service.ts`, `create`) | orders, items, `products.stock`, outbox rows; row locks; pool connections | one transaction of some ten statements, then a read and a gRPC call | overlapping requests, unique index, deadlocks, errors whose branch skips the rollback, a second connection while the first is held |
| Order status (`updateStatus`, `findAll`, `findOne`, `delete`, `canSubscribeToOrder`) | `orders.status`, `status_version`, `processed_at` | staff override, reads, deletion | read-modify-write without a lock; the worker writes the same row |
| Outbox and relay (`src/outbox`) | `outbox_events` | `add`, `claimBatch`, `markSent`, `markFailed`, a tick every second | overlapping ticks, publish before commit, bounded attempts |
| RabbitMQ adapter (`src/rabbitmq`) | one channel, three queues | `publish`, topology | no confirms, no reconnection |
| Order worker (`src/orders/orders-processor.consumer.ts`) | `processed_messages`, `orders.status` | `onMessage`, `processOrder` | redelivery, duplicates, retry and dead letters, crash between commit and ack |
| Kafka adapter and consumers (`src/kafka`, `src/orders/*analytics*`, `*crm*`, `src/payments/payments-*.ts`) | offsets of four groups | `ensureTopics`, `publish`, `consume`, four handlers | handler before offset commit, rebalances, values that cannot be parsed |
| Payments service (`src/payment-service`) | `payments` | Authorize, Capture, Refund, GetPaymentStatus | read-then-write without locks |
| Payments API (`src/payments`) | none of its own | `CanPayGuard`, `payOrder`, the event of a capture | timeouts of RPCs that go on, repeated requests, an event after the capture |
| Order events and gateway (`src/orders/orders-events.service.ts`, `src/realtime`) | per-order stream state, rooms, call times | publish, subscribe, unsubscribe, connect | de-duplication, throttling, subscription across awaits |
| Files (`src/files`) | `files`, avatars, product images, objects in S3 | presign, complete | row locks, an object checked once |
| Pagination and GraphQL (`src/common/pagination`, `src/graphql`) | the client's cursor | pages by cursor | truncated timestamps, joins, rows that come and go between pages and between statements |
| Throttling (`src/common/guards`) | a shared list of policies | `canActivate` | a field swapped across an await |
| Access control (`src/auth`, `src/payments/guards`) | none | guards | combinations of roles and scopes |
| Users, products, audit, metrics, health, config, migrations, seeds, generated code | tables, counters | single statements | none beyond the database's |

How they interact. The API's `create` commits the order together with its two
outbox rows; the relay publishes one of them to RabbitMQ and the other to
Kafka; the worker, which runs in every API process, consumes the RabbitMQ
message and marks the order as processed. `create` and `payOrder` call the
payments process over gRPC with a timeout; `payOrder` publishes
`PaymentCaptured` to Kafka. Two Kafka groups read the orders' topic and two the
payments'. `updateStatus` feeds the event stream that the gateway sends to
subscribed sockets. Everything in one API process shares one Postgres pool and
one RabbitMQ channel.

What makes each correct:

- placement: stock and orders agree, one order per user and key, orders are
  whole, no lock or connection is left behind, the client is told the truth;
- outbox: a committed event is settled, sent means handed over, duplicates have
  a cause, sent is final;
- worker: one effect per message, nothing lost, dead letters only after the
  stated number of attempts, every message ends;
- payments service: captured before refunded, nothing returns to AUTHORIZED;
- payments API: with the service it keeps a ledger (opened, settled, returned;
  nobody is told of a step that was not taken), charges only whom the guard
  admitted, answers every request, and does not repeat the event of a capture;
- status, events, gateway: the last change is heard, a subscriber ends with the
  order's version, `processed_at` is lost in one known gap only, the rate limit
  holds;
- Kafka: at least once, in order, repeats have a cause, every event is heard;
- files: a gallery is numbered in order with one primary image, ready means
  uploaded and bound, completing again changes nothing;
- lists: nothing that was there all the time is missed, nothing is shown twice,
  and a walk ends, or it is said when not.

## 2. Modules

| module | models | extends |
|---|---|---|
| `OrderPlacement` | `OrdersService.create`, Postgres and the pool as it sees them | |
| `OrderBook` | what placing orders promises (abstract) | |
| `OutboxRelay` | `OutboxService`, `OutboxRelayService`, `publish` of both brokers | |
| `Outbox` | what the outbox promises those who add to it (abstract) | |
| `OrderProcessing` | `OrdersProcessorConsumer` and the three queues | |
| `WorkQueue` | what processing the messages of `orders.process` promises (abstract) | |
| `PaymentService` | the gRPC server's service | |
| `PaymentSaga` | `create` and `payOrder` as its clients, with `CanPayGuard` | `PaymentService` |
| `PaymentLedger` | what the two promise together (abstract) | |
| `OrderStatus` | `updateStatus`, the worker's UPDATE, `OrdersEventsService` | |
| `OrdersGateway` | the websocket gateway and its clients | `OrderStatus` |
| `KafkaConsumption` | `KafkaService`, a group of any of the four consumers | |
| `CursorPagination` | the paginated lists of REST and GraphQL | |
| `FileUpload` | `FilesService`, S3 as it sees it, and its clients' uploads | |
| `*Proofs` | theorems about eight of these (section 5) | the module, TLAPS |
| `MC*` | the requests, messages, events and calls of the small instances | the module |

Operators such as `LockProductWithoutWaiting` that no action uses are mutated
forms of the definition after them: what a plausible bug would make of it.
`PROJECT.json` names the property that each of them breaks.

**OrderPlacement.** `pc[r]` names the statement request `r` runs next; each
await of the handler is one action. Postgres at READ COMMITTED is modelled by
what it does to this handler: a statement reads what is committed when it runs
(`stock`, `rows`), a row lock (`lockOwner`) is held until the transaction ends,
what a transaction writes (`written`, `taken`) becomes visible at COMMIT only,
an INSERT waits for an uncommitted row with the same unique key, and a failed
statement leaves the transaction aborted until somebody rolls it back
(`connTx`). Orders are identified with the request that made them. Prices and
totals are not modelled; that the totals were written is. Two details of the
code matter and are kept: an `UPDATE ... RETURNING` answers `[rows, count]`, so
the test of `rows.length` in line 180 never fires; and every Postgres error has
a `code`, so the branch of line 307 takes it before the rollback of line 310
and before the branch for 23505 of line 315.
The refinement mapping to `OrderBook` reads the placed orders from the committed
rows (`Ordered`) and what a request was told from its outcome once it is done
(`toldOf`; a request whose process died was told nothing). `OrderBook` has two
actions: `Place`, which finds the user, the products, a new key and enough stock
and decrements it in one step, and `Tell`, which gives a true answer; a request
that was told something places nothing afterwards.

**OutboxRelay.** A tick is `ClaimBatch` (BEGIN and the locking SELECT), for each
event `PublishRabbit` or `PublishKafka` and then `MarkEvent`, and `CommitTick`.
Marks live in the tick (`mark`) until the commit applies them; publications act
at once. RabbitMQ has no confirms: the message is on the `wire` until the
broker receives it, and lost if the connection goes first. Kafka may report an
error for a message it has, and a send that succeeds may have left further
copies: kafkajs sends again when a confirmation is lost, and the producer is not
idempotent. Each lost confirmation is a fault. `attempts` is only counted by a commit, so a failed
tick publishes its batch again at no cost of attempts.
`Outbox` knows neither ticks nor sockets: it counts what was handed over (`Handed`,
what the broker has received and what is on the wire) and what has arrived. An event
is handed over only while it is open and within its budget of failures, once and
once more for each confirmation that was lost. `Settle` takes any set of open
events, as sent if they were handed over and as failed if something can have failed
(`MayFail`: Kafka, if it is enabled; RabbitMQ only after a fault, since its
publications fail on a closed channel only). A `Fault` may lose what has not
arrived.

**OrderProcessing.** A consumer is a process with prefetch 1. The broker's
queues are counters per message and attempt. The channel orders what it
carries: the republished message reaches the broker before the ack that follows
it, so `Forward` and `Ack` are two steps and a crash between them leaves two
copies. When the broker closes the channel the delivery goes back to the queue
while its handler goes on; at its end `ack`, `publish` and `nack` all throw, and
the rejected promise ends the process (`HandlerThrows`). An idle process in that
situation stays up without a subscription. A transaction that fails to start
keeps its connection (`conns`).
`WorkQueue` is one queue instead of three and of the handlers: a message waits
(`Waiting`) while any queue or any handler the broker still waits for has it.
`TakeEffect` happens at most once, `GiveUp` needs a message that cannot succeed or
as many failures as it has attempts, and `Leave` needs one of the two, or a message
nobody can parse. A message that was given up may still take effect: the worker of
a closed channel goes on while another dead-letters its copy.

**PaymentService.** One action per statement: `Read` is the `findOne` with all
decisions after it, `Write` the INSERT or UPDATE with its wait and its unique
constraint, `Commit`. Payments are identified with (order, key). The three RPCs
that write share these actions through the tables `From`, `To` and
`AlreadyDone`, which are the code's tests through `toProtoStatus`/`toDbStatus`.
Calls start from any status that earlier calls, or the seeds (UNPAID), left.

**PaymentSaga.** Each request owns two RPCs of `PaymentService`, its
authorization and its capture, which begin when they are sent (`Serve`). A
request that gives up (`GivesUp`: the timeout, or an answer that never comes)
ends, and its RPC goes on. So the steps of `PaymentService` are steps of this
module as they stand, and its invariants hold here too (theorem
`ServiceIsItself`). `Outside` are other clients of the gRPC port, the only ones
that refund. `late` is history: the requests that began when the payment was
captured. What `create` does before it authorizes is one step here and
`OrderPlacement` there. The refinement mapping to `PaymentLedger` reads `stage`
from the payment's status and `told` from the answers and events that went out;
`Settle` of a returned payment is in the ledger because the service captures
without a lock (section 6).

**OrderStatus, OrdersGateway.** `updateStatus` is `Read` (`findOne`), `Diff`
(the SELECT of `save`, which picks the columns that differ), `Write` (its UPDATE)
and `Publish`. The worker's UPDATE touches `status` and `processed_at` but not
`status_version`. The stream keeps the last version (`distinctUntilChanged`) and
a timer with the event it holds back (`throttleTime`, leading and trailing). In
the gateway `handleConnection` awaits the token and `subscribeOrder` the check
of the order, while messages of the same socket are handled; `verifyAsync` and
the check are therefore two actions each, with a count of the checks under way.
Calls of `subscribeOrder` are
numbered, and their ages in ticks stand for their times. `Heard` composes a step of
`OrderStatus` with the delivery of what it emits. An update's target is any of
the statuses `EOrderStatus` has, `processed` and `pending` among them.

Two variables are history. `calm`: no update overlapped another writer and none
failed. `QuietFeedIsCurrent` and `ViewConverges` are false without it, and that is
what the code does: two updates that overlap publish one version twice, the
second of which is dropped. `exposed`: the updates for which the worker's commit
fell between `Read` and `Diff`. These, and no others, find in `save`'s SELECT a
`processed_at` that their entity does not have, and write it back to NULL;
`ProcessedLostInGap` says that nothing else loses it, however updates overlap,
fail or die, with `calm` or without.

**KafkaConsumption.** A group of any of the four consumers (`reader`); groups do
not share anything. `Handles` says which values the handler of each gets
through: all pass over a message without a value, those of the orders' topic
throw at what is not JSON and at what has not the fields they read ("hollow": JSON
`null`, or an event of the right name without its order), those of the payments'
at everything `parsePaymentEvent` refuses. `Start` is `onModuleInit` with `ensureTopics`,
which makes the orders' topic only. Handler and commit are two steps; after a
failed commit or a handler that throws, kafkajs hands out the same event again.
`heard` is which events the handler has got through, and `runs`, a history, how
often it has.

**CursorPagination.** A client's walk over one list, REST, REST with joined
order items, or GraphQL, as two statements per page (`FindIds`, `Load`), which is
what TypeORM makes of `take()` with a join. `createdAt` has microseconds in
Postgres and milliseconds in a `Date`; REST takes the cursor from the raw line,
GraphQL from the entity (`ToMs`). `Appear` covers that `createdAt` is the start
of the inserting transaction, so that a row may appear behind the cursor.
`AddItem` is an order placed meanwhile for a listed product: the join makes one
more line of it, before a page, or between its two statements.

**FileUpload.** A file is identified with its row and its object key. Its
presigned URL goes through `Presign`, `Sign` or `SignFails`; `Upload` is the
client's PUT, which the API never sees. A completion is one transaction:
`Lock` (the locking SELECT and the decisions after it), `Head`, `Save`, `Bind`
(the owner's row lock, or the UPDATE of the user that waits for it), `Link`
(the lookup, the count and the INSERT) and `Commit`. The status and avatar it
writes follow from how far it came, so only the image row (`link`) is kept
until `Publish` makes all of it visible. Nothing under `src/` deletes a user, a
product, a stored object or a file that a client knows, and nothing writes the
status FAILED, so the branches for these are not reached.

## 3. Runs

| run | bounds | what it shows |
|---|---|---|
| `placement_race` | 3 requests (two equal, one rival with the same key), 2 products of stock 2, 4 connections, 1 failure anywhere (about 30,000 states up to renaming connections) | the safety of placement, and that it implements `OrderBook` |
| `placement_cross` | 4 requests: two lock the same rows, one of them naming a product that does not exist, an unknown user, a malformed one; 4 connections | deadlock victims, every request answered |
| `relay` | 3 events, 2 ticks, batch 2, 2 attempts, 1 failure or lost confirmation anywhere, Kafka on or off (about 100,000 states) | duplicates, meaning of sent, every event settled, and that it implements `Outbox`, in which sent is final |
| `processing` | 3 messages (one published twice, one that always fails, one unparsable), 2 workers, 2 attempts, 1 failure, 1 closed channel (about 413,000 states) | one effect, nothing lost, every message ends, and that it implements `WorkQueue` with its rule for dead letters |
| `payment` | every mix of 3 calls on a payment in any status, 1 failure | `paid_at` and status agree, no return to AUTHORIZED |
| `saga` | 2 requests of any kind and role on an order, each with its 2 RPCs, 1 outside client with any RPC, a payment in any status, 1 failure of the service, any number of the API (about 520,000 states) | the ledger, charges, repeats, every request ends |
| `status` | 2 updates to 3 statuses (`paid`, `pending`, `processed`), the worker, a socket with 2 calls of `subscribeOrder` and a limit of 1 in 2 ticks, 1 failure or restart (about 1,110,000 states) | the stream, the worker's write, the gateway, the rate limit |
| `kafka` | each of 4 consumers, 2 members, 2 events of up to 2 copies in one partition, one of which every handler throws at, 2 failures (about 167,000 states) | at least once, order, repeats, progress |
| `paging` | every list of up to 4 rows in 2 milliseconds, pages of 2, up to 2 lines per product, 2 changes: rows that come or go, items that are added (about 1,190,000 states) | what a walk misses or repeats, and that it ends |
| `files` | 5 files (two images of one product, an avatar, an attachment of an order, one whose owner does not exist), 2 calls on any of them, 1 failure (about 445,000 states) | numbered galleries, ready means bound and uploaded, true answers, stable images, every call ends |
| `placement_doc_pool`, `paging_doc_joined` | as above | a sentence of the documentation the code violates (section 6) |

Why the bounds are enough. The placement properties relate two requests that
meet (at the unique index, at a row) and one more that sees the result; two
products are the fewest that can deadlock. `MaxFaults` bounds the failures of a
run, not where they happen: one failure may hit any step of any request, tick,
worker or call. Two ticks are the fewest that overlap, two attempts the fewest
with a retry, and a batch smaller than the table leaves events for the next
tick. Two workers and a closed channel give two handlers for one delivery. Three
calls from a committed PENDING payment are two captures and a refund, the
shortest race in which a decision is stale; that is why payments start in any
status. In `saga` a second request may repeat, or overlap, the first one whose
RPC is still running; of `LateIsSilent` the bounds reach only the case without
a refund, since the one outside client has one call, and the theorem covers the
other. Three statuses let an update differ from the row, agree with it, or agree
with what the worker writes. Two updates are the fewest that overlap, and with them the throttled
stream drops, holds back and releases an event; sockets do not share anything
but the feed, so one is enough. Two members of a group are the fewest that can
pass a partition on, two failures the fewest that repeat an event twice, and a
log of four has the refused event in every position. Two rows in one
millisecond at a page's end are the shortest list GraphQL can miss a row of. Two
calls on five files meet on one file, on one product or not at all; an
attachment is the owner that nothing is bound to. `MaxCopies`, `MaxClosures`,
`MaxLog`, `MaxSends`, `MaxAttempts`, `MaxLines`, `MaxChanges` and `PoolSize` are
named bounds too; `PoolSize` is kept above `MaxFaults` in `Processing.cfg`,
because each `BeginFails` takes a connection for good. The theorems of section 5
have none of these bounds.

## 4. Fairness

Weak fairness of each request's, tick's, worker's and call's own steps: Node
runs every continuation that is ready, Postgres grants a lock when it is free,
detects deadlocks and answers, the gRPC call has a timeout. Weak fairness of the
retry time, the queue TTL, the socket, the timer of the stream, the coordinator
of a Kafka group and of the restart of a dead process (the compose files restart
it). In `saga` nothing is assumed of the payments process, which may be down for
good: that every request ends rests on its timeout (`GivesUp` is part of the
request's own steps). Nothing is assumed of failures, of publishers, of the
pool's idle timer or of a closed channel, which no code opens again:
`processing` allows one closed channel and has two workers, so that one keeps
its subscription. `EveryRequestAnswered` is checked with one connection more
than there are requests; `placement_doc_pool` shows why. `EveryEventIsHeard`
speaks of events with no refused one ahead of them in the partition: kafkajs
hands out such an event for ever. `files`, `status` and `paging` assume nothing
of the clients' uploads and subscriptions; of a walk they assume that the client
asks for the next page while there is one.

## 5. Proofs

The proofs hold for every value of the constants that the named assumption of
the module admits (`PlacementAssumption`, `RelayAssumption`,
`ProcessingAssumption`, `ServiceAssumption`, `SagaAssumption`, `KafkaAssumption`,
`PagingAssumption`, `UploadAssumption`, `StatusAssumption`, `GatewayAssumption`: sets are finite where they are counted,
bounds are natural numbers, quantities are not negative, null values are not
members); TLC evaluates these assumptions in every run. Each module has an
inductive invariant (`IInv`; `SInv`, `KInv`, `PInv`, `StatusInv` and `GatewayInv`
in the saga, Kafka, pagination, the status and the gateway), which was checked with TLC on the bounds of the runs before it was
proved. From `Spec => []IInv`, in each module `Invariance` (`SagaInvariance`),
follow:

| module | theorems and the property each states |
|---|---|
| `OrderPlacementProofs` | `TypeCorrect` (`TypeOK`), `NoOversell` (`StockConserved`), `Idempotence` (`OneOrderPerKey`), `Atomicity` (`AllOrNothing`), `LocksAreReleased` (`NoStaleLock`), `AnswersAgree` (`AnswersAreTrue`), `PlacementKeepsBook` (`KeepsBook`) |
| `OutboxRelayProofs` | `TypeCorrect`, `DuplicatesArePaidFor` (`DuplicatesHaveCause`), `SentIsHandedOver` (`SentIsOnItsWay`), `SentStaysSent` (`SentIsFinal`), `RelayKeepsOutbox` (`KeepsOutbox`) |
| `OrderProcessingProofs` | `TypeCorrect`, `OneEffect` (`EffectOnce`), `NoMessageIsLost` (`NothingLost`), `DeadLettersHaveCause` (`DeadHasCause`), `ProcessingKeepsQueue` (`KeepsQueue`) |
| `PaymentSagaProofs`, of the service | `TypeCorrect`, `CaptureComesFirst` (`PaidBeforeRefunded`), `SuccessesAreTrue` (`SuccessIsTrue`), `StatusMovesOn` (`NeverAuthorizedAgain`) |
| `PaymentSagaProofs`, of the saga | `ServiceIsItself` (`SagaSpec => Spec`), `AnswersAreTruthful` (`ToldTheTruth`), `CapturesArePermitted` (`ChargedByPermission`), `RepeatsAreSilent` (`LateIsSilent`), `SagaKeepsLedger` (`KeepsLedger`) |
| `OrdersGatewayProofs` | `StatusIsItself` (`GatewaySpec => Spec`), `GatewayTypeCorrect` (`GatewayTypeOK`), `LastChangeGoesOut` (`QuietFeedIsCurrent`), `ProcessingIsLostInGapOnly` (`ProcessedLostInGap`), `LimitHolds` (`RateLimited`), `SubscribersConverge` (`ViewConverges`) |
| `CursorPaginationProofs` | `RestMissesNothing` (`NoneMissed`), `NothingTwice` (`NoneTwice`), `MissingHasCause` (`MissedHasCause`) |
| `KafkaConsumptionProofs` | `AtLeastOnce` (`NoneSkipped`), `OrderIsKept` (`HeardInOrder`), `RepeatsArePaidFor` (`RepeatsHaveCause`) |
| `FileUploadProofs` | `TypeCorrect`, `GalleriesAreOrdered` (`GalleryIsOrdered`), `ReadyIsBound` (`BoundWhenReady`), `ReadyIsStored` (`ReadyHasObject`), `SuccessIsTrue` (`AnswersAreTrue`), `CompletingIsStable` (`GalleryIsStable`) |

Every invariant and every action property of the runs that pass is a theorem.
Only model-checked are the liveness properties (`EveryRequestAnswered`,
`EveryEventSettled`, `EveryMessageEnds`, `EveryRequestEnds`,
`EveryChangeIsHeard`, `EveryEventIsHeard`, `EveryWalkEnds`, `EveryCallEnds`),
since fairness and ENABLED are out of the prover's reach.
`SentIsFinal` and `DeadHasCause` are theorems without a run of their own: `KeepsOutbox`
and `KeepsQueue`, which the runs check, imply them.

**OrderPlacement.** None of these is inductive alone. `StockConserved` needs that the stock a
request read is still there when it commits (`LocksProtect`: whoever holds a
lock saw the committed stock), that it holds all its locks until then
(`CheckedHoldsAll`), and that what it will publish is determined by how far it
came (`Progress`). `OneOrderPerKey` needs the unique index over committed *and*
uncommitted rows (`KeyIsUnique`). `NoStaleLock` needs that an open transaction
has a holder (`OpenIsHeld`). `IInv` is their conjunction.

The argument for a step: a step of one request leaves the invariant of every
other request alone (one frame lemma, from the locks it holds), and re-establishes
its own, one lemma per action; the shared parts (`OpenIsHeld`, `KeyIsUnique`,
`Conservation`) change in few actions only.

For `PlacementKeepsBook` a commit is the step that places the order
(`CommitPlaces`: the locks keep the stock that was checked, the index the key),
an answer is `Tell`, and every other step is invisible. That a refusal is true
needs `BookInv`: what a request passed on its way, and that the stock it was
refused for has not grown since, because stocks only shrink (`StockShrinks`).

**OutboxRelay.** A count of copies says nothing of the tick that made the last
one and has not committed. `Budget` therefore allows one copy more for an event
that is sent or that some tick has a mark for (`Tried`); a commit turns that
copy into a counted attempt or into "sent", and a failed tick, channel or
process pays for it with a fault. `MarkIsTrue` says the same of "sent" before the
commit. Both need that what a tick holds is still unsettled and has attempts
left, and that a tick has marks for nothing else (`ClaimsHold`): the row locks.
For `RelayKeepsOutbox` a publication is `HandOver`, enabled because the locks keep
the event open and `Budget` leaves one publication for an event no tick has tried; a
commit is `Settle`, true because of `MarkIsTrue`, which also says that what is marked
as failed may have failed; claims and marks are invisible. The extra copies of a send
are paid for by the faults of the same step.

**OrderProcessing.** `EffectOnce` needs that no two open transactions have
inserted one id (`OneInserter`) and that an id so inserted is not committed by
anyone else (`HandlerHolds`). `NothingLost` becomes inductive as `Kept`: the
message is safe even without the handlers that are about to acknowledge it, so
an ack, or the loss of one, can never take the last copy. `DeadHasCause` needs
the price of every attempt number in a queue or in a handler (`AttemptsPaid`).
For `ProcessingKeepsQueue` a commit is `TakeEffect`, the dead letter is `GiveUp`,
and a delivery, a retry, an expiry and a redelivery are invisible: they move a
message from one holder to the next (`DeliverLeavesOrHides`, `ExpireHides`,
`RequeueHides`). The end of a handler is `Leave` only if it had the last copy,
and `Kept` says that the message was done with by then (`EndLeavesOrHides`). That
no other message can take effect needs `Traced`: what is queued was published,
and what is about to be committed can be parsed and can succeed.

**PaymentService.** A decision may be stale when it is written, but not
arbitrarily: the payment a capture or a refund read still exists and the one to
be refunded has been captured (`DecisionHolds`), which is what
`PaidBeforeRefunded` and `SuccessIsTrue` need. That a created payment was absent
until its commit needs the unique index (`OneWriter`).

**PaymentSaga.** `ServiceIsItself` maps every step to a step of `PaymentService`
or a stutter, so its `IInv` is available. What a request knows at each step
(`Knows`) and what the guard established (`Admitted`) persist because no step
forgets a payment or its `paid_at`. `RepeatsAreSilent` is the deep one: a request
that begins after the capture is told so unless the payment was refunded, and a
payment refunded before the first step cannot be captured (`FrozenStays`).
For `SagaKeepsLedger` a step of the service maps to `Open`, `Settle` or `Return`
or stutters, which needs that `Commit` finds the status its decision allows, and
an answer or an event maps to `Tell`, which is enabled because what is told is
true (`ToldTheTruth`).

**CursorPagination.** Rows the cursor is past were shown or have a cause; what
the first statement left out comes after a full page; what was shown lies behind
the cursor. For a joined list the cursor of a page may lie before the page's last
row but never after it, which is enough to miss nothing, and which holds of any
number of lines, so that items may be added at any time.

**KafkaConsumption.** Whatever a process is past, or has committed, was handled
to its end and is no refused event (`Passed`), and the log only grows. A fenced
or restarted process starts from the committed offset and so from such a point.
`RepeatsArePaidFor` needs `Budget`, which counts runs against the events that are
safe as long as nothing fails (`Secured`: those the owner is past or has just
handled) and the failures so far. A crash or rebalance takes at most one event
out of `Secured`; a process that lost the partition in the middle of an event
(`Stale`) will run its handler once more, and that run is charged when it loses
the partition. What is secured was heard, which gives the property.

**OrderStatus, OrdersGateway.** Versions count the updates that have begun
(`VersionsCounted`), which bounds them. As long as no update overlaps another
writer, the entity of an update is the row it is about to write
(`EntityIsFresh`), and the stream is one version behind the row exactly while an
update tells of it (`StreamFollows`), with the last event either out or held
back by the timer. `ProcessedLostInGap` has no such premise. `GapInv` follows a
write that would undo the worker's (`Undone`) back through its call: it was
found by a `Diff` after the worker's commit, for an entity that was read before
it, and such calls are `exposed`. An entity read later has the worker's write,
and a comparison made earlier cannot have found a difference. `StatusIsItself` maps every step of the gateway to a step of
`OrderStatus` or a stutter. `RateLimited` is not inductive: the calls that
reached the database are among those the limit counts as long as more can be
made (`LimitCounts`), and the list is only emptied before the first or after the
last of them. A client in the room that has read the order lacks nothing but
what the stream is about to send (`ViewFollows`).

**FileUpload.** The sort order of a new image was counted before its commit.
`LinkIsNext` says that it is still the size of the committed gallery, which the
lock of the product's row keeps true (`HoldsLocks`); appending such a row keeps
the numbering (`AppendKeepsOrder`, the one place that needs the cardinality
theorems). What a transaction saw of its file, that it has a row and an object,
can only become truer (`SeenHolds`, `UrlHasRow`), which gives the rest.

## 6. Where the code and its documentation disagree

Two runs expect a violation:

| run | documented | what the code does |
|---|---|---|
| `placement_doc_pool` | `homework05.md:49` | requests at line 271 wait for a second connection and can exhaust the pool |
| `paging_doc_joined` | `README.md:226`, forward-only | with joined order items the cursor takes `createdAt` from a line of an earlier product; pages lead back, and a walk need not end |

The models show more of the kind, which the properties allow for:

- the loser of a race on one key is answered 503 and not the existing order:
  every Postgres error has a `code`, so line 307 of `orders.service.ts` takes it
  before the branch for 23505 (`homework05.md:90`);
- the same branch throws before the rollback, so the connection goes back to the
  pool in an aborted transaction (`homework05.md:47`); `startTransaction` on it
  then throws outside the try block, and nothing releases it (the second
  disjunct of `StartTransaction`);
- after the broker closed the channel the relay uses up the attempts of its
  events, which are then never claimed again (`homework12.md:132`), and an idle
  worker never consumes again (`homework12.md:171`);
- a late capture writes PAID over REFUNDED (`payments.service.ts:145` of the
  payments process);
- a request whose capture succeeded and whose answer was lost is repeated
  silently, so that `PaymentCaptured` is never published;
- one value that its handler throws at stops its partition for a group;
- `updateStatus` saves without a lock: the worker's PROCESSED is overwritten, or
  overwrites a status set meanwhile, and an update that was between reading and
  comparing clears `processed_at` (the gap of `ProcessedLostInGap`);
- of two updates that overlap one is lost, both publish the same version, and a
  client may hear an older version after a newer one;
- one successful send to Kafka may store an event more than once.

Where the code does nothing against a hazard, no property can hold that says
otherwise. `PROJECT.json` lists these hazards (the aborted and the unreleased
connection, the channel that stays closed, the lost update, the late capture,
the missing event of a capture) with a note and no property; the models have the
behaviour, as above.

## 7. What is left to do

- `ThrottlerGuard`: the swap of the shared list across an await, once the
  awaits of `@nestjs/throttler` are pinned down.
- `OrderPipeline`: placement, relay and worker composed over one outbox row, for
  the end-to-end property that a committed order is processed, dead-lettered or
  given up by the relay.

## 8. What is not modelled

Amounts, prices and totals (Postgres arithmetic on `numeric`); the wording of
answers; logging, metrics and audit records, which nothing reads back, and the
health probes; token signing and password hashing; roles and scopes, a stateless
test of the token's claims, except where a modelled component depends on them
(`CanPayGuard`, `canSubscribeToOrder`, the owner of a file); the throttler guard,
whose overlaps are decided by code outside the repository; migrations and seeds
apart from the constraints they create; generated code; bootstrap and
deployment. `paginateByCursor`, `paginateOffset`, `publishAuthorized` and
`publishFailed` have no caller. The GraphQL field resolvers and loaders only read
rows by their ids. `DELETE /orders/:id` always fails, since order items refer to
their order ON DELETE RESTRICT. Nothing enables shutdown hooks, so
`onModuleDestroy` does not run on a signal: a process that stops is a crash.
