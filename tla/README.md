# Payment service: TLA+ models and proofs

This directory holds a verification development of the payment service: modules
that model its code, TLC configurations that check them on small instances, and
theorems that TLAPS checks for every value of the constants.

    tlc -workers 2 -config EventStore.cfg  MCPaymentEventStore.tla
    tlc -workers 2 -config Rebuild.cfg     MCProjectionRebuild.tla
    tlc -workers 2 -config Idempotency.cfg MCIdempotentCreation.tla
    tlc -workers 2 -config Outbox.cfg      MCOutboxPublisher.tla
    tlc -workers 2 -config Consumer.cfg    MCKafkaConsumer.tla
    tlc -workers 2 -config Rabbit.cfg      MCRabbitConsumer.tla
    tlapm OutboxPublisherProofs.tla        (and so on: every *Proofs.tla)

`PROJECT.json` maps every definition to the lines it stands for.

## 1. The system

The service takes commands about payments over HTTP, keeps each payment as a
stream of events in PostgreSQL, and publishes the events to Kafka. Several
processes serve requests at once, and each is asynchronous, so that requests
interleave at every `await`. There is no `ATOMIC_REQUESTS`: a transaction is
what the code opens with `transaction.atomic`, at READ COMMITTED.

| Component | State it keeps | Operations | Talks to |
|---|---|---|---|
| `PaymentAggregate` (`domain/apps/payment/aggregate.py`) | status, version and uncommitted events of one payment, for the length of a request | four factories; `process`, `succeed`, `fail`, `cancel`, `mark_as_refunded`; `when` for replay | nobody |
| `PaymentCommandService`, `PaymentEventSourcedRepository` | none | load, decide, save | aggregate, event store |
| `EventStoreRepository` | table `EventStore`, unique on (aggregate, version) | `append` | outbox, and the projector when `DEBUG` |
| `DjangoOutBoxORMRepository` | table `EventOutbox`, unique on (aggregate, version), numbered by itself | `save`, `get_unpublished_events`, `mark_as_published`, `mark_as_failed` | written by `append`, drained by the publisher |
| `EventOutboxAdmin` (never loaded at this commit) | none | `mark_as_unprocessed`, `delete_processed_old` | outbox |
| `PaymentProjector`, its runner and the rebuild command | tables `PaymentReadModel`, `ProjectionState` | one handler per event; delete-and-replay | event store |
| `IdempotentPaymentExecutor`, `IdempotencyCommandService` and its repository, test endpoints, release command | table `idempotency_keys` | begin, claim or replay, record success or failure, clean up, release | command service |
| `OutboxKafkaPublisher` | producer and its undelivered messages | poll, produce, flush, delivery report, dead-letter | outbox, Kafka |
| `KafkaDomainConsumer`, dispatchers, `DomainEventBus` | offsets, dedup entries in the cache | poll, deduplicate, dispatch, commit | Kafka, handlers |
| RabbitMQ consumer | acknowledgements, dedup entries | `callback`, reconnecting loop | handlers (none registered) |
| JWT verifier | cached public key and its fetch time | `get_public_key`, `verify_token_async` | authentication service |
| Query side, user API client, settings | none of their own | reads | read model, key table |

### What is hard about it, and what would make it correct

- **Event store.** A command reads a stream, decides, and appends after an
  `await`. Others append between. Correct means: what is stored is what the
  commands would have done one after the other, whichever of them won.
- **Outbox and debug projection.** Two more tables are written in the same
  transaction, one with version numbers of its own, the other with guards of
  its own that may refuse and roll all back. Correct means: neither ever
  differs from the store.
- **Refunds** read one stream and write another, without a version on the
  first.
- **Rebuild.** Replays by wall-clock time, through guards stricter than the
  aggregate's and columns narrower than the event store's, while requests append.
  Correct means: what it commits is right,
  and readers never see a payment go back.
- **Idempotency keys.** A key's row is a lock with a lease, a fingerprint and a
  stored answer. The claim reads under a row lock and writes after the lock is
  gone; recording an outcome reads without a lock. The lease may lapse under a
  running request; requests die; keys expire and are deleted under their holders;
  and an endpoint lets anybody record a failure, with any body, for a pending key.
  Correct means: one payment per lease, a completed key that names a payment of
  its own, outcomes that stay, and no key locked for ever.
- **Publishing.** Claims are released before anything is sent, delivery reports
  come late or not at all, and a message that failed may have been written.
  Correct means: no event leaves the poll unless it was sent or has failed often
  enough, and every event leaves it.
- **Consuming.** A message is marked as seen before it is handled, a partition
  moves in the middle of it, and commits are refused. Correct means: what is
  committed or acknowledged was dispatched, and what can be dispatched is.

The list `hazards` of `PROJECT.json` has each of these at its line with the
properties that cover it.

## 2. Modules

| Module | Models | Role |
|---|---|---|
| `PaymentLifecycle` | the promise: a status per payment, moved atomically along the aggregate's graph | abstract specification |
| `PaymentEventStore` | aggregate, command service, repositories, event store, outbox write, debug projection | detailed specification |
| `ProjectionRebuild` | the rebuild command beside the write side (extends `PaymentEventStore`) | composition |
| `IdempotentCreation` | executor, idempotency service and repository, test endpoints, release command | detailed specification |
| `IdempotencyKey` | the promise: one entry per key, one payment under it until it lapses, completed only with one of its payments | abstract specification |
| `OutboxDelivery` | the promise: an event is recorded, sent, published or given up, put back | abstract specification |
| `OutboxPublisher` | publisher, outbox repository, admin actions; broker and producer library from how they are used | detailed specification |
| `AtLeastOnce` | the promise of both consumers: what is taken was processed, or cannot be | abstract specification |
| `KafkaConsumer` | consumer loop, deduplication, dispatchers, event bus; the group's coordinator from its use | detailed specification |
| `RabbitConsumer` | callback and loop of `run_consumer`; the queue from its use | detailed specification |
| `MC...` | an instance of each | TLC |
| `PaymentEventStoreProofs`, `ProjectionRebuildProofs`, `RebuildProgressProofs`, `IdempotentCreationProofs`, `IdempotentOutcomeProofs`, `OutboxPublisherProofs`, `KafkaConsumerProofs`, `RabbitConsumerProofs` | theorems | TLAPS |

The operators named `Mut...` are plausible slips, used to show that the
properties notice them; no specification refers to them.

### PaymentEventStore

`store`, `outbox` and `readModel` are the tables; `command[w]` is what request
`w` has decided and not yet saved; `debug` is `settings.DEBUG`, either value, for
the whole run. A row is `[payment, version, event]`. The event carries what a
decision reads again later: its type and, for a created payment, amount and the
payment it refunds. Of the read model the status is kept. `Unfit` is the set of
amounts (money, so with their currency) that the read model cannot hold and that
neither the views nor the aggregate refuse: zero in four decimals, more than 19
digits, a currency of more than three letters. Their `Created` event fails
`FitsReadModel`: in debug mode it is rolled back, in production it is stored.

Every command is two steps. `CreatePayment`, `CreateRefund`, `ProcessPayment`,
... read the stream and decide: one SELECT, then code nobody else can observe.
`Append` is `EventStoreRepository.append`, one transaction, with everything in
it: the row under `expected_version + 1`, the outbox row under the outbox's own
next version and, in debug mode, the projector's UPDATE. Its failures are the
actions `AppendConflicts` (unique constraint), `ProjectionRefuses`
(`ProjectionInvariantViolation`, or the database refuses the read model's row:
everything is rolled back) and `Crash`. A command
that is rejected changes nothing and is a guard that is false.

One row is appended per command, since every command of the aggregate emits one
event. The retry loop of the outbox's `save` is left out: its integrity error can
only come from a concurrent append to the same payment, whose event row has then
already been refused or committed. That the outbox mirrors the store is meant of
what was written; later the publisher changes other columns, and the admin's
deletion, were it loaded, would remove rows (module `OutboxPublisher`), after which
a payment's numbering in the outbox begins lower. Nothing reads that number.

### ProjectionRebuild

`rebuild` is the command's transaction: the `rows` its SELECT returned, those it
has `played`, and the read model it is making, its `shadow`, which nobody else
sees until `FinishRebuild`. `BeginRebuild` is lock, DELETE and SELECT;
`Replay(r)` is one round of its loop, `ReplayRefuses(r)` the projector's or the
database's exception, which rolls all back, and `CrashRebuild` the end of the process. An
append that projects waits for the row of `ProjectionState` (`Locked`), so
`WriteSide` is the write side's `Next` with its tables standing still meanwhile;
in production the append does not project, does not wait, and its payment is
simply not in the snapshot. `clocksAgree` says whether `created_at` orders the
events of each payment as their versions do; when it does not, every order is
possible.

### IdempotentCreation

`rows[k]` is the row of key `k` (which stands for key and user) or `NoRow`;
`request[r]` is where a request stands and what it remembers. A lock is `none`,
`live` or `lapsed`: that the clock passes `locked_until` is the action
`LeaseLapses`. Expiry is by value: each row is created with an `expires_at` of
its own, `expired[k]` says which of them are past, because `update` writes the
`expires_at` it has *read* into the row it *finds*, which may be another row.

| Step of a request | Code |
|---|---|
| `Begin` | fast path of `process_request` |
| `Claim` | the `select_for_update` of `claim_or_replay` and the decision |
| `Insert`, `Steal` | the two writes of `claim_or_replay`, outside that transaction |
| `Execute`, `ExecuteFails` | `execute_command`, then the construction of the view |
| `ReadSuccess`, `SaveSuccess` | `record_success`: unlocked read and checks; `update` |
| `ReadFailure`, `SaveFailure` | the same for `record_failure`, in the `except` clause |
| `ClaimOnly` | `begin_test_processing`: a claim that nothing follows |
| `RecordTestFailure`, `SaveTestFailure` | `record_test_failure`: `record_failure` by a caller who has claimed nothing, with a body of its own |

The payment command is one step here (its own interleavings are the other
module's); `created` remembers which payment was created by whom, and
`unguarded` which rows have ever been pending without a live lock. Both are
history: no action reads `unguarded`, and `created` is read only for the ids in
use. The rest are environment: `Crash`, `RecordSuccessFails`, `CreateTestKey`
(a test endpoint), `LeaseLapses`, `KeyExpires`, `CleanUp`, `ReleaseStuck`. A
request that gets an error is gone, and may come again.

A row's `answer` is the `payment_id` of its stored body, or `NoPayment`.
`record_failure` stores the error of the executor, which names none, but
`record_test_failure` stores what its caller sent: any of `TestAnswers`. Replays
(`Replied`) answer from that `payment_id` whatever the row's status is, as the
executor does; the model tells answers from a COMPLETED row (`answered`) from
those of a FAILED one (`answeredFailed`) only for the properties.

`IdempotencyKey` is what all this promises to its clients. It has neither
requests nor locks: an entry is inserted, lapses, is completed with a payment
made under its key or fails with any answer, is removed, and payments are made
under it. `Entries` reads such an entry off a row, leaving out
its lock and its `expires_at`; `lapsed` is `unguarded`, `made` is `created`.

### OutboxPublisher and OutboxDelivery

The table is the sets `recorded`, `deleted`, `published`, `processed` (rows whose
`published_at`, `processed_at` are set) and the counter `retries`. Events are
numbered by `created_at`, the order of the poll. `pc[p]` is where publisher `p`
stands in `publish_events`, `batch[p]` what it has polled and not queued yet, and
`queue[p]` counts the messages of its producer by event and fate: `waiting`,
`delivered` or `failed` and not yet reported. `sent` is the broker's log.

| Step | Code |
|---|---|
| `Poll`, `PollEnds` | `get_unpublished_events`: row locks held until its transaction ends, before anything is produced |
| `Produce`, `BufferFull`, `ProduceAgain`, `BufferStillFull` | the loop of `publish_events` with its `BufferError` clauses |
| `CannotQueue`, `CannotCount` | `produce` raises something else; `mark_as_failed`, which may raise itself |
| `FlushEnds`, `FlushTimesOut` | `flush(10)` |
| `Deliver`, `Fail` | the broker acknowledges, or the library gives up (and may have written) |
| `ReportDelivered`, `ReportFailed`, `ReportRaises` | `_delivery_report` with `mark_as_published`, `mark_as_failed` |
| `Judge`, `Bury` | its second transaction for a failure: the row is read again, and marked dead when over the limit |
| `MarkAsUnprocessed`, `DeleteProcessedOld` | the admin's actions |
| `Crash` | a stop, or an exception that reaches `start`: the producer goes with its messages (`StartOver`) |

`retries` is a smallint: past `MaxCount` the UPDATE raises. `spent` is history, and
no guard reads it: the events that had `Limit` failures without a replay between.

`OutboxDelivery` is what that promises for each event: published only when sent,
given up only when `spent`.

### KafkaConsumer

`log`, `committed`, `owner` and `position` are the topic and the group as the
broker and its coordinator keep them; `cache[c]` is the default Django cache, in
the memory of process `c`; `current[c]` is the message at hand and its stage.
`Poll` is `poll` and `is_duplicate`, which marks at once; `Process` is the
dispatcher and `DomainEventBus.publish`, one step, because every handler of this
commit only logs and whatever it raises is dropped. `ProcessFails` is
`from_dict` raising; `Commit`, `CommitFails` and `CommitOfDuplicateFails` are the
two commits, one inside the inner `try`, the other outside. The environment
starts processes, assigns and revokes partitions, and lets messages arrive more
than once. Malformed, unknown, keyless and undecodable messages are sets.

### RabbitConsumer

`place` says of each copy whether it is unsent, ready, gone, or which consumer it
is with; `stage` and `atHand` where each callback is. `LoseConnection` puts the
message back while the callback goes on, which notices only when it settles
(`SettleFails`). A rejected message is dropped, for the queue is declared without a
dead letter exchange. The registry of handlers is empty, so that processing a
readable body cannot fail.

### AtLeastOnce

Both consumers implement it. A copy is an offset of a partition, or a delivery of
the queue; it is `offered` with its message, `taken` when the group has committed
past it, or when it has left the queue, and `processed` is `dispatched` or
`processed`. Who has a copy at hand, marks, caches, positions and connections are
not in it.

## 3. Runs

| Run | Shows | Distinct states |
|---|---|---|
| `event_store` | all properties of 4.1 | 127,458 |
| `rebuild` | all properties of 4.2 | 134,643 |
| `idempotency` | all properties of 4.3, liveness included | 347,468 |
| `outbox` | all properties of 4.4, liveness and refinement included | 132,413 |
| `kafka_consumer` | all properties of 4.5 about Kafka, liveness included | 648,738 |
| `rabbit_consumer` | all properties of 4.5 about RabbitMQ, liveness included | 43,049 |
| `failed_is_final` | violated: `fail`, then `succeed` | |
| `refunds_only_succeeded` | violated: create, then refund while pending | |
| `exactly_once` | violated: execute, lease lapses, steal, execute | |
| `own_body` | violated: fast-path replay to a different body | |
| `refund_failure` | violated without any fault: a refund is saved and recorded FAILED | |
| `failed_stays_uncommitted` | violated: a malformed message, then a good one whose commit covers it | |

### Bounds, and why they are enough

Event store:

- Two payments and two requests: every race is between two commands, on one
  stream or (a refund) on two. More requests only repeat a conflict with another
  winner.
- `MaxVersion = 3`: streams of up to three rows, so Created, Processed,
  Succeeded; Created, Failed, Succeeded; Created, Succeeded, Refunded and all
  others of that length occur. All guards look at the last event only, so pairs
  of consecutive events are what matters, and every legal pair occurs.
- `MaxAmount = 2`, `Unfit = {1}`: refunds smaller than, equal to and larger than
  the original; 0 is the amount that is rejected, 1 the one that only the read
  model rejects.

Rebuild: one payment, since the replay of one touches no other, with
`MaxVersion = 5`, so that Created, Processed, Failed, Failed, Succeeded are
replayed in every order; two requests append meanwhile. Two payments with
`MaxVersion = 3` and one request were run too (3,805,294 states).

Idempotency:

- One key: keys share nothing but payment ids, and the other body covers those.
  Two requests: holder and contender. `MaxRows = 2`: a row is cleaned up and
  inserted again under a running request. The bound is on clean-up, so that it
  never keeps a request from going on. `MaxFaults = 1`: one crash, failed
  recording or `ClaimOnly`, anywhere.
- Two payment ids under the key, for the properties compare two creations. When
  both are used a command can only fail, as it may at any time (`ExecuteFails`).
- Two bodies: `a`, and `b`, a refund, which asks for the id `p1`.
- `TestAnswers` is `p2` and no payment: a recorded failure names a payment that
  does not exist, that exists under the key, or none.

Outbox: two publishers and two events, one of them, both or none unsendable;
`BatchSize = 2`, so that a batch is abandoned half-way; `Capacity = 1`, so that the
queue is full at the second event; `Limit = 1` and `MaxCount = 2`, so that an
event is given up before its counter is full, and the counter of one that
cannot be queued fills; `MaxFaults = 1`: one flush that times out, one crash, one
replay or one deletion, anywhere. Failures of messages are not faults and not
bounded. The safety properties of the publisher are proved for any limits.

Kafka consumers: two processes, two partitions of up to two messages, four kinds
of messages, a cache of one entry, so that it drops marks; one crash, revoked
partition or failed commit. The cases are a duplicate in the same and in the
other partition, to the same and to another process.

RabbitMQ: two consumers, two copies of each of two messages, one readable and one
neither readable nor named, two faults (a lost connection, then the crash of who
got the message back). Three messages were run for safety (1,648,605 states).

The proofs of section 6 remove the bounds for all but the liveness properties.

`CHECK_DEADLOCK FALSE` is set where the system may come to rest: the outbox is
empty, the topic or the queue has been read and the faults are spent.

## 4. Properties

### 4.1 Event store

- `VersionsDense`, `LegalHistory`, `SettledOnce`: streams are serial histories
  although decisions were made on older streams.
- `CommandsSound`: why: the row a pending decision was made on is still there
  and still allows it. Only the version can have been taken.
- `OutboxMirrorsStore`: the two independent numberings never drift apart.
- `RefundWithinOriginal`: no refund exceeds its original.
- `ReadModelFollowsStore`: in debug mode the read model is the stream's status.
- `ImplementsLifecycle`: refinement. With the status of a payment defined as the
  one its last row leaves, the specification implements `PaymentLifecycle`.
  In debug mode the projector forbids Failed before Succeeded, out of debug mode
  nothing does; both implement the graph.

### 4.2 Rebuild

- `ReplayIsFaithful`: whatever order the clocks give, the projector's guards stop
  the replay or its result is the status of each payment's last version.
- `StoppedByReopenedOrUnfit`: when the clocks agree two things stop it, an event
  after a Failed one and a payment the read model cannot hold. The write side
  stores both in production, and one such payment makes every later rebuild raise.
  In debug mode (from the empty store on, as `debug` is fixed) neither is stored.
- `ReadModelMovesOn`: a rebuild may commit a snapshot older than the store, and
  still no reader sees a payment go back.
- `ReadModelFollowsStore` holds through rebuilds, which rests on the row lock.

### 4.3 Idempotent creation

- `OnceUnderLease`: a row whose lease never ran out (and that was never created
  unlocked by the test endpoint) has at most one payment, through crashes,
  failed recordings, expiry and clean-up.
- `RetriesAgree`: when the lease did lapse, what is created twice is the same
  body.
- `CompletedNamesPayment`: a COMPLETED row names a payment created under the
  same key; if that payment was created under this very row, then from the body
  whose fingerprint the row has. If the row was cleaned up after the payment was
  created, and another request has inserted a row with another body before the
  outcome is read, the new row is completed with the old row's payment: its
  fingerprint is then not the payment's body. The model reaches that state, and
  the property does not exclude it.
- `TerminalUnlocked`, `OutcomesStay`: stale writes of late stealers and second
  recorders neither lock nor reopen a settled key.
- `OneAnswer`: as long as a key was not replaced and its first lease did not run
  out, all its clients that are answered from a success are told the same
  payment, whatever crashes between. It says nothing of failures: with a live
  lease somebody may record one whose body names another payment, a client is
  told that payment, and the holder, already past its read, then completes the row.
- `ImplementsKey`: refinement. Every write of the table and every payment is a step
  of `IdempotencyKey`, stale writes and failures with any body included.
- `PendingKeySettles`: a pending key does not stay pending, unless it expires.

### 4.4 Outbox

The administrator's two actions are in the model although `django.contrib.admin` is
not among the installed applications and no URL serves it, so that `admin.py` is
never loaded at this commit: what holds with them holds without.

- `NothingForgotten`: a row that is no longer polled is in the broker's log, if it
  is marked published, or had `Limit` failures in a row.
- `ImplementsDelivery`: every write of the table is one step of `OutboxDelivery`.
- `EventuallySettled`: every event recorded or put back is processed in the end,
  unless the counter of an event that cannot be queued is full. The exception is
  the code's: the limit is looked at in delivery reports only, so such an event
  is counted and polled for ever, and once the UPDATE of its counter raises,
  every round that reaches it is abandoned with what was queued before it.

### 4.5 Consumers

- `NothingLost` (Kafka), `TakenIsProcessed` (RabbitMQ): what is committed, or gone
  from the queue, was dispatched, or cannot be.
- `MarkedIsHandled`: the mark that is set before the message is handled is never
  believed too early. It holds because the cache dies with its process; a cache
  shared by processes would break it.
- `ImplementsAtLeastOnce` (both): refinement. It adds to the above that only what
  was sent is processed, that commits never take a group's offset back, whichever
  process makes them, and that nothing that left the queue returns to it.
- `EventuallyDispatched`: what can be dispatched is, unless a partition holds a
  message that is not UTF-8, of which every process dies.
- `EventuallyTaken`: every copy leaves the queue, the unreadable ones too.

### 4.6 What the repository says and the code does not do

`FailedIsFinal`, `RefundsOnlySucceeded`, `ExactlyOnce`, `AnsweredFromOwnBody`,
`CreatedIsNoFailure` and `FailedStaysUncommitted` state sentences of the
repository; `findings` quotes them. Where a weaker form holds it is one of the
properties above: `OnceUnderLease` is what remains of exactly-once, `RetriesAgree`
of the fingerprint's promise, and `NothingLost` of the retry, for messages that
can be dispatched.

## 5. Fairness

`PendingKeySettles`:

- weak fairness of `Proceed(r)`: the event loop runs a request that is not
  waiting for anybody; a request that dies does so by `Crash`, which nothing
  makes happen or prevents from happening, up to its bound;
- weak fairness of `LeaseLapses(k)`: time passes;
- strong fairness of a client's `Begin` for each key and body: the code answers
  a locked key with "Please retry in a few seconds", and the property is about
  clients that do. It is strong only because the number of requests is
  bounded: a slot is free again and again, not all the time.

`EventuallySettled`:

- weak fairness of `Loop(p)`: the publisher is an endless loop;
- strong fairness of `Write(p)`, its UPDATEs: they wait for the row locks of other
  publishers' polls, which come and go, and a database serves a waiter;
- weak fairness of the broker's answer: the producer itself gives a message up
  when its own timeout is over. Which answer is open.

`EventuallyDispatched`: weak fairness of each process's `Loop` and `Start` (the
command is a service that is restarted) and of the coordinator's `Assign`.

`EventuallyTaken`: weak fairness of each process's `Run`, which includes starting
and reconnecting, and of the broker's delivery of each ready message.

Nothing is assumed about expiry, clean-up, the release command, test endpoints,
administrators, revocations or arrivals. Nothing retries an append that conflicts
and nobody has to run the rebuild, so the write side has no liveness to offer,
and none is stated.

## 6. Proofs

All theorems hold for any sets and any bounds the ASSUMEs allow: empty values are
distinct from real ones (a missing row also from all that a row may say), bounds
are naturals, special messages are messages, events are finitely many numbers.
TLC evaluates the assumptions in every run.

`PaymentEventStoreProofs`:

- `IInv` is the conjunction of the safety properties, which are inductive only
  together, with `CommandsSound` (what was read before the `await` still supports
  the decision) and `StreamsEnd` (a stream that is not empty has a last row).
  The step that matters is `Append`. The free slot `expected + 1` and the row at
  `expected`, which `CommandsSound` keeps for as long as the command is pending,
  make the new row the next of a dense stream (`FreeSlotIsNext`), so the decision
  was made on the row just before it. `OutboxAgrees` shows the outbox computes
  the same number.
- `DebugReadModelIsCurrent` and `Refinement` rest on `StatusIsLast`: in a dense
  stream the status is that of the only last row. Every step but `Append` is
  silent (`OthersAreSilent`), and `Append` is `Open` or `Move` (`AppendMoves`).

`ProjectionRebuildProofs` extends it. Streams are legal histories, so the
projector's guards accept an event only when it is younger than all that were
replayed of its payment (`AcceptedIsLast`), in whatever order events come; the
shadow is then always the last one's status (`ShadowIsLast`). In debug mode the
store stands still while the lock is held (`StoreStandsStill`), so what is
committed is current.

`RebuildProgressProofs`: the snapshot has every older row of each payment it has a
row of (`SnapshotIsClosed`), because appends only add the youngest
(`AppendedIsLast`), and so has what is replayed when clocks agree
(`PlayedIsClosed`); so the row before the next is the last replayed, and the pair
is legal. In debug mode no event follows a Failed one (`FailedIsLast`) and what is
stored fits the read model (`FitIsStored`): `OnlyReopenedOrUnfitStops`. What
readers are shown is the status of a stored row which a running rebuild has
selected too (`ShownIsStored`), and younger rows of a payment have statuses that
may follow (`StreamsMoveOn`): `ReadersMoveOn`.

`IdempotentCreationProofs`: `IInv` adds to `OnceUnderLease` and `RetriesAgree` what
makes them inductive: no row has a number above `inserted` (`RowsAreCounted`); what
a recorder has read is a row's (`SeenIsOfARow`); a pending row that was never
unguarded is locked (`GuardedIsLocked`), so whoever steals a row comes after its
first lease (`StealersAreLate`), and under that lease the one who executes is
alone (`HolderIsAlone`); and all who claim a row or have created under it have
one body (`ClaimsAgree`). There is one lemma per writing action; the rest fall
under `MovingOffPreserves`, since a request that gives up or only reads can
disturb nothing.

`IdempotentOutcomeProofs` adds that a key's row is always the one inserted last
(`RowsAreLatest`). So who records under the row it claimed has read that very row,
while it was PENDING, and writes back the fingerprint its own body was compared
with (`SeenIsOwn`); if the row was replaced meanwhile, the payment was created
under an earlier one, and only the key is claimed. `AnswersAreOwn` follows, and `OutcomesAreUnlocked`
and `OutcomesAreFinal` by a look at how rows change (`RowChanges`).

What clients are told from a success is, at the moment they are told, the answer
of a COMPLETED row or the payment the request itself has made; both name a payment
of the key (`MovingIsTruthful`), and payments stay: `AnswersAreOfTheKey`. It is
proved for any number of keys and is no property of the run, which has one key. A key with one row
has all its payments under it (`CreatedUnderRows`), so with `OnceUnderLease` there
is one: `AnswersAgree`. For `Refinement` an insert is `Insert`, with a lease or
lapsed at once (`InsertingInserts`); a creation is `Make`, which needs `HolderIsAlone`
and `ClaimsAgree` (`ExecutingMakes`); a recorded success is `Complete`, which needs
that the row written names a payment of the key (`OutcomeSettles`), a recorded
failure `Fail`; a lapsed
lease is `Lapse`, a clean-up `Remove`; stealing, expiry and all else are silent.

`OutboxPublisherProofs`: `IInv` says of each producer's queue that its messages are
of recorded events (`QueuedAreRecorded`) and that a delivery still to be reported is
in the log (`DeliveredAreSent`), however late; of the table that a published or
deleted row is processed (`RowsAreProcessed`); and of a publisher that has found
its event over the limit, or would, that the event is spent (`JudgedAreSpent`):
not only now, but after an administrator has reset the counter too.
`NoEventIsForgotten` is a conjunct, and for `Refinement` each write is one abstract
step (`ReportsPublish`, `BuryingGivesUp`, `FailuresAreCounted`, `MarkingReplays`) and
all else, deletion included, is silent.

`KafkaConsumerProofs`: the owner of a partition polls its offsets one at a time, so
all it has polled is settled but for the message at hand (`OwnerHasHandled`); it
commits an offset it has polled of a message that is settled by then
(`AfterHandling`). For `Refinement`: the offset it has at hand is the last one it
has polled (`AtHandIsLastPolled`), and what the group has committed lies before
(`CommittedIsPolled`), since whoever owns the partition began there; so a commit
only moves the group's offset on (`CommitTakes`). An arrival is `Offer`, a dispatch
`Process`, all else is silent.

`RabbitConsumerProofs`: a mark is believed only between two callbacks of its own
process, and by then its message was processed (`MarkedIsProcessed`). A callback
may outlive its connection while its copy is with somebody else, or gone, but what
it has at hand was sent (`AtHandWasSent`). So `Process` is allowed, publishing is
`Offer`, settling is `Take` (`SettlingTakes`), and as no step brings a copy that is
gone back, all else is silent: `Refinement`.

Only model-checked: the four liveness properties. Liveness under fairness and
ENABLED are out of the prover's reach, as are induction over data through the
library's theorems and RECURSIVE operators; the modules use neither recursion
nor induction (the one fold, `Outstanding`, is only compared with `Capacity`).

## 7. Not modelled, and why

- **JWT verifier and middleware.** Token checks are cryptography. The key cache is
  one value behind one asyncio lock; what can go wrong with it is a matter of
  real time (when a key counts as old), and it shares no state with payments.
- **Query side.** Reads with filters and paging; it changes no state.
- **Unused code.** The Kafka producer and command publisher, the legacy `Payment`
  class, `PaymentProjectionRunner.apply`, the idempotency repository's `lock`,
  `unlock`, `force_unlock`, `delete` and `delete_by_user`: nothing calls them.
- **User API client.** Stateless calls whose result nothing in the payment flow
  depends on.
- **Admin change forms.** No admin site is installed. The two actions of the outbox
  admin are modelled all the same; its forms, which write back whole rows as they
  showed them, are not.
- **Settings, migrations, deployment.** Configuration; what the models depend on
  (`DEBUG`, isolation level, the cache) is a constant or a choice of the modules.
- **Details of modelled parts.** Parsing and validation of request bodies, HTTP
  status codes, wording, logging, decimals (but for whether the read model can
  hold an amount), the contents of messages, a negative `older_than_hours`. An event
  that can be queued is not refused by `produce` for a passing reason: it would be
  counted and polled again. Time is
  abstract: a lease lapses, a flush times out or a key expires at some moment.
- **Composition of executor and event store.** The executor's `Execute` is one
  step. A creation is one append of the first row of a stream, which either
  commits or fails, so the event store's interleavings are seen by the executor
  as success or failure, both of which `Execute` and `ExecuteFails` offer.
- **Order of a payment's events in Kafka.** The key of a message is the event's id,
  so events of a payment may be in different partitions. No text promises an
  order and no handler depends on one; `KafkaConsumer` lets every message arrive
  anywhere.
