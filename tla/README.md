# Verification of koupang

TLA+ models of the parts of koupang where concurrency, failures and retries
decide whether the shop is correct: the transactional outbox, the Kafka
consumer, the ordering saga, the job runner, payments, inventory, the catalog and
its caches, accounts and their tokens, carts and the circuit breaker. TLC checks
each model on small instances. For the outbox relay and the event consumer, on
which everything else rests, for the ordering saga, the inventory, the job
runner, the cart and the circuit breaker, TLAPS proves the main safety properties
for every instance.

Source paths below are relative to the repository root.

## 1. The system and its parts

koupang is a marketplace of Rust services (axum, sqlx/PostgreSQL, Redis, Kafka).
A service never calls another one to change state: it writes an event into its
own `outbox_events` table in the transaction that changes its data, a relay
publishes the row to Kafka, and consumers of other services handle the event in
a transaction of their own.

| Part | Code | State it changes | Model |
|---|---|---|---|
| Outbox relay | `shared/src/outbox`, `shared/src/events/producer.rs` | `outbox_events`, Redis dedup keys, Kafka | `OutboxRelay`, `EventDelivery`, `OutboxRelayProofs` |
| Event consumer | `shared/src/events/consumer.rs`, `shared/src/outbox/processed.rs` | `processed_events`, offsets, dead-letter topic | `EventConsumer`, `EventConsumerProofs` |
| Ordering saga | `order/src`, `catalog/src/consumers`, `payment/src/consumers` | orders, reservations, ledger, through events | `OrderSaga`, `OrderSagaProofs`, `SagaOutcomeProofs` |
| Job runner, service lifecycle | `shared/src/jobs`, `shared/src/server.rs` | `persistent_jobs`, tasks in flight, the process | `JobRunner`, `JobRunnerProofs` |
| Payments and ledger, Redis lock | `payment/src/{consumers,payments,ledger}`, `shared/src/distributed_lock.rs` | ledger tables, outbox, Redis key, gateway | `PaymentProcessing` |
| Inventory | `catalog/src/inventory`, SKU writes of `catalog/src/products` | `skus`, `inventory_reservations`, outbox | `CatalogInventory`, `CatalogInventoryProofs` |
| Circuit breaker | `shared/src/circuit_breaker.rs`, `payment/src/gateway/circuit_breaker.rs` | in-memory breaker state | `CircuitBreaker`, `CircuitBreakerProofs` |
| Cart | `cart/src/cart` | a Redis hash per user | `Cart`, `CartProofs`, `CartCheckout` |
| Rule tree | `shared/src/rules.rs` | none (pure) | `RuleTree` |
| Order request, order and payment rules | `order/src/orders/{dtos,value_objects,rules}.rs`, `payment/src/payments/rules.rs` | none (pure) | `OrderPlacement` |
| Products, categories, brands | `catalog/src/{products,categories,brands}` | catalog tables, product caches | `CatalogTables`, `CatalogAdmin` |
| Cache-aside | `shared/src/cache` | Redis | `RedisCache` |
| Pagination | `shared/src/db/pagination_support.rs` | none (pure) | `Pagination` |
| Users, tokens, authentication | `identity/src`, `shared/src/auth` | users, tokens, JWTs, user cache | `Identity` |
| DB helpers, config, e-mail, gRPC, health | `shared/src` | none of their own | not modelled |
| bff-gateway, moderation, notification, review, shipping | stubs | none | not modelled |

How they interact. `OutboxRelay` establishes at-least-once publication, in order
per aggregate except after a retry. `EventConsumer` establishes that the writes
of a handler are committed at most once per event unless a member of the group
works on after it lost the partition. `OrderSaga` takes both as its bus and
looks at three services over it, with handlers as atomic steps (two steps for
the order service, which reads and writes without a lock). `PaymentProcessing`
and `CatalogInventory` open up the handlers that `OrderSaga` treats as atomic,
one SQL statement, Redis command or gateway call per step. `CatalogAdmin` and
`Identity` are the HTTP services on the same tables and caches; `RedisCache` is
instantiated by both. `OrderPlacement` extends the cart with what the order and
payment services say of an order made of it.

## 2. Modelling conventions

- A step is one SQL statement, one Redis command, one Kafka call or one gateway
  call, or a transaction where nothing outside can observe its inside. Between
  two steps of one actor every other actor may run.
- Names are those of the code; a definition without a counterpart there is
  named for what it stands for. `PROJECT.json` maps definitions to lines.
- Clocks are abstracted: a back-off, TTL, cooldown or stale-lock age "may have
  elapsed by now". Where the elapse under a live owner is exceptional (a relay,
  task or lock holder slower than its lock), it is a fault.
- Faults are counted by kind (`faults`) and bounded in all by `FaultBudget`;
  `FaultKinds` says which may happen. Properties that are weakened by a fault
  name it (`faults["zombie"]`), so the property says what the fault costs.
- Kafka, PostgreSQL row locks and deadlock detection, Redis and the gateway are
  modelled from how the code uses them and are marked external in the map.
- Operators under the comment "Seeded defect" are variants of the definition
  that follows them. They are not part of the specification: each is a plausible
  bug that must violate a property, and shows that the property has force.

## 3. The modules

### OutboxRelay, EventDelivery

State: the rows (`status`, `retryCount`, `lockedBy`, `backoff`), Kafka
(`delivered`), the Redis cache (`dedup`), and for each relay its step, batch,
current event and the events for which the claimed `retry_count` said "last
attempt" (`last`: `process_batch` escalates from this copy). Actions:
`insert_outbox_event`, `claim_batch`, then per event `is_published`,
`publish_payload`, `cache_published`, `mark_published` or
`mark_retry_or_failed`, `escalate_failure`; beside them `release_stale_locks`,
`cleanup_published`, `BackoffElapses`, `DedupExpires`, `crash`. A relay in
`Deleting` runs with `delete_on_publish`. `late` records rows that commit after
a younger sibling was visible (`created_at` is the start of the transaction).

`EventDelivery` is what a client may rely on: an event is stored, stays open
until it is sent or abandoned, and is never closed unsent.
`ImplementsDelivery` is the refinement.

### EventConsumer

One partition (a fixed log with a repeated event and undecodable bytes) and the
members of a group. `recv`, `is_event_processed`, `handle`,
`backoff_or_shutdown`, `send_to_dlq`, `commit_offset` are the steps of
`process_message`; `crash`, `restart`, `rebalance`, `shutdown`, `stop` and
`cleanup_processed_events` surround it. A member that loses the partition at
work goes on as a zombie. `unacked` records offsets left uncommitted after a
database or dead-letter error.

### OrderSaga

The three databases (order status, reservation, ledger rows), an outbox and the
queues of each subscription. Actions: `create_order`, `cancel_order_check` and
`cancel_order`, `read_order` and the writes of the four order handlers,
`catalog_order_created`, `catalog_order_cancelled`, `payment_inventory_reserved`,
`payment_order_confirmed`, `handle_capture_retry`, `payment_order_cancelled`,
`relay`, and the external monitor `payment_timed_out`. Faults: a publication
overtaken by a younger one, an event lost to the dead-letter topic or skipped, a
repeated or redelivered event, database and gateway errors.

### JobRunner

Rows of `persistent_jobs`, runners, and the task slots of each runner. Every
mark of a finished task is a step after its execution, so that recovery, the
cleanup loop and other runners can come between. The unique index and the
status trigger of the migration are guards (`IndexAllows`, `TriggerAllows`).
`drain` waits for the in-flight count as the code does: load, then wait.

Around the runner is the life of its process (`shared/src/server.rs`): `run`
seeds the recurring jobs and spawns the loops, `bind` takes the port or fails
with the loops already running, `shutdown` cancels the token, `exit` ends the
process whether or not the drain has finished, and a crashed or failed process
is started again. A behaviour has one of the instance's workloads: which rows
are there, which services, faults and shutdowns.

### PaymentProcessing

Two consumer instances handle the events of one order: begin and idempotence
test, Redis lock, one or two reads on the pool, gateway call, ledger and outbox
writes on the transaction, release of the lock, and only then the commit. The
order of `release` and `commit` is the code's (`payment/src/consumers/handler.rs:131`).
`derive_payment_state` looks at the newest posted row by `created_at`, which is
the time the transaction began; `chron` keeps that order.

### CatalogInventory

A transaction (`Txs`) is an order and a database session at work on it: members of
the consumer group that handle `OrderCreated` or `OrderCancelled`, and callers of
`confirm_for_order`. Several sessions may work on one order at once, also on the
same event: a member that has lost the partition goes on beside the new owner, both
have found no row in `processed_events` (`processed`), and `mark_event_processed`,
with its `ON CONFLICT DO NOTHING`, stops neither. Events may come again, late and in
any order. The cleanup of `processed_events` is in `EventConsumer` only.

A reserve, release or confirm transaction takes the row lock of one SKU after the
other; `deadlock_detected` is PostgreSQL aborting one transaction of a cycle. An
UPDATE whose WHERE clause the committed row does not satisfy does not wait for the
lock. A failed reservation announces its failure in a transaction of its own
(`FailureWritten`), and is rolled back by the consumer (`rollback_failed`). If it
failed at the unique constraint of the reservations or by a deadlock its locks are
gone before that (`Aborted`); if the UPDATE just matched no row they are not.
Administrators change stock between the statements (`adjust_stock`, `update_sku`,
`delete_sku`). The lock of the reservation row itself is left out: it is taken after
that of its SKU, and where the SKU is deleted the writes are the same in either order.

Two histories name what the code does not exclude: `overlapped`, the orders with two
releases or confirmations at once, and `redelivered`, the orders whose `OrderCreated`
was handled again after an answer or during another handling.

### CatalogTables, CatalogAdmin, RedisCache, Pagination

`CatalogTables` has the six tables of products, categories, brands and their
associations, SKUs and images, and the statements of the repositories with the
constraints of the migrations: unique paths and slugs, foreign keys, cascades,
soft deletion. A category is stored with its parent and with its ltree path;
`get_subtree` has the LIMIT of its query, 200 in the code, as `SUBTREE_LIMIT`.

`CatalogAdmin` has the requests: each reads on the pool statement by statement,
writes in one transaction that may be refused, and then deletes cache entries.
Two caches hold products, by id (with SKUs, images, and category and brand
names) and by slug. The consumers change what they show too: `move_inventory` is the
UPDATE of `skus` in a reservation, release or confirmation, which sets `updated_at`. A request may also be a client that pages through the list
to its end and back. Workloads group the operations that can disturb each other.

`RedisCache` is `get`, `set`, `evict` and expiry, where every command may fail
silently; `suspect` collects the keys whose entry may be out of date until it
expires, so that `CachedIsCurrent` and `CachedUserIsCurrent` say that no other is.
`Pagination` is the keyset query and the cursors computed from its extra row.

### Identity

Users, verification and reset tokens, the inbox, the issued JWTs that have not
expired and the user cache. Requests: `create_user_account` (transaction, then
e-mail), `verify_email`, `login_user`, `generate_refresh_token`,
`forgot_password`, `reset_password` (token read on the pool, then a transaction),
`change_password`, `update_user_account`, `delete_user_account`, and `get_user`,
whose caller is authenticated through the cache (`get_by_id`). Tokens, access
rights and cache entries expire by steps of their own.

### Cart, CartCheckout, OrderPlacement, RuleTree

`Cart` is the Redis hash under concurrent requests, one command per step.
`CartCheckout` adds `validate_cart` with its rule tree. `OrderPlacement` adds the
request to create an order (`ValidCreateOrderReq`, `creation_rules`) and the rules
for its payment (`authorization_rules`), each service with its own thresholds.
`RuleTree` has the constructors and the interpreters of `shared/src/rules.rs` as
recursive operators.

### CircuitBreaker

Callers check, call and record, with other callers in between; a result is
recorded in whatever status the breaker has by then. `payment/src/main.rs` does
not wrap its gateway in the breaker, so `PaymentProcessing` has none.

## 4. What TLC checks

| Run | Instance | What it shows |
|---|---|---|
| `OutboxRelay` | 2 relays (one deleting), 2 events of one aggregate, 2 attempts, 2 faults of any kind | `NoEventLost`; `OvertakenOnlyAfterRetry`; `ExactlyOnceWithoutFaults`; `ImplementsDelivery`; `EventuallySettled` |
| `EventConsumer` | 2 members, 4 messages, 1 retry, 2 faults of any kind | `EffectsOnce` up to one repetition per zombie; `PassedOnlyIfSettled`; `EventuallySettled` |
| `SagaFaults` | 1 order, 2 order instances, 2 cancellations, timeout monitor, 2 faults of any kind | `MoneyFollowsGoods`; `CancelledLeftOnlyByStaleHandler` |
| `SagaOutcome` | 2 orders competing for stock, one cancelled and monitored, no faults | `ConsistentOutcome`; `SagaCompletes` |
| `JobRunner` | 2 services with a task each, a one-off job and up to three rows of a recurring one, 2 attempts, 1 fault, 4 workloads | `OneExecution`, `NoOrphans`, `EventuallySettled`, `RecurringRepeats` |
| `PaymentProcessing` | 2 workers, 1 order, 2 capture retries, 1 consumer retry, 2 faults of any kind | `LedgerBacked`, `OneOutcome`, `FailureIsFinal`, `BooksAgree`, `ConfirmedIsSettled` |
| `CatalogInventory` | 2 orders naming 2 SKUs in opposite order, stock for one of them, 2 sessions at once for the first order, one administrator's write | `ReservedBacked`, `OneAnswer`, `OversoldOnlyByAdmin`, `SettledOnce`, `SomeTransactionMoves` |
| `CatalogAdmin` | 3 requests on a catalog of 2 categories, 2 brands and 3 products, depth limit 2, subtree limit 2; workloads for the tree and the references, for one product and its caches, and for paging | `PathsMatchParents`, `BrandFitsCategory`, `OnePrimaryImage`, `CachedIsCurrent`, `PagesMissNothing` |
| `Identity` | 2 users; 4 requests of newcomers, 3 of a session, 3 about passwords | `CachedUserIsCurrent`, `UnverifiedCanVerify`, `ResetTokenUsedOnce`, `StaleRightsEnd` |
| `Cart` | 2 requests, 4 SKUs, room for 2 items, 1 lost connection; every order request over the carts reached | `CartBound`, `CheckedOutIsPayable`, `FailuresExplained` |
| `CircuitBreaker` | 3 callers, window of 4, threshold 1/2 | `CooldownRespected`, `RecoversWhenHealthy` |
| `PaymentLockDoc` | as `PaymentProcessing`, one gateway timeout | violated: see section 7 |

`TypeOK` states the domain of each variable of a module. It belongs to no run
(the one of `OutboxRelay` is proved): add it to the `INVARIANTS` of a configuration
when a module is changed.

### Why the bounds are enough

- Two actors are enough for every race in this code: each is between one actor
  that has read or claimed something and one that changes it. The third caller
  of the breaker gives a stale result and two contradictory probes.
- Two faults let one failure hit the recovery from another (a crash during the
  retry of a failed mark, a zombie after a lost offset commit).
- Two attempts distinguish the first retry from the last. Two capture retries
  distinguish "retry again" from "exhausted".
- The relay's instance has two events of one aggregate, since only events of
  one aggregate interact. Larger batches, several aggregates and more events
  are covered by the proofs, not by TLC.
- The job instance has one fault where the others have two, and its workloads
  combine what can interact: with two faults, or every row and fault in one
  workload, TLC does not finish within seven minutes.
- Three requests of the catalog let a second writer overlap the first and a
  reader or an evictor come between them; four requests of newcomers are two
  registrations with their verification, or one account's whole life.
- Two sessions on one order and one on the other give every pair of handlers that
  can overlap on an order, with a competitor for its SKUs. The two sessions are
  interchangeable (symmetry; only safety is checked), which leaves 623,288 states.
  More sessions are covered by the proof.
- The initial category tree has two categories and the tree workload adds a third to
  it, so that with a subtree limit of 2 the LIMIT is met and exceeded.
- The thresholds of the cart instance are those of the code scaled down, in the
  same order: the cart's maximum lies below the payment's, its item limits below
  the order's.
- `MaxStock`, `AdminLimit`, `Disconnects`, `MaxCancels` bound what the outside
  does. `SumFunction(faults) < FaultBudget` is the only cap on failures.

`CHECK_DEADLOCK FALSE` is set where the system may stop: when all events are
settled, all messages handled, all sagas at rest. `Cart` and `CircuitBreaker`
never stop, and deadlock is checked there.

### Fairness and why the code justifies it

- Loops run for ever in their own tokio task (`relay_loop`, `message_loop`,
  `claim_and_execute_loop`, the recovery loops), and every await in them is
  bounded by a client timeout or answers: weak fairness of each actor's step.
- `BackoffElapses`, `next_run_at_passes`, `cooldown` and `expire` are time
  passing: weak fairness.
- A crashed process is restarted by its orchestrator and Kafka assigns a
  partition nobody owns: weak fairness of `restart` and of `rebalance` then.
- A job that stays due is claimed in the end: `claim_batch` orders by
  `next_run_at`, so a job cannot be overtaken for ever although it can be for a
  while. This is strong fairness of claiming each job.
- `RecoversWhenHealthy` assumes that callers keep coming and that not every call
  is declined by business rules (strong fairness of a success).
- The first part of `SagaCompletes` assumes the external monitor that publishes
  `PaymentTimedOut`, and is stated for the orders it watches.
- `StaleRightsEnd` rests on time alone: access tokens and cache entries expire
  (`ExpireAccess`, `ExpireEntry`). No request is assumed to go on.
- A service whose start failed or that crashed is started again (`run`), binds or
  fails (`bind`), and its recovery loop finds each stale row in the end.
- No fault is ever fair. The runs without a liveness property have none.

## 5. What is proved

Eight modules hold the theorems, each beside the model it extends. An inductive
invariant is stated at the head of its module; the lemmas have a step per action
and, under it, one per conjunct that the action can disturb.

### The outbox relay (`OutboxRelayProofs`)

For every set of events, aggregates and relays, every batch size, retry limit
and number of faults:

| Theorem | Statement |
|---|---|
| `TypeCorrect` | `Spec => []TypeOK` |
| `RelayInvariant` | `Spec => []RelayInv`, the inductive invariant |
| `AtLeastOnce` | `Spec => []NoEventLost` |
| `OrderKept` | `Spec => []OvertakenOnlyAfterRetry` |
| `StatusIsTerminal` | `Spec => TerminalStatus`: no late update revives a row |
| `ExactlyOnce` | `Spec => []ExactlyOnceWithoutFaults` |
| `RelayImplementsDelivery` | `Spec => ImplementsDelivery` |

The only assumption is `OutboxAssumption`: events are numbered by `created_at`,
the null values are no events or relays, the batch size is positive.

The argument. `NoEventLost` is not inductive: a relay that has lost its lock
still marks its event, so the proof must know that a relay about to mark has
seen its event in Kafka or in the Redis cache, and that the cache only holds
published events (`DeliveredInv`). `OvertakenOnlyAfterRetry` must be known from
the claim on, not only at delivery: once a relay holds an event, its older
siblings are delivered or have been retried (`OrderInv`). That needs, when the
claim skips a pending row, the reason to be its back-off, and a back-off to
imply a retry (`RetriedInv`), and that what a relay holds is stored (`InHand`).
Together they are `RelayInv`.

`ExactlyOnceWithoutFaults` needs an invariant of its own that holds only while no
fault has happened, `FaultFreeInv`: whoever holds an event that is not yet
marked owns its lock (`OwnsWork`), nobody else holds it (`OneHolder`), and a
pending event that is in Kafka is between publish and mark of its owner
(`InFlight`). `LastChance` says that the `retry_count` copied at the claim is
still right, which fails as soon as a lock is recovered under a live relay.

`RelayInv` and `FaultFreeInv` are proved by one lemma per conjunct, each with a
step per action. The refinement follows from the step lemma `StepRefines`.

### The event consumer (`EventConsumerProofs`)

For every log, with duplicates and messages that do not deserialize, every set
of members, retry limit and faults:

| Theorem | Statement |
|---|---|
| `ConsumerInvariant` | `Spec => []ConsumerInv`, the inductive invariant |
| `NothingPassedUnsettled` | `Spec => []PassedOnlyIfSettled` |
| `BudgetInvariant` | `Spec => []BudgetInv`, the account of an event's effects |
| `HandledOnce` | `Spec => []EffectsOnce` |

`ConsumerAssumption` is that the log is a sequence of events and garbage, and
that `NoMember` is no member. `PassedOnlyIfSettled` speaks of the committed
offset only, and a commit jumps to the message after the one in hand. So the
proof must know that who is about to commit has settled that message
(`CommitInv`), and that everything before it is behind (`WorkInv`), also for a
member that lost the partition and got it back with a message still in hand.
`WorkInv` comes from the fetches: the owner has fetched only what is passed, but
for the message in hand (`FetchInv`), which a rebalance re-establishes from the
committed offset. An event found in `processed_events` counts as settled because
its mark is committed with its effects (`MarkedInv`).

`EffectsOnce` bounds the effects of an event by the number of zombies, members that
lost the partition at work, and a zombie can repeat an event in two ways: it commits
the event itself, because it checked `processed_events` before the new owner
marked it; or it gets the partition back and commits its old offset, so that events
whose rows were cleaned up meanwhile are read again. `BudgetInv` shows that it does
only one of the two for each event: the effects committed, the members that may yet
add one without holding their place in the partition (`Spare`), and the turn of the
owner if it may still handle the event (`Due`) never add up to more than one plus the
zombies. Each step changes that account in one of five ways (`StepAccount`), none of
which exceeds it (`WithinKept`): a spare member becomes the owner's turn when it gets
the partition back or moves the offset back (`Returned`), and only a zombie adds a
spare member (`Paid`). It uses that the cleanup waits until no copy of the event is
ahead or in hand.

### The circuit breaker (`CircuitBreakerProofs`)

For every set of callers, window size and failure threshold:

| Theorem | Statement |
|---|---|
| `BreakerInvariant` | `Spec => [](TypeOK /\ OpenSince)` |
| `Cooldown` | `Spec => CooldownRespected` |

`OpenSince` says that `opened_at` of an open breaker is old only if a cooldown
has gone by since it opened: every way to open it takes the time anew, and no
late result moves the time of an open breaker. `TypeOK` includes that
`opened_at` is set exactly while the breaker is not closed. The window stays
within `WindowSize` by the lemma `PushResult`.

### The cart (`CartProofs`)

For every finite set of SKUs and requests, every limit and number of lost
connections:

| Theorem | Statement |
|---|---|
| `CartTyped` | `Spec => []TypeOK` |
| `CartIsBounded` | `Spec => []CartBound` |

`CartBound` counts the items about to be stored with those in the hash, and is
inductive for that reason. The step that matters is the one past the limit
check: the hash then has fewer than `MaxCartItems` fields, and the SKUs about to
be stored are at most one for each request (`StoringBound`). No other step adds
to the two together (`LoadGrowsOnlyByCount`).

### The ordering saga (`OrderSagaProofs`, `SagaOutcomeProofs`)

For every set of orders and SKUs, demand and stock, number of cancellations,
capture retries and order instances, and every kind and number of faults:

| Theorem | Statement |
|---|---|
| `MoneyInvariant` | `Spec => [](Typed /\ MoneyInv)`, the inductive invariant |
| `MoneyIsSafe` | `Spec => []MoneyFollowsGoods` |
| `CancelledStays` | `Spec => CancelledLeftOnlyByStaleHandler` |
| `FlowInvariant` | `Spec => []FlowInv`, the inductive invariant of the sagas that are left to themselves |
| `SagaConsistent` | `Spec => [](faults = 0 => ConsistentOutcome)` |

`SagaAssumption` gives the constants their types, and at least one instance and
one capture attempt. `MoneyFollowsGoods` relates databases that no transaction
spans, so the link is the events: whatever is in an outbox or a queue was written
before (`InTransitIsSent`), and what an event of each type says about the
database of its sender stays true for good (`EventsTellTruth`). `LedgerSound` then
says that a void discards the authorization and that nothing captured is
discarded. None of it depends on the order or the number of deliveries, which is
why the theorem has no condition on faults. `CancelledStays` needs `HandsOff`: no
handler holds an order it has read as `Cancelled`, because `transition_to` leads
nowhere from there.

`ConsistentOutcome` does depend on the bus. The run `SagaOutcome` has no faults,
and so has the theorem's condition `faults = 0`; with a fault it is false, since an
event that was given up leaves an order undecided or its stock reserved. The
invariant `Flow` says where an undisturbed order can be: eleven phases, each with
the status, the reservation, the ledger and exactly the events under way. The
phases overlap in time, because the order service hears of the reservation on
another topic than of the payment (`OrderInformed`), and the two subscribers of
`OrderCancelled` act one after the other (`Undoing`). `Whereabouts` reads the phase
off the event at the head of a queue, and each handler takes one phase to
another. Other orders compete for the stock without changing the phase
(`SameFlow`).

### The inventory (`CatalogInventoryProofs`)

For every set of orders and SKUs, list of items, quantities, stock and writes of
administrators, any number of sessions at work on an order, of crashes and of
redeliveries:

| Theorem | Statement |
|---|---|
| `InventoryInvariant` | `Spec => []Inv`, the inductive invariant |
| `ReservationsBacked` | `Spec => []ReservedBacked` |
| `OneAnswerGiven` | `Spec => []OneAnswer` |
| `NeverOversold` | `Spec => OversoldOnlyByAdmin` |
| `SettledForGood` | `Spec => SettledOnce` |

`InventoryAssumption` is that an order names at least one SKU, with positive
quantities, which the request validation of the order service demands, and no SKU
twice. An order with a repeated SKU is left out of the model: its second INSERT
violates `uq_reservation_order_sku`, so that it is never reserved.

A transaction checks a row long before it commits. The invariant says why the
check still holds then: the transaction has the lock of every live SKU that it has
dealt with and of no other (`AtWork`), so that the condition of its WHERE clause
still stands (`RowsChecked`). Hence the commits keep `reserved_quantity` and the stock
natural numbers (`Typed`): the CHECK constraints of `skus` are never what stops them.

The rest is about transactions of one order. The reservations are read without a
lock, so a release or confirmation finds them open at its commit unless another one
is or was under way (`ReadsStand`); `Noted` says that any two of them under way are on
record in `overlapped`. For two reservations of one order the locks are enough
(`OneReserves`): both take the order's items in the same sequence, so whoever holds
the lock of the first SKU keeps the other from having dealt with any, and the rows
that it is about to insert are not in the table (`Reserving`). So no order is reserved
twice, and `ReservedBacked` needs no exception for overlapping deliveries of
`OrderCreated`; only the answers do. `Awaited` is what keeps a single handling to one
answer, and `AnswersStand` ties the announcements to the reservations.
`ReservedBacked` counts: it is kept by the lemmas `UnitsOf` and `UnitsAdd` about the
units of one order among the open ones.

### The job runner (`JobRunnerProofs`)

For every set of rows, services, task slots and workloads, every retry limit and
number of faults:

| Theorem | Statement |
|---|---|
| `RunnerInvariant` | `Spec => []Inv`, the inductive invariant |
| `AloneAtWork` | `Spec => []OneExecution` |
| `RunningHasTask` | `Spec => []NoOrphans` |

`JobAssumption` gives the constants their types. A task works on its row until it
has marked it, and a recurring job is reset by a second statement after the mark.
That no other task gets the row in between needs more than the row's status: the
row is never pending while its task lives, and it has the attempts that the task
has seen (`Alone`): the UPDATE decides by the row's attempts whether to retry, the
task by its own whether to reset, and the two must agree.
`OneActiveRow` is the unique index: an insert of the seeding never meets a row that
a task is about to reset. Crashes, failed statements and restarts are allowed
throughout; only a lock recovered under a live task (`faults["slow"]`) breaks it,
and then there is no bound on the number of tasks at one row. `NoOrphans` is the
converse and holds while nothing cuts a task off (`Attended`).

## 6. What is model-checked only

- Liveness: TLAPS does not prove properties under fairness, nor `ENABLED`
  (`SomeTransactionMoves`).
- `RuleTree` and what extends it (`CartCheckout`, `OrderPlacement`): its operators
  are recursive on trees, beyond what the provers can use by induction.
- `PaymentProcessing`: its invariants are about two handlers of one order, step by
  step, and are left to the exhaustive run.
- `CatalogAdmin` and `Identity`: no inductive invariant has been worked out for their
  tables and caches yet.
- The bounds of `TypeOK` in the saga, the inventory and the job runner (how long a
  queue or how large a counter gets on the instance); the theorems prove the types
  that do not depend on the instance.

## 7. What the models say about the code

Three statements of the repository do not hold:

- `EventConsumer`. `shared/src/events/consumer.rs:260` says that an uncommitted
  message "will be redelivered on next poll". The consumer does not seek back:
  it goes on to the next message, whose commit moves the group past the first.
  A message left uncommitted after a database error or a failed dead-letter
  write (the same branch) is neither processed nor dead-lettered nor delivered
  again, unless the partition changes hands before the next commit. This is why
  `PassedOnlyIfSettled` excepts `unacked`: without the exception TLC shows the
  loss after a single database error.
- `PaymentLockDoc`. `docs/ordering-saga-flows.md:280` says the payment lock
  "Prevents concurrent authorize/capture/void for the same order". The handler
  releases the lock before the consumer commits the transaction, so the next
  holder decides on a ledger without the first one's rows: one authorization can
  be captured and voided. `OneOutcome` shows that this needs such an overlap.
- `CatalogAdmin`. `docs/adr/009-ltree-for-category-hierarchy.md:22` says that the
  subtree query returns "all descendants". `get_subtree` returns the first 200 in the
  order of their paths and there is no further page
  (`catalog/src/categories/repository.rs:79`). `PathsMatchParents` says what it does
  find: all of a subtree up to the limit, and of a larger one as many as the limit,
  each with its parent. The LIMIT of 50 on the ancestors is beyond any depth.

Behaviour that the properties make explicit, and that a reader of the code may
not expect:

- Outbox order is per aggregate only until a publish fails: during the back-off
  of an event a younger one of the aggregate is published.
- Escalation is decided from the `retry_count` read at the claim. After a lock is
  recovered under a live relay the row may fail without escalation; in
  `delete_on_publish` mode an escalated row can be one that was published.
- A consumer that lost its partition at work commits its effects besides those
  of the new owner: `is_event_processed` and `mark_event_processed` do not
  exclude each other.
- An order handler that read the order before a cancellation writes its status
  after it: the order leaves `cancelled`.
- `OrderCancelled` handled by payment before `InventoryReserved` finds nothing to
  void; the authorization that follows is kept. `ConsistentOutcome` is therefore
  stated for sagas nobody cancelled or timed out.
- `PaymentAuthorized` handled by order before `InventoryReserved` is retried and
  given up; only the timeout monitor decides such an order.
- A job whose lock is recovered under a live handler runs twice, or more often: the
  second task may mark a retry on attempts that the first has reset. The late
  mark of the first run may return a dead-lettered job to pending. Recovery does
  not look at `attempts`, so a job that always times out is claimed again and
  again.
- A recurring job is marked completed and reset by two statements. If the second
  fails the job does not run again until a runner starts and seeds it.
- The wake-up of the last finishing task can fall between the load and the wait
  of `drain`; the shutdown then takes the whole drain timeout.
- When the gateway approves another amount, the `PaymentFailed` row is rolled
  back together with the handler's error: the announcement is not sent. An order
  whose amount fails the authorization rules goes to the dead-letter topic
  without an announcement.
- Captures and voids are booked in USD: their currency is read from the metadata
  of the authorization, which nothing writes (`payment/src/payments/service.rs:474`).
- After a void the balance view shows the holding account one amount short,
  since the view leaves out the discarded authorization that the void reverses
  (`BooksAgree`).
- Concurrent additions can overfill a cart by one item less than there are
  requests (`CartBound`); checkout then refuses it. A connection lost between
  HSET and EXPIRE leaves a cart that never expires.
- An order that is created without a checkout and is above `MAX_PAYMENT_AMOUNT`
  is accepted and can never be authorized (`CheckedOutIsPayable`). The total of a
  cart ignores the currencies of its items, and a currency that is well formed
  but not supported passes the cart and is refused by the order service.

- `.plan/plan-3-order-payment.md:462` plans three test calls in the half-open state.
  The breaker has no such number: from the end of the cooldown until the first result
  is recorded every caller passes, and that one result closes or reopens it
  (`CircuitBreaker` models this; `CooldownRespected` says that calls pass an open
  breaker only after a cooldown).

Service lifecycle:

- `.plan/persistent-jobs/prd.md:29` wants the runner to stop "so that in-flight
  jobs complete before the process exits". The token is cancelled only once a
  server has returned, and nothing awaits the drain: what is in flight then is
  cut off and left to stale-lock recovery.
- The background tasks are spawned before the port is bound. When the bind fails
  they have already claimed jobs, which wait for recovery as well.

Inventory:

- Two members of the consumer group that handle one `OrderCancelled` at once, or a
  release and a confirmation, both decrement `reserved_quantity` for one reservation
  (`ReservedBacked`, except for SKUs of an order in `overlapped`). If another order has
  units of the SKU reserved the second decrement takes from those; otherwise
  `chk_reserved_quantity` aborts it. `SettledOnce` says what becomes of the status.
- Two that handle one `OrderCreated` at once cannot both reserve, but the second
  reports `InventoryReservationFailed` for an order that is reserved. The same two
  answers come in the other order when a redelivery succeeds after a failure
  (`OneAnswer`, except for orders in `redelivered`).

Catalog:

- Two overlapping updates that fill a NULL category and a NULL brand store a pair
  nobody validated, and disassociating a brand from a category ignores the
  products that have both (`BrandFitsCategory`).
- Two primary images added at the same time both stay primary
  (`OnePrimaryImage`); lists show the first image by `sort_order`, not the primary.
- A category or brand whose only products are soft-deleted has none for
  `has_products`, yet the foreign key refuses its deletion.
- A cached product outlives a change until its time to live when a category or
  brand is renamed, when stock is reserved, released or confirmed, when an
  overlapping update has changed the slug, when an image is deleted under the path
  of another product, and when a reader stores what it read before the write
  (`CachedIsCurrent`). A reservation or release shows only in `updated_at`.
- A page of limit 0 is empty and has no next cursor (`PagesMissNothing`).

Accounts:

- An account whose verification e-mail was not sent, or whose token ran out, is
  stranded: its address stays taken and nothing sends another token
  (`UnverifiedCanVerify`).
- Two overlapping resets with one token both set a password
  (`ResetTokenUsedOnce`).
- A changed e-mail address stays verified. `update_user_password` also writes the
  row of a deleted user.
- After a role change or a deletion the old rights last until the cache entry and
  the access token expire, if an eviction is lost or overtaken (`StaleRightsEnd`).

## 8. What is not modelled

- Reads that change nothing and feed nothing, HTTP routing, formats of request
  fields, serialisation, logging, metrics, tracing.
- The pool versions of authorize, capture and void
  (`payment/src/payments/service.rs:21-144`) and `capture_rules`, which only tests
  call. `confirm_for_order` has no caller outside tests either; it is modelled,
  since a caller would run beside the consumers.
- An order that names one SKU twice: nothing refuses the request, and the catalog's
  unique constraint makes its reservation fail.
- Currencies and amounts in the ledger: an order's money is one unit there.
- `acquire_with_retry` of the lock, which no service calls.
- Cron arithmetic, `LISTEN/NOTIFY` wake-ups (polling covers a lost one).
- Cryptography: password hashes and JWT signatures are taken to work, and the
  role tests of single routes are left out.
- gRPC, health probes and the e-mail transport: no state of their own that other
  parts depend on. Whether an e-mail arrives is a choice of `Identity`.
- bff-gateway, moderation, notification, review and shipping are empty.

## 9. Plan

1. A ledger with currencies.
2. Proofs: `PaymentProcessing` (`LedgerBacked`, `FailureIsFinal`), `RedisCache` with
   `CachedUserIsCurrent`.

## 10. Running

    tlc -config OutboxRelay.cfg MCOutboxRelay
    tlapm OutboxRelayProofs.tla

Each run is named after its configuration; `PROJECT.json` gives the module. The
instances take from seconds to three minutes. The proofs of the relay, the consumer,
the saga, the inventory and the job runner take three to ten minutes each, the others
less than two. `tlapm --toolbox <first> <last>` checks a part of a module.
