# Verification of the checkout lab

The repository is a small shop that lives to compare ways of making one
checkout span several services: two-phase commit, TCC, an orchestrated and a
choreographed saga, and a transactional outbox. This directory holds the TLA+
modules that model it, the TLC runs that check them on small instances, and the
theorems TLAPS proves for instances of every size.

## The system

| Component | State it keeps | Operations | Talks to |
|---|---|---|---|
| order-service, checkout front (`cmd/order-service/main.go:166-254`) | `orders`, `order_items`, `order_idempotency` | validate, look the idempotency key up, create the order, choose the mode, answer a replay; `GET /orders/{id}` | its own PostgreSQL |
| order-service, 2PC coordinator (`:362-426`, `:447-574`) | `orders.status`, `twopc_tx_log` | prepare, commit, abort loops; status updates | participants, HTTP with 2.5 s timeout |
| order-service, TCC and saga (`:258-317`, `:576-652`) | `orders.status` | try, confirm, cancel loops | participants, outbox |
| inventory, payment, shipping services | `twopc_prepared_tx`; `inventory_reservations`, `payment_operations` or `shipments`; `tcc_operations` | `/2pc/{prepare,commit,abort}`, `/tcc/{try,confirm,cancel}` | their own PostgreSQL |
| outbox relay (`:654-697`, `pkg/outbox`) | `outbox` | insert, fetch pending, publish, mark sent | Kafka |
| notification-service | `inbox`, `notifications`, its Kafka offset | read, save | Kafka |
| 2PC library (`pkg/tx/twopc/coordinator/engine.go`) | a log behind an interface | `Execute` | called by nobody yet |
| bench-runner | counters and latencies of a worker pool | transactions, the wait for a final status, percentiles | order-service, or the participants |
| cli, contracts, logging, metrics, scripts | none of interest | | |

What is hard about it: the coordinator is the goroutine that serves one HTTP
request, with a context that may die at any moment; its calls may be lost, or
handled after their caller has given up; a handler's two UPDATEs are separate
statements; almost every error of a write is dropped; and nothing is recovered
after a crash, although a log is written.

What makes each part correct, as the properties of this project put it:

- 2PC: nobody commits before everybody voted; order, log and participants agree;
  a settled order stays as it is; aborted work is released; requests end, orders
  settle (`TwoPC`).
- TCC and saga: a confirmed or announced order is backed by finished work; the
  event and the order agree; compensation runs backwards over every step but the
  one that failed, and late calls do not undo it; TCC makes the same promise as
  2PC (`TccSaga`).
- Checkout front: a key buys one order, whoever fails; all who use it are told the
  same one; everybody is served, however requests race for keys and ids, and every
  request ends, whatever fails while it waits for others
  (`CheckoutFront`).
- Outbox and notification: a stored event is published and notified, stage by
  stage; replicas and retries repeat it only so often; an order that is settled
  has its event stored, and a request that ends settles its order but for a fault (`OutboxRelay`,
  `Notification`).
- Library: log and participants agree, aborted transactions hold nothing (`Engine`).
- Bench-runner: a report that comes whatever happens to the servers, accounts for
  every transaction once, and whose percentiles and extremes are those of the sample
  (`BenchRunner`, `Percentile`).

## Modules

- `AtomicCheckout` is the abstract specification: what a checkout across services
  promises, whatever the protocol. `work[c][p]` is what participant `p` holds for
  checkout `c`, `verdict[c]` what the order says. It is one-sided: a confirmed
  order is backed by finished work that nothing touches again, while work of an
  unconfirmed order may be held, finished and undone as requests in flight arrive.
- `Calls` holds what every program that drives services over HTTP shares: the
  goroutine's position (`pc`, `at`), its context (`ctx`), the calls (`rpc[c][a][p]`,
  how far the handler of a call has come) and what a statement, a transaction or a
  call may come to under the faults of a behaviour. `Request` extends it with the
  order of a checkout (`order`).
- `Participant` extends `Calls` with the `/2pc` endpoints of the three participant services.
  The programs differ in table names only, so they are one module with a
  participant number. `prepared` is `twopc_prepared_tx.status`, `business` the
  status of the rows of the business table, `holder` their `order_id`, each by
  txid.
- `TwoPC` extends `Participant` and `Request` with the coordinator and its log (`txlog`).
- `Engine` is the other coordinator of the repository, `Engine.Execute` of the library,
  over the same `Participant`.
- `TccSaga` extends `Request` with the modes `tcc` and `saga-orch`: the loops of
  `runTCC` and `runSagaOrch`, their compensations, the `/tcc` endpoints (`op`, the
  status in `tcc_operations`) and the `OrderConfirmed` row of the outbox (`event`).
- `EventDelivery` is the abstract specification of the outbox: an event is stored,
  then published, then notified; no stage is skipped or taken back.
- `OutboxRelay` models the requests of the modes `outbox` and `saga-chor`, the
  `outbox` table (`row`, `rowId`), the relay goroutine of every replica (`batch`,
  `marking`) and the topic.
- `Notification` adds the consumer (`committed`, `position`, `handling`) and its two
  tables (`inbox`, `notified`), and composes both.
- `CheckoutFront` models `POST /checkout` around the mode, for requests that may share
  keys and ids: what a request carries (`asked`), the rows a committed `createOrder`
  leaves (`created`), `orders.status` (`status`) and what the client is told
  (`answer`). Uncommitted rows are the open transactions, those at `key` and `commit`.
  What a mode does is left to its own module; here it comes to one of its outcomes.
- `BenchRunner` extends it with the benchmark runner that drives it: the channel
  (`tasks`), the workers (`step`, `job`, `op`), the metrics (`m`) and the report.
  `Percentile` has the arithmetic of the percentiles.
- `MCTwoPC`, `MCTccSaga`, `MCNotification`, `MCCheckoutFront`, `MCEngine` and
  `MCBenchRunner` give the constants their values for TLC.
- `TwoPCProofs`, `TccSagaProofs`, `CheckoutFrontProofs`, `NotificationProofs`, `EngineProofs`,
  `BenchRunnerProofs` and `PercentileProofs` hold the theorems about the modules they are
  named after (`NotificationProofs` those about `OutboxRelay` too), `ParticipantProofs` the
  lemmas that `TwoPCProofs` and `EngineProofs` share.

| Action | Code |
|---|---|
| `CreateOrder` | `createOrder`, one transaction: order, items and `STARTED` |
| `MarkPreparing`, `MarkCommitting`, `MarkAborting` | `updateTxStatus` and entering the loop that follows it |
| `PostJSON`, `CallSucceeds`, `PrepareOrCommitFails`, `AbortFails` | one round of a loop: `postJSON` sends, and returns nil or an error |
| `ConfirmOrder` / `CloseCommitted`, `RejectOrder` / `CloseAborted` | `updateOrderStatus`, then `updateTxStatus` and the answer |
| `ExpireCtx`, `Crash` | the end of the request's context; the death of order-service |
| `HandlePrepare` | a participant's prepare transaction, answered 200 or 409 |
| `UpdatePrepared`, `UpdateBusiness` | the two UPDATEs of `update2PCStatus`, one step each |
| `LoseCall` | a call that is lost, or whose handler stops because its caller hung up |

In `TccSaga`:

| Action | Code |
|---|---|
| `CreateOrder` | `createOrder`, without a log entry |
| `PostJSON`, `CallSucceeds` | one round of any of the loops |
| `TryFails` | a try fails: `compensateTCC` or `compensateSaga` over the steps completed before it |
| `ConfirmFails` | a confirm fails: all steps are compensated, the confirmed ones included |
| `CancelFails` | the error of a cancel is dropped |
| `StartConfirm` | the first loop of `runTCC` is over |
| `Enqueue`, `ConfirmOrder` | `enqueueOrderEvent`, then `updateOrderStatus` and the answer |
| `RejectOrder` | `updateOrderStatus` after the compensation, and the answer |
| `Upsert` | `handleTCC`: the status of the call overwrites the row's |
| `LoseCall`, `ExpireCtx`, `Crash` | as in `TwoPC` |

In `OutboxRelay` and `Notification`:

| Action | Code |
|---|---|
| `CreateOrder`, `CreateOrderFails` | `createOrder` |
| `Insert`, `InsertDone`, `InsertFails`, `InsertLost` | `outbox.Insert`: the id is given, the row becomes visible; the caller sees an error, the row never appears |
| `UpdateOrder` | `updateOrderStatus` and the answer |
| `Fetch` | a tick: `FetchPending`, the rows not sent, by id, `Batch` at most |
| `Publish`, `PublishTwice`, `PublishFails`, `PublishRefused` | `WriteMessages`: one copy, a copy and a retry, an error with or without a copy, the refusal of a record that is too large |
| `MarkSent` | the UPDATE after a publication, its error dropped |
| `Crash` | a replica dies with its requests and its batch, and is started again |
| `ReadMessage`, `ReadMessageFails` | the next record with its offset committed, or skipped because that failed |
| `SaveInbox`, `SaveNotification`, `SaveFails` | the two inserts of `saveNotification`, or an error in one of them |
| `Restart` | notification-service dies and goes on at the committed offset |

In `CheckoutFront`:

| Action | Code |
|---|---|
| `Arrive`, `Refuse` | decoding and validation; the order id, the key, the context |
| `Lookup` | `getOrderByIdempotency`, whose error counts as a miss |
| `InsertOrder`, `InsertKey`, `Commit` | the statements of `createOrder`; an insert waits for an uncommitted row with its primary key |
| `Relook` | the loser of a race on the key (`errIdempotencyRace`) looks again |
| `Settle`, `RunFails` | the mode has run: status update and answer, or an event that could not be enqueued |
| `ExpireCtx`, `Crash` | the end of a request's context; the death of its replica, which rolls its transaction back |

In `Engine`:

| Action | Code |
|---|---|
| `Create`, `MarkPreparing`, `MarkCommitting`, `MarkCommitted`, `MarkAborted` | `Log.Create` and `Log.SetStatus` |
| `CallParticipant`, `CallSucceeds` | one round of the loop over prepare or commit |
| `PrepareFails`, `AbortReturns` | an error or a vote against: the prepared participants are aborted, last first, their errors dropped |
| `CommitFails` | the error of a commit is returned at once |

In `BenchRunner`:

| Action | Code |
|---|---|
| `Take`, `Exit` | a worker takes from the channel, or finds it closed and empty |
| `Send`, `Receive`, `TransportFails` | `doCheckout` and `recordStatus` |
| `CallDirect` | one operation of the scenarios `2pc`, `tcc` and `all` |
| `AwaitReaches`, `AwaitTimesOut` | `waitForFinalStatus` and `recordFinal` |
| `Record` | `recordTransaction` |
| `Report` | `wg.Wait`, then the percentiles and the result |

Choices of the models:

- A handler runs on after its caller gave up, so a call the coordinator has
  stopped waiting for may still take effect, at any later time.
- A commit acknowledgement may be lost: the rows are there and the caller sees an
  error (`"unacked"`).
- An UPDATE of a row that does not exist changes nothing and is answered 200.
- `N` is the number of participants with a configured base URL. `MOCK_2PC=true`,
  the default, skips all calls: it behaves as `N = 0`.
- All checkouts buy the same product, the worst case for
  `UNIQUE (txid, product_id)`, and a txid has one business row per participant.
  The rows of several products are written by one statement or one transaction.
- In mode `"other"` (a `TX_MODE` string the dispatch does not know) the txid is
  the empty string, shared by all checkouts, and no log row is created.
- The two modes of `TccSaga` are one module: a behaviour chooses its `mode` at the
  start. They differ in the confirm loop and in the names of the steps, which
  nothing reads. `MOCK_2PC` has no say in them.
- `/tcc` handlers answer 200 whatever happens, so a call fails only when it is
  lost or late, or when the context has ended.
- In the outbox pipeline an order has one event, so one name stands for both, and
  Kafka is one partition: the code asks for order only within a key. `KAFKA_BROKERS`
  is set; without it order-service starts no relay. There is one consumer, as
  deployed, and an offset that cannot be committed makes the reader of kafka-go
  go on with the next record.
- A record that is too large for Kafka is refused every time; which orders have one is
  chosen at the start.
- In `CheckoutFront` the mode `"tcc"` stands for `saga-orch` too, which answers alike,
  and `"twopc"` for the modes the dispatch does not know. A product listed twice
  violates the primary key of `order_items` and fails the transaction like any other
  statement. A statement that waits for a lock ends early only when its context does.
- The library builds on interfaces that nobody implements, and its packages `common`
  and `protocol` import each other, so that it does not build as it stands. `Engine`
  takes a client to call the participant's endpoint with a 409 for a vote against, and
  the log to be a table like `twopc_tx_log`. Its transactions have a txid of their own
  (`LibraryAssumption`).
- In `BenchRunner` a transaction has an order id and a key of its own, as the fresh
  UUIDs are. The direct scenarios are a sequence of `DirectOps` calls, which fail as
  the handlers and the network let them. Latencies are in nanoseconds, as the extremes
  are kept; the samples are in whole milliseconds, and zero of those is common. No
  exchange takes zero nanoseconds, which the code uses for "none yet". The body of an
  answer may be cut when connections break (`Body`): the error is dropped, and without
  an order id there is no wait. Averages and the percentiles of the waits are left out.
  The header `Idempotency-Key` lets `net/http` send a POST again when a connection it
  reuses turns out to be broken; the model sends it once, and what a second one with the
  same key comes to is the matter of `CheckoutFront`.
- Ranks are exact: for the four percentiles in use and up to a million latencies the
  ceiling of the floating product is that of the exact one.
- Left out: the answer bodies, metrics and logs; `order_items`; `expires_at`,
  which no code reads; `inventory_stock`, which no code reads or writes.

### Faults

Each behaviour has a set `faults`, chosen at the start from `FaultSets`:

| Fault | Meaning |
|---|---|
| `"tx"` | a transaction may be rolled back |
| `"db"` | any statement may fail, an acknowledgement may be lost |
| `"call"` | an HTTP call may be lost or answered after its timeout |
| `"ctx"` | a request context may be cancelled |
| `"crash"` | order-service may die during a checkout |

Keeping the faults in the state lets one run check properties under all of them
and lets a property say which ones it excludes. `"tx"` is a vote of "no", the
ordinary way a checkout fails.

`OutboxRelay` has faults of its own: `"db"` (a statement on the order database fails
or its acknowledgement is lost), `"kafka"` (a publication fails, or is repeated by the
writer), `"crash"` (a replica of order-service), `"consumer"` (notification-service
dies, its statement or its commit fails). There the system runs for ever, so the
constant `MaxFaults` bounds how many strike; what is lost for good needs only one.

## Runs

The module of a run is `MC` and the first part of its name; that of the outbox is
`MCNotification`, that of `Bench` `MCBenchRunner`.

| Configuration | Instance | Result |
|---|---|---|
| `TwoPC.cfg` | 1 checkout, 2 participants, the maximal fault sets, fairness | passes, 2.5 minutes |
| `TwoPC_unsettled.cfg` | contexts may expire | `Settles` is violated |
| `TwoPC_late_prepare.cfg` | calls may be lost or late | `Released` is violated |
| `TwoPC_shared_txid.cfg` | unknown mode, 2 checkouts, 1 participant, no fault | `ConfirmedOrderIsHeld` is violated |
| `TccSaga.cfg` | both modes, 1 checkout, 3 participants, the maximal fault sets, fairness | passes, 0.14 million states |
| `TccSaga_uncancelled_try.cfg` | TCC, 2 participants, calls may be lost or late | `EveryTryIsCancelled` is violated |
| `Outbox.cfg` | 2 orders, 2 replicas, batches of 2, every single fault, one event perhaps too large, fairness | passes, 2.5 minutes |
| `Outbox_lost_event.cfg` | 1 order, 1 replica, the consumer may fail | `EventsArrive` is violated |
| `CheckoutFront.cfg` | 3 requests, 1 key or none, 2 order ids, three fault sets, fairness | passes, 0.26 million states |
| `CheckoutFront_repeat.cfg` | no fault | `RepeatsAreServed` is violated |
| `Engine.cfg` | 1 transaction, 3 participants, every set of faults | passes, 0.14 million states |
| `Bench.cfg` | 2 workers, 2 transactions, every mode and scenario, four fault sets, latencies of 0.4 and 1.3 ms, fairness | passes, 0.32 million states |

In `TwoPC`, properties that hold whatever goes wrong: `CommitNeedsEveryVote`,
`LogAgrees`, `OutcomeIsFinal`. Properties that need some fault to stay away, with the fault in
the property: `ConfirmedIsBacked`, `DecisionBeforeCommit` (no `"db"`),
`ReleasedOnAbort` (no `"db"`, no `"call"`), `CommitIsFinalIfCallsArrive` (no
`"call"`), `AbortReachesPrepared` (no `"ctx"`), `OrderSettles` (at most `"tx"`
and `"call"`), `ReservationsResolve` (at most `"tx"`), `KeepsPromise` (no `"db"`).
In `TccSaga`, whatever goes wrong: `EventAgrees`, `CancelsInReverse`,
`OutcomeIsFinal`; without `"db"`: `ConfirmedIsBacked`, `ConfirmedIsAnnounced`,
`CancelSticks`, `TccKeepsPromise`; without `"ctx"`: `RejectedIsCancelled`; with at
most `"tx"` and `"call"`: `OrderSettles`. In the outbox pipeline: `SentIsPublished`,
`PublishedAtMost`, `SettledWithEvent`, `DeliversInOrder` and `EveryEventPublished`
under every fault; `EveryEventNotified` without `"consumer"`. `PublishedAtMost` and
`SettledWithEvent` count: what is amiss is at most one for each fault that struck.

In `CheckoutFront`, whatever goes wrong: `OneRunPerKey`, `AnswersAgree` and, of `Served`,
that every request comes to an end; without faults, that this end is an answer with an order
that is settled. In `Engine`: `KeepsPromise` without `"db"`, `AbortedReleases` without `"db"`,
`"call"` and `"ctx"`. In `BenchRunner`, whatever goes wrong: `ReportAddsUp`
(a success is waited for exactly once without `"call"` and `"crash"`, at most once with
them), `NearestRank`, `ExtremesAgree`, `Finishes`; without `"db"` and `"ctx"`:
`FinalizedIsSettled`.

When a fault that a property excludes strikes, this is what happens:

- a commit call is lost after another participant has committed: everybody is aborted, the
  committed one included, as `docs/transaction-methods.md:20` describes
  (`CommitIsFinalIfCallsArrive`);
- a statement fails at a participant: the error is dropped, and a confirmed order may lack a
  row or have one that is not committed (`ConfirmedIsBacked`);
- a status update fails: the client is told CONFIRMED and the order stays PROCESSING; in mode
  `outbox` its event is stored and announced (`SettledWithEvent` counts it), and the
  benchmark runner, which believes the answer, counts it as final (`FinalizedIsSettled`);
- an answer of `prepare` is lost, or its row committed without acknowledgement: the library
  aborts only those whose vote it has, and the row stays PREPARED, against the comment at
  `pkg/tx/twopc/coordinator/engine.go:40` (`AbortedReleases`);
- the body of a 200 is cut: the runner drops the error (`bench-runner/main.go:463`) and
  counts a success for whose order it does not wait (`ReportAddsUp`);
- a context expires, a handler runs late or the consumer fails: see the disagreements below.

Why the bounds are enough. With two participants one can have voted, committed or
been aborted when the other has not, and a loop has a first, a middle and a last
position. In mode `"twopc"` checkouts share no row, so one is enough; the theorems
hold for every number of both. The shared txid needs two checkouts and one
participant. Compensation in reverse order needs a third participant: one fails
and two have to be cancelled. Nothing in the models is unbounded: a coordinator
makes each call once.

In the outbox pipeline two orders are what it takes for rows to become visible in
another order than that of their ids and for a batch to have a rest that is left
over, two replicas for competing relays, and one order on each for a crash to strike
one and spare the other. With `MaxFaults = 1` each fault meets every interleaving;
the three fault sets together have all faults.

In `CheckoutFront` two requests race for a key while a third holds or takes the order id
of one of them; a second key would only make requests more independent, and the theorems
hold for any number of all three. The mode does not matter before it runs, so one is
enough there; `Bench.cfg` has all of them. The engine needs three participants for one to
fail, and two to be aborted in order. Two workers and two transactions record
concurrently, share a worker, and give samples of none, one and two latencies, of zero
milliseconds and of one; the ranks of longer samples are the matter of the theorems of
`PercentileProofs`.

`TwoPC.cfg` and `TccSaga.cfg` give the fault sets that include all the others a property allows
(`MaximalFaults`): a behaviour under fewer faults is one under more in which the
rest did not happen to strike. Deadlock is checked: `Terminated` stutters only
when all requests are over and no handler is running.

### Fairness

`FairSpec` of `TwoPC` and `TccSaga` has weak fairness on the goroutine of every checkout
and on the goroutines of its handlers; the latter are one condition, since a checkout
makes finitely many calls and all of them come to an end. Go schedules them, and no wait
of the coordinator is unbounded: its HTTP client has a timeout, its database calls a
context. Nothing forces a context to expire, a process to die or a call to be lost. A
call that is lost is answered by the timeout, which is part of the goroutine
(`CallError`).

`FairSpec` of `Notification` has weak fairness on each request with its statements,
on each relay and on the consumer: goroutines are scheduled, tickers tick, the
reader polls. It has none on faults, which are finitely many.

`FrontSpec` has it on the goroutine of every request that has arrived, `Spec` of
`BenchRunner` also on every worker and on the main goroutine. PostgreSQL wakes who waits
for a row as soon as its transaction ends, and every HTTP call of the runner has a
deadline.

### Where the code and its documents disagree

1. `TwoPC_unsettled`: the final statuses are written with the request context, so
   they are not written when it has expired (`order-service/main.go:208`).
   `docs/transaction-methods.md:21` says the final status is updated in `orders`.
2. `TwoPC_late_prepare`: abort updates rows, and a prepare handled later inserts
   them (`inventory-service/main.go:173`). `deploy/sql/inventory.sql:28` says
   reservations are released on ABORT.
3. `TwoPC_shared_txid`: `docs/arch.md:225` spells the saga modes `saga_orch` and
   `saga_chor`, the dispatch `saga-orch` and `saga-chor`; the documented spelling
   runs the two-phase commit with an empty txid.
4. `TccSaga_uncancelled_try`: the step whose try returned an error is not cancelled
   (`order-service/main.go:604`), although the try may have taken effect and only
   its answer was late. `docs/transaction-methods.md:37` and `docs/arch.md:289` say
   that the steps that have passed their try are cancelled.
5. `Outbox_lost_event`: the consumer commits the offset before it saves the event
   (`notification-service/main.go:96`), and skips an event whose save failed.
   `docs/transaction-methods.md:73` calls the outbox reliable delivery.
6. `CheckoutFront_repeat`: the order is inserted before the key
   (`order-service/main.go:458`), so a request repeated with its key and its order id,
   while the first is in flight, violates the primary key of `orders` and is answered
   500. `docs/bench-methodology.md:97` says a repeated key returns the same order.

## Proofs

`TwoPCProofs` proves, for every set of checkouts, every number of participants and
every family of fault sets (the assumptions are `RequestAssumption` and
`ParticipantAssumption`, which give the constants their types):

- in every mode: `TypeCorrect`, `CommitNeedsEveryVoteHolds`, `LogAgreesHolds`;
- in mode `"twopc"`: `OutcomeIsFinalHolds`, `ConfirmedIsBackedHolds`,
  `DecisionBeforeCommitHolds`, `ReleasedOnAbortHolds`,
  `AbortReachesPreparedHolds`, `CommitIsFinalHolds`;
- in mode `"twopc"`: `KeepsPromiseHolds`, that the two-phase commit implements
  `AtomicCheckout` when statements do not fail.

The argument has two inductive invariants.

`Inv` needs no assumption on faults or mode. `CallsFollow` ties the state of every
call to the place of the coordinator's goroutine: no commit call before every
prepare was answered 200, no abort call before the goroutine gave up. That is what
makes late handlers harmless, since a handler changes a row only for a call that
was made. `StatusFollows` ties order and log to the same place, and `RowsFollow`
the rows to the calls. None of the three properties is inductive without it:
that a row is COMMITTED says nothing by itself about what the other participants
answered.

`StrongInv` adds, for mode `"twopc"` where each checkout has rows of its own
(`RowsOfOthers`), what holds as long as one fault stays away: `StatementsSucceed`
(no `"db"`), `CallsArrive` (no `"call"`), `ContextLives` (no `"ctx"`).

Each step is classified once (`NextCases`): a call moves, the coordinator writes,
or the coordinator moves. The effect lemmas (`PrepareEffect`, ...) restate a
handler's step position by position, so that the invariant proofs never see an
EXCEPT. Both invariants were model-checked before they were proved.

`KeepsPromiseHolds` rests on both invariants: `WorkMoves` and `VerdictMoves` say
which abstract step a change of one row or one order is, the invariants that it is
allowed (a row only becomes COMMITTED when all rows are there, an order is only
confirmed when all are COMMITTED, and nothing moves after that), and every step
changes one row, one order, or nothing the abstraction sees.

`TccSagaProofs` proves every safety property of `TccSaga`, in both modes and for every
set of faults: `TypeCorrect`, `ConfirmedIsBackedHolds`, `EventAgreesHolds`,
`ConfirmedIsAnnouncedHolds`, `CancelsInReverseHolds`, `RejectedIsCancelledHolds`,
`CancelSticksHolds`, `OutcomeIsFinalHolds` and `TccKeepsPromiseHolds`, that mode tcc
implements `AtomicCheckout` when statements do not fail. Its assumptions are
`RequestAssumption` and `TccSagaAssumption`. One inductive invariant carries them all,
`Inv`, a conjunction over the checkouts. `PlaceTellsCalls` says what the loops know of
the calls, among it that the compensation at place k has cancelled all that is later
(`CancelledDownTo`). `InOrder` and `CallsAfterTry` say of a call that is still open what
the goroutine knew when it sent it, and that is what makes a late handler harmless:
a try that is handled late belongs to no cancelled step, a confirm that is handled late
is the last one sent. `RowsTellCalls` and `CallsTellRows` carry this over to the rows.
A step changes one checkout (`OthersStay`), and the effect lemmas reduce it to one of
five kinds: a call is sent, lost or handled, the goroutine walks on, or it writes.

`CheckoutFrontProofs` proves `OneRunPerKeyHolds` and `AnswersAgreeHolds`, for any number
of requests, keys, ids, modes and faults (`FrontAssumption` gives the constants their
types, and at least one order id). That no two committed requests share a key is not
inductive: `OrdersExclude` and `KeysExclude` add that an open transaction which holds a
row shares its primary key with no committed row and with no other open one, which is what
the waiting for locks buys. `AnswersBacked` adds whose order a client was told.
`ServeMoves` and `NextMoves` classify each step once (a request arrives, passes on,
answers, takes a row, commits), and `InvMoves` treats these moves.

`PercentileProofs` proves `RankIsLeast` and `PercentileIsNearestRank`: for a sorted sample
of any size, the percentile is the least of its values that p percent of the sample do
not exceed.

`NotificationProofs` proves every safety property of the outbox pipeline, `TypeCorrect`,
`SentIsPublishedHolds`, `PublishedAtMostHolds`, `SettledWithEventHolds` and
`DeliversInOrderHolds`, for every number of replicas, orders and faults and every size of a
batch. It has three inductive invariants. `Inv` ties the
place of a request to its row (`PlaceTellsRow`), ids to one row each (`IdsDiffer`), the
topic to rows that were stored (`TopicTellsRow`), what a relay is about to mark to what it
has published (`RelayHolds`), and a notification to a record of the topic
(`NotifiedIsPublished`). With it every step is a step of `EventDelivery` or a stutter.
`CountInv` is for `PublishedAtMost`, which is not inductive: until a row is marked as sent,
each copy of its event belongs to a replica that is about to mark it (`Marking`) or to a
fault that has struck (`Struck`); afterwards nobody fetches it, and the copies to come are
those of the replicas that still hold it in a batch (`Waiting`). `UnsettledInv` charges each
order that ends unsettled to a fault of its own, which is the second half of `SettledWithEvent`.

`EngineProofs` proves `AbortedReleasesHolds` and `KeepsPromiseHolds` for the library, with
any number of transactions and participants, under `ParticipantAssumption` and
`LibraryAssumption`. `CallsFollow` and `LogFollows` tie calls and log to the place of
`Execute`, as in `TwoPCProofs`, and `RowsFollow` the rows to the calls. The engine aborts
only those that voted for the transaction, which is enough as long as a participant that
did not has nothing: `QuietAborts` says so when statements do not fail, calls arrive and
the context lives. `KeepsPromise` needs only the first of these.

`BenchRunnerProofs` proves `BenchTypeCorrect`, `ReportAddsUpHolds`, `NearestRankHolds`,
`ExtremesAgreeHolds` and `FinalizedIsSettledHolds`, for any number of workers, transactions, operations and
latencies. `BenchAssumption` says of the constants what `main` checks before it starts
(`bench-runner/main.go:138-145`): there is a worker and there is a transaction; and that
no exchange takes zero nanoseconds. That a
report adds up is not inductive; what is, is a sum that holds at every moment
(`CountsAdd`): what is recorded, what is under way and what is still in the channel make
up all transactions. What is under way is counted as the set of transactions that the
workers at some places hold (`Held`), which is as good as counting workers because no two
of them hold the same one (`JobsDiffer`); for the direct scenarios it is the set of
operations called (`Called`). A success is waited for at most once (`FinalsAdd`), and as long as
connections last exactly once: that needs an invariant of the server too, for who is told of
success must be told an order to wait for (`AnswersName`). `FinalInv` adds what the server stores and answers
(`ServerTells`) and counts the final orders against the confirmed ones that nobody waits
for any more (`FinalsBacked`): a wait that ends well moves its own order from one set to
the other. For `ExtremesAgree`, `ExtremesMerge` shows that one more latency
moves minimum and maximum with the sample, because truncation keeps the order of durations
(`MillisecondsMonotone`). For `NearestRank`, `SortedPermutes` shows that the sorted permutation that
`Sorted` chooses exists, by counting for each value those that belong before it,
`PermutationKeeps` that it has as many values up to any bound as the sample, and
`PercentileIsNearestRank` does the rest.

Only model-checked: the liveness properties `Answered`, `OrderSettles`,
`ReservationsResolve`, `Served`, `Finishes`, `EveryEventPublished` and
`EveryEventNotified` (fairness and ENABLED are out of the prover's reach), and that the
violated properties are violated. Every safety property a passing run checks is proved.

## Plan

1. `TwoPC`, `TccSaga`, `OutboxRelay` and `Notification`, `CheckoutFront`, `Engine`,
   `BenchRunner` (done): every program that keeps state.
2. Proofs (done): every safety property of the passing runs, and the refinements,
   of `AtomicCheckout` by `TwoPC`, `TccSaga` and `Engine`, and that of `EventDelivery`
   by the outbox pipeline. To come: the safety that the liveness properties rest on, such
   as who can wait for whom in `CheckoutFront`, and what an orderly end leaves in the tables.

## Not modelled

- The command line demo posts checkouts and prints what comes back. A flag keeps it from
  running two scenarios at once; nothing else depends on it.
- Contracts, logging and metrics are names, log lines and counters.
- The scripts and charts run other tools.
- Of the programs that are modelled: start-up and configuration, health checks, URLs and
  the JSON of requests and answers.
