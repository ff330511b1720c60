# TLA+ development of erp-fashion-api

The repository is a NestJS/TypeORM/MySQL ERP for fashion retail: sales, purchasing, stock,
payments, accounting, payroll and customer portal, with an outbox to Kafka and BullMQ jobs.
This directory holds TLA+ models of the parts whose correctness depends on the order in
which concurrent requests, transactions, messages and crashes interleave, the TLC runs that
check them on small instances, and TLAPS proofs of the most important facts for all instances.

Paths below are relative to the repository root; `modules/` is short for `src/modules/`.

## 1. Inventory of the system

The program is one code base that runs as API processes and worker processes (several of
each). State is in MySQL (REPEATABLE READ), Redis (BullMQ) and Kafka. A request handler runs
to its end unless it awaits; every `await` is a point where other requests run.
`TransactionService.run()` is one database transaction: its `SELECT ... FOR UPDATE` reads see
what is committed now, its plain `SELECT`s see the snapshot of the first plain read. TypeORM's
`save()` reads the row again and updates the columns in which the entity in memory differs.

| Component | State | Operations | Interacts with | Hard | Correct when |
|---|---|---|---|---|---|
| Outbox (`modules/outbox`, `modules/kafka`) | `outbox_events`, claimed copies in memory | create, tick (claim, publish, mark), crash | business transactions; Kafka | claim without a claimed status, unconditional updates, crash between publish and mark | a committed event is delivered at least once; PUBLISHED implies delivered |
| Notifications (`modules/notifications`, `modules/queue`) | `notifications`, `processed_events`, job records | handle message, process job, retries, markAsRead | Kafka group, BullMQ, provider | three writes in two stores, rebalance, stalled jobs | offset only past processed events; SENT is final; every event ends in a settled notification |
| Stock (`modules/inventory`) | `warehouse_stock`, `stock_movements` | transfer, adjustment, goods receipt (and, from other modules, sale issue, sale return, purchase return) | sales, returns, purchase | absolute writes from read entities, lock order, several lines | balance = sum of movements; never negative; deadlock only through receipts; serializable |
| Sales (`modules/sales`) | `sales`, items, `paidAmount`, `fulfillmentStatus` | create, confirm, cancel, ship, deliver, applyPayment | stock, loyalty, promotions, payments | unlocked read + save() against locked writers | issued once; final states final; balance = allocations |
| Sale returns (`modules/sales-returns`) | `sale_returns`, items, `refundedAmount` | create, confirm, cancel, applyRefund | stock, loyalty, payments | snapshot older than the lock | not over-returned; refunds and reversals bounded |
| Payments (`modules/payments`) | `payments`, allocations, idempotency key | create, reverse, reallocate | sales, purchase orders and invoices, returns, journal, outbox | multi-document locking, retry with the same key | each payment once; balances = allocations |
| Purchasing (`modules/purchase`) | orders, invoices, returns | submit/approve/confirm/close, post/void, complete | stock, payments | unlocked transitions against locked payments | received and returned within ordered; no void of a paid invoice; the order follows its invoice |
| Accounting (`modules/accounting`) | journal entries, periods | create, post, cancel, automatic posting | payments | unlocked cancel against locked post | POSTED is final and balanced |
| Loyalty, promotions | point transactions, `usageCount` | earn, reverse, redeem; use, update | sales, returns | snapshot sum after a lock; stale save | points spent within those earned; usage within the limit |
| Webhooks (`modules/webhooks`) | deliveries, subscriptions | dispatch, deliver, disable | Kafka, receivers | retry after a lost answer | each event at least once per subscription |
| Requests, RFQs, quotations (`modules/purchase`) | one row each | submit, approve, send, close; create and award a quotation | orders | unlocked transitions, an award over several rows | one award per RFQ |
| Payroll, leave (`modules/payroll`, `modules/hr`) | periods, runs, payslips; leave requests | create, calculate, finalize, cancel; approve, reject, update | employees | no unique index on the active run; the period read without a lock | one active run; a finalized run and a decided request do not change |
| Online orders (`modules/online-orders`) | `online_orders` | createForSale, updateStatus | sales | unlocked transition | one per sale; status follows the table |
| Customer portal (`modules/customer-portal`) | `shopping_sessions`, `shopping_events`, the sale's creation key | step, createOrder | workflow engine, catalogue, assistant, sales, online orders | an engine that dies and repeats, answers that are lost or late, two submits | one order per checkout, of the cart that was shown |
| Organisation, catalogue, parties, units, users, reports, assistant | master data | CRUD, queries | all | none that a model would show | validation |

`PROJECT.json` lists every component with its status and every hazard at its line.

## 2. Modules

| Module | What it is |
|---|---|
| `EventDelivery` | abstract: an emitted event is delivered at least once, nothing else is delivered |
| `Outbox`, `OutboxOverlap`, `MCOutbox` | the outbox table and its publishers; the same with a history of overlapping claims |
| `NotificationDelivery`, `MCNotificationDelivery` | consumer group, notification rows, job queue, workers |
| `EventPipeline`, `MCEventPipeline` | the two composed: the broker's append is the consumer's message |
| `StockBook` | abstract: every document is one indivisible posting, takes no more than there is of a row it names in one line, and only a sale is posted again |
| `StockLedger` | stock rows, locks and movements under all six kinds of document |
| `StockSerial` | `StockLedger` implements `StockBook` |
| `SaleLifecycle` | confirm, cancel, ship, deliver, applyPayment of sales |
| `SaleReturns` | create, confirm, cancel, applyRefund of returns; redeem of loyalty points |
| `PayOnce` | abstract: requests with one idempotency key make one payment |
| `PaymentSettlement`, `MCPaymentSettlement` | supplier payments, reversals, reallocations, credits, post, void and close over invoices and orders; implements `PayOnce` |
| `PurchaseReceipts` | one purchase order: its transitions, its receipts and its returns |
| `PayrollRuns` | the runs of one payroll period, and the period |
| `Documents` | journal entries, leave requests, promotions, online orders, purchase requests, RFQs and quotations: every change of their status |
| `MCStock`, `MCSales`, `MCDocuments` | instances of `StockSerial` and `PurchaseReceipts`, `SaleLifecycle` and `SaleReturns`, `Documents` and `PayrollRuns` |
| `ShoppingCheckout`, `MCShoppingCheckout` | one customer's shopping session from the updates to the sale and its online order |
| `Outbox_proofs`, `StockLedger_proofs`, `PaymentSettlement_proofs`, `Documents_proofs`, `PayrollRuns_proofs`, `NotificationDelivery_proofs`, `ShoppingCheckout_proofs` | theorems and proofs |
| `Quantities_proofs` | sums over finite sets, and the theorems of the three modules whose properties add up: `SaleReturns`, `SaleLifecycle`, `PurchaseReceipts` |

`MC...` modules only give constants their values. Three of them put two models into one run: the two share no state,
and a behaviour of the run is one of either (`model`), the other being left as it begins. This is why some of
the models have names with a prefix (`SaleInit`, `OrderNext`, `PayrollOp`). Definitions with a comment that starts with
"Slip" are variants of the definition that follows them with one plausible programming mistake
(a dropped lock, a swapped order, a missing guard). No specification uses them. They are there
to show, for every property, a mistake in the code that the property would catch
(`mutants` in `PROJECT.json`).

### Outbox

`row` is the table (`status`, `attemptCount`); `due` and `older` are what the claim query makes
of `availableAt`: rows whose time has come, and which came first. `pc` and `batch` are a
publisher's place in `tick()` and the copies it has claimed. `Commit` is `OutboxService.create()`
with the commit of the caller's transaction. `ClaimSelect`/`ClaimCommit` are `claimBatch()`: the
locks exist between the two, and the rows are not changed. `Append1` is the broker's append,
which may happen several times or before an error; `SendAcked`/`SendFails` are the two ends of
`publish()`. `MarkPublished`, `MarkFailed` are the unconditional updates; both may fail
(`MarkPublishedFails` runs the catch block, `MarkFailedFails` abandons the batch), and a process may
die at any step (`Crash`). The guard `Current(p) \notin Locked` is the update waiting for a row lock.
`OutboxOverlap` adds the history `shared`: the events of which two publishers hold, or held, a copy at one time and one
still does. A claim protects its rows only while its transaction is open, so this happens; what every other row can rely
on is stated with it.

### NotificationDelivery

`topic` is the log from the group's committed offset on, `pos` what its owner has handled and not
committed. `CheckProcessed`, `CreatePending`, `Enqueue`, `RecordProcessed` are the four steps of
`processIdempotently()`; `HandlerFails` is an error or crash between any two. `Rebalance` hands the
partition over while the former owner may still be inside the handler. The job record has the
states of BullMQ that `DEFAULT_JOB_OPTIONS` makes matter: `Evict` is
`removeOnComplete`/`removeOnFail`, `Promote` the end of a backoff, `StalledCheck` the restart of a
job whose worker died, `LockLost` the same for a worker that is alive but was blocked. Kafka and BullMQ
are external; only the guarantees that the code relies on are modelled.

### StockLedger

A document is a kind and a sequence of lines `[key, change]`; `Keys` are the ranks of the stock rows
in the (warehouse, variant) order the services sort by. Sales, transfers and adjustments lock all rows in
that order (`LockRow`), check all lines (`CheckLines`), then write (`WriteLine`); receipts, sale returns and
purchase returns lock, check and write one line after the other. `stock` is the entity in memory,
from which the absolute quantity is written, `moved` the sum of the movements inserted. `Commit`
makes both visible, `Rollback` is a refused line, a failed statement, a crash or a deadlock's victim.
A document is posted by requests, of which a sale or a return may have several (`Rivals`). A return's status is read under
its lock, so that its second request waits and is refused; a sale's is read before the transaction, so that two
confirmations which both found a draft both post it. `Twice` has the rows that a sale, transfer or adjustment names in two
lines, each of which is checked against the whole quantity.
Transfers, adjustments and receipts first lock the company's number counter, which lets one of a kind
run at a time (`Begin`, one company and one year).

### SaleLifecycle

`Read` is `findByIdInCompany()` with the guard on what it has read. `SaveReads`/`SaveUpdates` are the two
halves of `saleRepository.save()`; `Save` writes the columns in which the entity differs from the
second read, which is how a stale entity overwrites a newer row. `LockStock`/`CommitConfirm` are
`confirm()`'s transaction: its plain reads see the snapshot fixed while it inserts the movement, under
the stock row's lock. `LockSale`/`CommitPayment` are `applyPayment()` inside `PaymentsService.create()`.
Each sale has one item, of one stock row; a payment is of one unit of money. Three histories: `cancels` has the
cancellations that found their sale a draft, `doubled` the sales with two confirmations under way at one time,
`overtaken` the sales of which a payment committed between a request's first read and that of its `save()`.

### SaleReturns

`Snapshot` is `create()`'s plain read of the sale, which fixes what its later plain reads see
(`visible`); `LockItem` locks a SaleItem and compares the line with what is left in the snapshot, and its discount
with its subtotal. A return may name an item in two lines (`Twice`): each is compared alone.
`Confirm`, `Cancel` and `ApplyRefund` work under the lock of the return from their first read on and are
single steps. The return's number counter, locked last in `create()`, orders the inserts and
nothing else. `ReadProgram`, `LockPoints` and `Redeem` are `LoyaltyService.redeem()`: the read of the
loyalty program fixes the snapshot, then the customer's ledger rows are locked, then the snapshot
is added up. `blind` and `overlapped` are histories: the items of which a return was created, and whether
a redemption was decided, in a snapshot that missed another one.

### PaymentSettlement

A request goes through `lookup` (the key, before the transaction), `begin` (the year's number
counter), `lock` (its invoices in sorted order, each with its order), `insert` (the payment, under the
unique index), `commit`. `release` and `apply` are the invoices it has still to take its unit back from and to
apply it to: a payment has only the second, a reversal and a credit one of them, a
reallocation both, the first set before the second. `work` holds the rows as the transaction has changed
them; `Commit` writes them, with the payment, its allocations and the journal entries. `Refetch` is
the catch block of `create()` that looks up the winner of the key. `Read`, `SaveReads`, `SaveUpdates` are
`post()`, `void()` and `close()`, which read without a lock and save; `raced` remembers the rows that changed
in between. Each order has one invoice, so that invoice and order are one lock; each
allocation is one unit of money. Payments of sales and refunds are in `SaleLifecycle` and `SaleReturns`.

### PurchaseReceipts

`BeginTransition`, `TransitionReads`, `TransitionUpdates` are the transitions of `PurchaseOrdersService`;
`ReadOrder`, `LockCounter`, `LockOrderItem`, `CommitReceipt` are `GoodsReceiptsService.create()`, whose sum of
earlier receipts is a locking read; `BeginReturn`, `LockOrderItem`, `CommitReturn` are
`PurchaseReturnsService.create()`, whose sum of earlier returns is a plain read, and `Settle` is its `complete()`
or `cancel()`. A receipt or return may name an item in two lines (`NamedTwice`), since neither the DTO nor the table
forbids it: each line is compared alone with what remains. `unseen` and `raced` are histories: items of which a return
did not see another one, and whether two transitions overlapped. The stock of a receipt or return is in `StockLedger`,
the invoice's credit in `PaymentSettlement`; the balance that `close()` also asks for is left out here, as
the quantities are there.

### Documents

A row has a status, a `content` (the request that last wrote the other columns) and the two numbers of a
promotion, of which a limit of 0 is NULL, no limit. Handlers that lock the row, check and write are one step
(`Post`, `Decide`). A sale's use of a promotion is two: `LockPromotion` is `resolveAndLockForUse()`, which takes the row
and checks it, `CommitUse` or `RollbackUse` the end of the sale's transaction; in between other uses and the `UPDATE`s of
a `save()` wait (`Free`). The other handlers are
`Read`, `SaveReads`, `SaveUpdates`: the check is made on the first read, the update writes the columns that differ
from the second. `ReadQuotation`/`Settle` is the award: checked on an unlocked read, then three
`UPDATE`s in one transaction (the quotation, its submitted rivals, the RFQ); `ReadRfq`/`InsertQuotation` is
the submission of a quotation. `raced` holds the rows that changed between the read and the write of a handler, `overtaken`
the promotions of which a use committed between the two reads of an `update()`.

### PayrollRuns

A run is named by the request that creates it. `ReadPeriod`, `LockRange`, `InsertRun` are `create()`: the
period in the snapshot, the locking read of the active run, which locks the index range of the period,
the insert. Two `create()` that find no row hold the gap together and wait for each other with their
inserts; one is the deadlock's victim (`Rollback`). `Begin` is the lock of the run with the reads of run and
period, `Calculate`, `Finalize`, `Cancel` the writes at the end of the same transaction, the period's among
them whatever it says by then. `CancelPeriod` reads an arbitrary run of the period, as the code does.

### ShoppingCheckout

`session` is the row of `shopping_sessions`, `event` those of `shopping_events`: `op` is the request that
`context` asks for, `token` numbers the operation tokens. `step()` is one transaction under the lock of the
session and one step here: `Start` (first call of an event: `prepare()`), `Resume` (the update alone
again), `Deliver` (a response with its token: `respond()`), `EndOverdue` (the assistant's operation after
three minutes). `Take` and `Press` say what an update or a button leads to, by the five things a
customer can ask for; `button` is the token of the view last shown and `views` the carts that were shown with each. `relay` is an
execution of the workflow: it carries out requests, gives up (`Timeout`), dies (`Crash`), repeats itself and may
run twice for one event. `call` is `createOrder()` on its way through its transactions: `Find` (the
creation key), `LockCounter`, `Reread` (a locking read of the key), `Insert` with the unique index,
`CommitSale`, then `FindOnline`, `InsertOnline`; its relay may have given up long before.

## 3. Runs

Nine runs pass. The other three state a sentence of the repository that the code does not keep, and TLC shows how
(`findings` in `PROJECT.json`, section 5). All disable the deadlock check: every model has a state in which all work is
done (deadlocks of *locks* are properties: `OnlyReceiptsDeadlock`, `OnlyReallocationDeadlocks`).

| Run | Instance | Shows |
|---|---|---|
| OutboxShared | 2 publishers, batches of 2, 2 events of which the broker refuses one for ever, 2 faults, fair | the outbox implements `EventDelivery`, liveness included; no PUBLISHED row without a message; what the broker takes becomes PUBLISHED; PUBLISHED is final and not sent again but for rows in `shared` |
| OutboxSettled | the same events, 2 publishers, batches of 1, 2 attempts counted, 1 fault, fair | every failed attempt counts but for rows in `shared`, publishing comes to rest, and the poison event starves nobody |
| OutboxDoubleClaim | as OutboxShared | **violated**: "two publishers never double-claim the same row" |
| NotificationAll | 2 events, 2 instances, 2 worker slots, 2 faults, 1 lost lock, 2 calls of the provider counted | offsets pass only over processed events, whose jobs were handed over; SENT is final, and its provider not called again, until a live worker loses a job lock |
| PipelineAll | 1 event, 1 publisher, 2 instances, 1 slot, 2 faults, fair | outbox and notifications together implement `EventDelivery` from commit to provider or given-up job, and every event ends in a settled notification |
| StockAll | 7 documents of all six kinds, one sale with two lines of one row, 3 rows of 1 unit; 9 requests, of which two confirm one sale and two one return, 4 transactions open at a time | reconciled, below zero only by two lines of one row, as if posted one by one (`StockBook`), and every deadlock has a receipt of several items in it |
| (the same) | 14 requests over one purchase order of two items, two at a time; a receipt and a return name an item twice | nothing received beyond the order or returned beyond the receipts, but by a document that names an item twice; the status fits the receipts until two transitions overlap |
| StockBelowZero | as StockAll | **violated**: stock is never negative |
| SalesAll | 2 sales, 9 requests (three confirmations, two cancellations, shipping, delivery, two payments of the same unit) | units are accounted for and those of a sale issued once but for `doubled`, no stale write invents an issue, payments add up but for `overtaken` |
| (the same) | 3 returns of 2 items, one of which names an item twice, with discounts; 2 redemptions of 3 and 2 points of 4 | what is over-returned or over-spent was decided in a snapshot that missed another, or line by line; restocks and refunds stay within the return always |
| SaleIssuedTwice | as SalesAll | **violated**: the units of a sale are issued once |
| SettlementAll | 11 requests over 2 invoices, two at a time: two with one key in two years, a reversal sent twice, a reallocation, a credit, post, void and close | paid amounts are those of the allocations, orders follow invoices, one reversal, one payment per key, deadlocks only with reallocations |
| DocumentsAll | 24 requests on 8 documents, three at a time, four in one behaviour; three uses of a promotion whose limit of 1 is raised to 2 or lifted | final statuses are final and an RFQ has one award, except where a document changed under an unlocked read; promotion uses are counted but for `overtaken` |
| (the same) | 14 requests over one payroll period and three runs, four at a time | one run is active, the period follows it, what is finalized stays |
| ShoppingAll | 4 events of a customer (two of them presses of Submit), 2 relays, 2 order-creating calls in different years | one order at most per checkout, of the cart that was shown; an unknown outcome is kept and never retried as new |

**Exclusions are histories.** Several handlers read without a lock and write later; the code does not
promise there what a reader would expect, and a property that ignored it would be false. Such a
property names the exact circumstance by a history variable: `raced` (the document changed between a
handler's read and its write), `blind` and `unseen` (a return was created in a snapshot that missed another),
`overlapped` (a redemption shared its snapshot with another), `lockLosses` (a live worker lost its job
lock), `cancels` (two cancellations found one sale a draft), `doubled` (two confirmations of a sale under way together),
`overtaken` (a payment of a sale, or a use of a promotion, committed between a handler's read and the one in its `save()`), `shared` (two
publishers have a row in hand); `Twice` and `NamedTwice` are the rows or items that one document
names in two lines. `shared` ends when the copies are gone; the others last. The property then says that this circumstance is the *only* way to go wrong. Section 5 lists
what happens inside the exclusions.

**Bounds.** A hazard here is between two actors, or between an actor and its own restart, so two
events, publishers, consumers or worker slots are enough; a third request is open at a time in
`DocumentsAll`, a fourth in its payroll half and in `StockAll`, where a third party (the RFQ of two quotations, the period of
two runs, a circle of several rows) matters. `MaxOpen` and `MaxUnderWay` are the number of requests open at one time, `MaxSent` the number
in one behaviour of `Documents`, `Back` how many screens back a pressed button may be.
`MaxAttempts`, `MaxCopies` and `MaxDeliveries` saturate counters whose larger values the code does not
tell apart, at 2 where a property is about one more (the attempts of `OutboxSettled`, the provider's calls of
`NotificationAll`); `MaxFaults` and `MaxLockLosses` bound failures in one behaviour (two, so that the repair may
fail as well; one in `OutboxSettled`, where a poison event fails without a fault); `MaxTopic` 2 allows a duplicate beside an original; `MaxTries` and `MaxStalls` stand for
five attempts and BullMQ's one allowed stall. Quantities are chosen so that requests compete: one unit
in each stock row, one unit of money for two payments, three redeemed and two redeemed points out of four.
`PipelineAll` has one event because the races between events are those of the parts. Runs with SYMMETRY
check invariants and action properties, no liveness.

**Fairness.** Weak fairness is given to steps that the process takes by itself: `setInterval()` calls
`tick()` for ever, an awaited call settles, kafkajs commits, BullMQ runs its timers, a backoff ends.
Strong fairness is given only to the broker's append and acknowledgement of a deliverable event,
which is repeatedly but not continuously enabled; it says the broker is not down for ever for
that event. Nothing is assumed of new messages, faults, evictions or lost locks. The request-driven
modules have no fairness and no liveness property: a user need not send a request.

## 4. What is proved

TLAPS checks every step; the theorems hold for every value of the constants that satisfies the
module's ASSUME. Each proof has an inductive invariant that TLC was shown first, one step per
action, and under it one per conjunct.

*StockLedger_proofs.* `StockTypes` and `StockReconciled` rest on the inductive invariant `LedgerInv`:
`TypeOK` (with lock exclusion), `LinesAreLocked` (a document past a line has that line's row
locked), `EntityIsCurrent` (for a locked row, what the entity holds is the committed quantity plus the
movements inserted so far; nothing was moved on rows that are not locked) and `Reconciled`. The second
and third are what make an absolute write at commit the same as adding the movements.
`StockNeverNegative` is about all documents: a row is never below zero unless a document that was posted names it in two
lines and checks them by themselves (section 5). It rests on `EnoughLeft`: the entity that a transaction has taken from is not
negative but for such a row, and each line that a checked document still has to write fits what its entity holds (`TwoLines`
is why another line of the document does not disturb it).

`StockOnlyReceiptsDeadlock` needs no induction over the length of a circle: with `HeldInOrder` (a document that is not a
receipt holds only rows that sort before the one it wants) look at the document of the circle that holds the highest row that anyone in
it holds. Whoever waits for that row is next, and what it wants is not below what it holds, unless it is a receipt. The
maximum exists because `OrderAssumption` says that there are finitely many rows; it also says that the lines of returns
are sorted, as `sale-returns.service.ts` and `purchase-returns.service.ts` write them.

`StockSerializable`: the stock ledger implements `StockBook`, for any documents and any requests. A document's effect on a row is
a recursive function of its lines (`Added`); that there is such a function is proved first (`AddedExists`), since a recursive
definition is a choice. `MovedByLines` says that the movements a transaction has inserted are those of the lines before
`line`, so a commit, which comes after the last line, adds the whole document (`CommitPosts`): to locked
rows because their entities are current, to the others nothing. `EnoughLeft` gives the condition of `Post` for the
rows outside `Twice` (`Unguarded`). That a document which is not a sale is posted once is `OneRequest`: of its requests
one at a time is past its start. For sales that fails, which is what `Repeatable` says.

*Outbox_proofs.* `OutboxTypes` and `OutboxPublished` follow from one inductive invariant, whose
main part is that a publisher at `mark` has its current event on the topic. `OutboxRefines` maps
`Commit` and the first `Append1` of an event to the steps of `EventDelivery` and everything else to
stuttering. `OutboxPublishesOnce` and `OutboxCountsAttempts` are about `OutboxOverlap`, for any number of publishers. They
rest on `CopiesAreCurrent`: the copy of an event that is not in `shared` is the only one, of a row that is not
published, with its current attempt count. A row leaves `shared` only when its last copy is gone (`StillUnshared`), so that
the next claim reads it anew. `OverlapIsOutbox` carries the types over.

*PaymentSettlement_proofs.* `SettlementReversedOnce` and `SettlementPaidOnce` rest on the types,
`Unanswered` (a request without an answer has inserted nothing), `Handlers` (which request is at which step),
`LockedPayments` (a payment a reversal has locked and read is still CONFIRMED and locked by nobody else) and `KeyIsOwn`
(between its insert and its commit a request is the only one whose key is in the table). The
refinement maps the commit of `create()` to `Pay` of `PayOnce`, the first lookup and the one after a
duplicate-key error to `Replay`. The counter that `create()` locks first plays no part in the argument:
requests around New Year lock different counters, and the UNIQUE index alone decides.
`SettlementMirrored` has an invariant of its own, `MirrorInv`: a row is locked by one transaction, a credit keeps the
`paidAmount` it found (`CreditKeepsPaid`), and what an unlocked `post()`, `void()` or `close()` has read and checked still
holds of a row that is not in `raced` (`ReadUnlessRaced`), so that its `save()` writes a status and, for a voided invoice
alone, a balance.
`SettlementOnlyReallocationDeadlocks` rests on `LockInv`: a request has its place in its sorted targets (`Progress`), and one
that is not a reallocation holds only what sorts before what it wants (`Upwards`); the argument is that of the stock rows, with the last
invoice that is held in the circle. `SettlementAllocationsAddUp` rests on `MoneyInv`: an invoice's `paidAmount` is the number of the confirmed
payments allocated to it (`Allocated`), and the working copies of an open transaction differ from the rows by what
it has released and applied so far (`Working`). The number of payments changes by one with a commit, by the cardinality lemmas of
the library. `InvoicesAssumption` (finitely many invoices) is what makes the last invoice exist.

*Documents_proofs.* `DocumentsFinal` rests on the types, `Handlers` and `CheckedUnlessRaced`: what a handler
checked of the document it read still holds when it writes, unless the document is in `raced`. `DocumentsOneAward`
adds `AwardsClose`: an award leaves no quotation of its RFQ to award, and nobody about to insert one; it assumes that no
quotation is decided at the start. `DocumentsUsesCounted` rests on `UsesInv`: a sale that counts is done (`SalesAreDone`), whoever has the row of a promotion
still finds it as it was checked (`UsersHold`), an `update()` saves a count only if a use came between its two reads
(`SavesNoCount`), and the number of sales is the count, within a limit that the promotion had or was asked to have
(`CountAndLimit`). It assumes that a promotion starts unused.

*PayrollRuns_proofs.* `PayrollOneActiveRun`, `PayrollPeriodFollows` and `PayrollFinalized` rest on `RangeIsFree`
(a `create()` that found no active run under its lock on the index range still sees none),
`HeldAsChecked` (a row that is locked is as its holder read it), and the two invariants themselves. The proof assumes that
the locking read uses the index on `payroll_period_id`; see section 6.

*NotificationDelivery_proofs.* `NotificationResolved`, `NotificationHandedOver` and `NotificationSentIsFinal` rest on an
invariant in two halves. The consumer's: while the owner of the partition handles a message it is the one after
those it has handled (`OwnerIsAtNext`), so the position never jumps over one; and each of the four steps of
`processIdempotently()` has what the one before it made (`InOrder`). The workers': a job record says how the job
ended only if it ended so (`JobsEnd`), a status is written after the provider was called (`CalledFirst`), and
until a lock is lost a busy slot holds its job's lock and the row is not `SENT` (`LockIsHeld`). What is handed
over stays handed over, so that the steps of one half keep the other; no bound on faults, topic or attempts
is used beyond being a number.

*ShoppingCheckout_proofs.* `CheckoutOrdersOnce`, `CheckoutOrdersAsShown` and `CheckoutKeepsUnknown` are about the events
whose order was begun (`Begun`). All of them but the one that is submitted now have been told of their sale
(`ToldOfSale`), a session has one submission (`OneSubmission`), and each was pressed on a button of its own
(`ButtonsDiffer`): the button is withdrawn when the customer is told, and kept with the submission while the outcome
is unknown. Two calls with one key are told apart by the unique index alone (`CallsFollow`), whichever counter they lock.

*Quantities_proofs.* The module begins with sums: `SumFunctionOnSet` is a fold, defined by a choice of a recursive
function, and tlapm has no induction rule for it. `LeastSubset` (from the well-foundedness of the subsets of a
finite set) takes its place: of the subsets for which a fact fails there is a least one, and one element less
is a contradiction. From it come the existence of the fold (`TotalIs`), the effect of one element more or less
(`TotalAdd`, `TotalRemove`) and the lemmas that the models need: bounds, splits, sums of sums (`TotalSwap`,
`TotalByKey`). No induction theorem with an operator as parameter is used.

- `SaleReturns`: `ReturnsInv`. The lines which an open `create()` has behind it fit its snapshot (`LinesChecked`), so that a
  return which saw all others of an item, and names it once, leaves the sum within what was sold (`SinglesFit`).
  `restocked` and `reversed` are sums over the confirmed returns. That rounded reversals stay within what was earned
  is the sum of `GrandTotal * points <= Earned * eligible` over the returns, whose eligible amounts add up to at most
  the sale's total because the quantities do, item by item: it holds for a sale without a discount of its own.
- `SaleLifecycle`: `SaleInv`. What a request has made of the entity it read (`RequestsFit`), what a row can be (`RowsFit`)
  and what the second read of a `save()` still tells of the row (`ReadsFit`): columns that the entity does not
  change keep what another request wrote. `OneCancel` is in it because two cancellations whose second reads fall on both sides
  of a confirmation write what neither intended. `UnitsKept`: a confirmation that commits has the stock row, as it read it.
  `OnceFits`: outside `doubled` a sale with a confirmation under way is not issued, since a row that was issued never reads
  DRAFT again. `PaidFits`: outside `overtaken` an entity holds the paid amount that its `save()` reads again.
- `PurchaseReceipts`: `OrderInv`. A transaction holds the items of the lines it has behind it (`LinesLocked`), nobody else does
  (`LocksApart`), and each of these lines fits what is committed, for a receipt, or its snapshot, for a return
  (`LinesFit`); the year's counter plays no part. `HandledFits` and `ReturnsFit` are the two sums over the documents that name an
  item once. `StatusFits`: what a transition found allowed is still allowed when it saves, unless another one
  overlapped, because receipts are never taken back.

The exceptions are in the properties and not in the theorems: `blind`, `unseen`, `Twice`, `NamedTwice`, `doubled`, `overtaken`,
`shared`, the two cancellations and the discounted sale are each a real way to violate the plain statement, found by TLC (section 5). The three models assume
that items and sales are finite sets.

**Only model-checked.** Liveness (`AtLeastOnce`'s fairness part, `EventuallyPublished`,
`EventuallySettled`, `EventuallyNotified`, and `EndToEnd`) is out of TLAPS's reach here, and `EndToEnd` composes modules
whose fairness it needs; the safety part of `EndToEnd`, that nothing is delivered which was not committed, is not proved
yet either. Every invariant and every other action property of the runs has a theorem.

## 5. What the models show of the code

Three of the following are runs that TLC finds violated, named in brackets and listed with the sentence they contradict under
`findings`. The others were found by TLC with the same modules, by dropping an exclusion from a property or by other constants.

*Outbox and notifications*
- Two open batches can hold the same row: a claim protects only while its transaction is open
  (`outbox-publisher.service.ts:123`, against the class comment at 25-29) [`OutboxDoubleClaim`]. The message is then sent twice,
  and a published row goes back to FAILED, since both outcome updates are unconditional (`outbox-publisher.service.ts:168`).
- A job is given up after its attempts or its second stall (`queue.service.ts:15-29`), and nothing puts it back: such a
  notification never reaches the provider. `EndToEnd` therefore counts an event whose job was given up as ended.
- The provider is called twice when the process or the UPDATE fails after the call
  (`notification.worker.ts:91`); with a lost job lock and two slots SENT is overwritten by FAILED
  (`notification.worker.ts:72`).

*Stock and sales*
- Receipts lock stock in the order of purchase-order items, all other documents in the order of stock keys:
  a receipt of several items can deadlock with any other document of several lines. InnoDB aborts one; nothing retries.
- A sale with two lines of one row takes it below zero (`sales.service.ts:914` compares each line with the same quantity, against
  `docs/INVENTORY_ARCHITECTURE.md:42-43`) [`StockBelowZero`].
- Two `confirm()` of a sale both issue the stock, although the comment at `sales.service.ts:961-963` says the
  method is reached once per sale: the status is read before the lock [`SaleIssuedTwice`].
- `confirm()`, `cancel()`, `ship()`, `deliver()` save an entity read without a lock, with its `paidAmount`: a payment
  that commits between that read and the one in `save()` leaves the balance. A final status is overwritten (`sales.service.ts:983`);
  DELIVERED goes back to SHIPPED (`sales.service.ts:1009`).
- Two `cancel()` and two `confirm()` of one sale leave it CONFIRMED without a fulfillment status, so that it can never be
  shipped: one confirmation saves its status over a cancelled row, whose fulfillment status it finds unchanged,
  and the second cancellation has taken that status back (`sales.service.ts:878-983`).

*Sale returns and points*
- Two `create()` of one item return more than was sold: the sum of earlier returns is read in a snapshot
  older than the lock (`sale-returns.service.ts:172`). Two lines of one item in one return are not added up (`:259`).
- A return of a discounted sale reverses more points than were earned (`:450`).
- Two `redeem()` spend the same points, although the comments at `loyalty.service.ts:240-246` and `268-272` say that
  the second waits and reads again: it does wait, but its snapshot was fixed by the read of the program before.

*Payments, purchasing*
- Purchase returns have the same old snapshot (`purchase-returns.service.ts:136`). A receipt or a return with two
  lines of one order item checks both against the same remaining quantity.
- `complete()` of a purchase return on a VOIDED invoice writes a balance again (`purchase-returns.service.ts:406-417`);
  `void()` leaves the order's balance as it was; `post()` and `void()` save over a payment that committed meanwhile;
  `close()` racing `reverse()` writes the order's old balance back.
- Two `reallocate()`, or one and another payment transaction, can deadlock.
- `cancel()` or `reject()` racing `approve()` and a receipt leaves a CANCELLED order with receipts.

*Payroll*
- `cancel()` of a period reads an arbitrary run of it (`payroll-periods.service.ts:166`), so a period with a CALCULATED run can be
  cancelled although the message at `:176` says it cannot.
- `calculate()` saves an older snapshot of the period and turns CANCELLED back into PROCESSING; `cancel()` of a run reopens
  a CANCELLED period; a DRAFT run may be inserted in a period cancelled meanwhile.

*Documents*
- `cancel()` of a journal entry racing `post()` turns POSTED into CANCELLED; `update()` of a leave request racing `approve()`
  writes PENDING back; `update()` of a promotion resets `usageCount` when a sale commits between its two reads.
- Two overlapping awards leave two AWARDED quotations; an award closes a CANCELLED or DRAFT RFQ, since the
  update of its status ignores the one it has.

*Shopping* (compare `src/docs/CUSTOMER_SHOPPING_CONCURRENCY.md`)
- An order creation that was refused leaves the submission uncertain, for staff, for good; every later event of the session is refused.
- The step that notices an overdue answer throws, and its transaction takes the expiry back with it.
- Messages lost after a completed event are not repeated for the event that created the session.

## 6. Not modelled, and limits

- MySQL, Kafka, BullMQ, Redis and TypeORM are modelled by the behaviour the code relies on. Replication and
  statement timeouts are not. Publisher clocks agree. Gap locks appear only where the code depends on one: in `PayrollRuns`,
  assumed to be on the `payroll_period_id` index, and in `redeem()`, assumed to keep new ledger rows
  of the customer out. Those of the checkout's locking re-read would only add deadlock victims, which `Fail` already allows.
- A consumer group without a committed offset (`fromBeginning: false`) skips what was produced
  before; the model starts from a committed offset.
- Rounding of money, units of measure, document numbers, payroll amounts and leave days are abstracted. Each sale has one
  item in `SaleLifecycle`, each allocation one unit in `PaymentSettlement`, where an invoice and its order share one lock.
  The stock level is in `StockLedger` and not in `PurchaseReceipts`.
- Handlers of a single row that lock it before they read are one step in `Documents`.
- `ShoppingCheckout` leaves out browsing, the assistant's leases and tool budget, account linking, and edits of
  name, phone and address; answers to the customer are kept as kinds, not texts. A replayed token may be answered or refused.
  An answer of success without a sale in it (`shopping.js:536`) and a refusal by `createForSale()` are not modelled.
- Most of the repository's lines are CRUD over independent rows with validation (organisation, catalogue, parties,
  units, employees, users and permissions), seeds, migrations, DTOs, reports and start-up code: no state is shared
  between two requests beyond a row, and a model would restate the code. They are `not_modelled` in `PROJECT.json`, each
  with its reason.

## 7. What is left

1. Webhook deliveries, in the manner of `NotificationDelivery`, with one row per subscription.
2. Pricing, promotions and loyalty redemption within the creation of a sale; editing of drafts.
3. The assistant's leases and tool budget in `ShoppingCheckout`.
4. A proof of the safety part of `EndToEnd`: no message, job or delivery of an event that was not committed.

To run: `tlc -config X.cfg M` with the module that `PROJECT.json` names for the configuration, and `tlapm M.tla`
for each of `Outbox_proofs`, `StockLedger_proofs`, `PaymentSettlement_proofs`, `Documents_proofs`, `PayrollRuns_proofs`,
`NotificationDelivery_proofs`, `ShoppingCheckout_proofs` and `Quantities_proofs`.
