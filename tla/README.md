# Verification of the commerce core

The repository is Saleor, a Django commerce back end.  Its GraphQL API runs in
many web processes, its background work in Celery workers; they share one
PostgreSQL database.  There is no in-memory state that matters: every hazard is
about **rows** that several transactions read and write, about what one
transaction read **before** another committed, and about the calls to external
payment apps that happen between two transactions.

This directory holds TLA+ models of the seven places where that is hardest to
test, the TLC configurations that check them, and TLAPS proofs.  Paths below are
relative to `src/saleor/`.

## 1. Inventory

| Component | State | Operations | Hard part | Correct when |
|---|---|---|---|---|
| Stock bookkeeping (`warehouse/`) | `Stock` rows (quantity and a counter of allocated pieces), `Allocation` rows of order lines, `Reservation` rows of checkout lines | allocate, increase, decrease, deallocate, restock, reserve, expire, nightly recount | the counter duplicates the sum of the rows; some functions read without locks | counters match rows, no stock is promised twice |
| Availability (`warehouse/availability.py`) | none | questions "is there enough" | answers are stale when used | agrees with what allocation does |
| Checkout completion (`checkout/complete_checkout.py`) | `Checkout` row, its voucher flag and completion lock, temporary reservations | two flows: payment (three transactions) and transaction (two) | retries, concurrent completions, failures between transactions, a gateway in the middle | one order per checkout, money accounted for, voucher counted once |
| Payments (`payment/gateway.py`) | `Payment` rows | process, confirm, capture, refund, void | what the gateway answers, refunds it refuses or puts off, inactive payments | an order stands on a payment that is kept, money that is captured is accounted for |
| Transactions (`payment/utils.py`, `payment/transaction_item_calculations.py`, `graphql/payment/mutations/transaction/`) | `TransactionItem` amount columns, `TransactionEvent` rows | report, request action, answer, initialize/process session, update | events duplicated, late, backdated, in any order; amounts derived and stored without a lock | amounts are those of the events, each event is stored once |
| Vouchers (`discount/models.py`, `checkout/utils.py`) | `VoucherCode.used` | count, release | check before lock | one use per checkout, limit kept |
| Orders (`order/actions.py`, `order/utils.py`, `order/tasks.py`, `graphql/order/mutations/`) | order status and lines, `Fulfillment` rows with their lines, allocations, stock, the payment | fulfil, approve, withdraw, cancel a fulfillment, refund, return, replace, cancel, confirm, edit a line, expire | rows are loaded and validated first and written later; status follows in a callback after the commit | pieces and money are conserved, the stock covers what is promised |
| Webhook delivery (`webhook/transport/`, `core/tasks.py`, `graphql/webhook/mutations/`) | `EventPayload`, `EventDelivery` and attempt rows, tasks in the broker | store, queue, send, record, retry by the task and by hand, clear | tasks acknowledged when taken, shared payloads, retries that race | a delivery is settled, none is dropped, a request is answered once |
| Promotions and prices (`discount/tasks.py`, `product/tasks.py`, `product/utils/`) | promotions, rules, dirty marks, prices and the discounts on record | requests that mark, four beat tasks that work the marks off | a mark set while a task runs, dates that move, several workers | once the marks are worked off each price is right |
| Gift cards (`giftcard/`, `checkout/complete_checkout.py`, `order/utils.py`) | balances, switches, events | issue, buy, attach, spend at completion, edit, switch off, expire | total computed from unlocked balances; whole rows saved | an order is paid once, no balance below zero, the events explain it |
| Checkout editing (`checkout/utils.py`, `checkout/tasks.py`) | checkout lines | add, remove, delete when expired, cancel payments | lines change under a completion | a completed checkout is not edited |
| Observability buffer (`webhook/observability/`) | a capped Redis list | put, pop batch | the cap | newest events kept, size bounded |
| Schedulers, apps, tokens, throttling, taxes, search, export, plugins, GraphQL schema | small or none | | I/O, cryptography, decimals, text | not modelled, see section 7 |

How they interact: a completion asks the availability checks, takes temporary
reservations, charges through the payment gateway, then creates the order, which
allocates stock and deletes the checkout with its reservations.  Orders move the
allocations when they are edited, fulfilled, returned or cancelled. Payment apps
report events by calling the API back, at any time, more than once. Every change
of an order, a product or a payment stores webhook deliveries; the requests to
payment apps are deliveries too, whose answers become transaction events.
Celery beat runs the clean-up tasks and the tasks that turn promotions into
prices; checkout lines take prices and discounts from there.

`PROJECT.json` lists every component with its status, and under `hazards` each
place where the code is exposed, with the property that covers it or why none
does.

## 2. The modules

| Module | What it is |
|---|---|
| `Quantities` | `Total` of a table of quantities and `Spread`, the greedy loop over stocks that `_create_allocations`, `_create_stock_reservations` and `deallocate_stock` share |
| `QuantitiesProofs` | lemmas on both, on sums and counts of finite sets, and on the folds of the community modules |
| `Warehouse`, `WarehouseProofs`, `MCWarehouse` | stock bookkeeping |
| `Purchase` | what completing a checkout promises, without its transactions, locks and retries |
| `CheckoutCompletion`, `CheckoutCompletionProofs`, `MCCheckoutCompletion` | turning a checkout into an order |
| `TransactionAmounts`, `TransactionAmountsProofs`, `MCTransactionAmounts` | events and amounts of one transaction item |
| `OrderFulfillment`, `OrderFulfillmentProofs`, `MCOrderFulfillment` | what happens to an order: its pieces, stock, allocations and money |
| `WebhookDelivery`, `WebhookDeliveryProofs`, `MCWebhookDelivery` | how an event reaches the webhooks |
| `PromotionPrices`, `PromotionPricesProofs`, `MCPromotionPrices` | how prices follow promotions |
| `GiftCards`, `GiftCardsProofs`, `MCGiftCards` | gift cards in checkouts and under edit |

Definitions whose name has an underscore suffix and a comment starting with
`(mutant)` are wrong on purpose: each is a plausible bug of the definition after
it, and TLC finds the property named beside it in `PROJECT.json` violated when
it takes that definition's place.

All models share two conventions.  A database transaction, or a stretch of code
between two of them whose reads are used later, is one action; what a process
still knows from earlier ones is in a variable of its own (`job`, `proc`).
History variables record the races and crashes in which the code gives a
property up; the property names them, so the exemption is visible, and
everything outside it is promised.

### Warehouse

`stocks`, `quantity`, `quantity_allocated`, `allocation` and `reserved` are the
columns; a missing `Allocation` or `Reservation` row is 0.  `live` says whose
`reserved_until` is in the future.  A function that locks its stocks with
`select_for_update` is one action, since nothing can interleave with what it
reads; when it raises, its transaction is rolled back, so the action is enabled
only when the call succeeds.  `deallocate_stock_for_order(s)` and the recount
read without locks and write later; they are two actions each, with what they
read in `job`.

Two details of the code carry the module:

- `bulk_update` is given one `Stock` object per allocation.  When two of them
  are the same row it writes only one of the changes (`Changes`).  A counter
  that this, or a write from a stale read, may have disturbed is put in the
  history variable `drifted`; `CounterExact` promises nothing for those stocks
  and `CountersRepaired` promises that the nightly task brings them back.
- with `check_reservations`, `allocate_stocks` passes a generator to two queries
  and the second gets nothing (`known` in `AllocateStocks`).

Left out: preorders, variants that do not track inventory, the removal of empty
allocation rows (a row of 0 and no row are the same here), webhooks on stock
changes.

### CheckoutCompletion

`proc[w]` is a worker between two of its transactions, with the Python objects
it still holds: the payment and its status as it was last seen, the voucher flag
as loaded, whether the voucher code was found usable.  The payment flow is `StartPreparing` → `Prepare` (or a
failure) → one of the charge actions → `Finish` (or a failure).  The transaction
flow is `Load` → `CheckVoucher` → `CountVoucher` → `OrderFromCheckout`.
`Unlocked` is the row lock on the checkout.  The payment flow's transactions
commit on errors (`transaction_with_commit_on_errors`), so each failure writes
its clean-up; the transaction flow's roll back.  What
`_complete_checkout_fail_handler` is handed differs from caller to caller, and
each caller is an action of its own for that reason: `ChargeFails` gives neither
voucher nor payment, `ChargeCancelled` the voucher without its code,
`FinishFails` all three.

Stock and gift cards are abstracted to an answer that may be either way at every
question.  The gateway may answer anything in `Answers`, each time it is asked.
Four answers let the completion go on, as in `gateway_postprocess`: the amount is
captured, authorised, confirmed or put off (`Accepting`, `After`), and an order
may stand on any of them.  `captured` is `captured_amount` in units of the
payment's own amount: nobody asks whether a payment was captured before, so a
retry captures it again and the column grows.

A completion that fails gives the payment back (`TakeBack`, which is
`payment_refund_or_void`): what was captured is refunded, at once or later
(`ongoing`, the last `REFUND_ONGOING` transaction), unless a refund of as much is
under way; an authorisation is voided; anything else is left.  The gateway, or a
check of what the row says meanwhile, may refuse (`TakeBackRefused`): then
`raise_payment_error` ends the call.  What the failure handler wrote before is
committed; one caller gives the payment back before the handler runs, and then
the checkout stays marked as being completed (`PrepareStops`).  `refused`
remembers such payments.

Left out: checkouts with a total of zero, which need no payment
(`complete_checkout.py:1670`); captures and refunds of a part of a payment; a
refund or void that is answered with a status of another kind; what a gateway
notifies while the checkout is open (so an ongoing refund stays ongoing); and a
crash *inside* the charging transaction (the gateway has charged, the database
forgets it).

`ImplementsPurchase` says that all this implements `Purchase`, under the mapping
`Ordered` (checkouts whose row is gone), `captured` (what is held of a payment)
and `Disturbed`: a checkout is ordered once; money is taken and given back only
before that; what is given back is all that is held; and what is held is taken
again only of a disturbed payment, one whose checkout two workers completed at a
time or whose worker died, or whose refund was refused or is under way.  That a
payment of a quiet checkout is captured once is thus a consequence of every
failure path giving it back, not of the definition of a capture.

`contested` and `abandoned` are history variables: checkouts that two workers
completed at a time, and checkouts whose worker died between transactions.
Properties that the code gives up in those cases, or in those of `refused`, name
them; the rest do not.

### TransactionAmounts

`events` are the rows, `amounts` the columns, `proc` the workers inside a
mutation.  Looking up an existing event, inserting, reading all events and
saving the amounts are separate actions, because no lock spans them.  An event
type is a pair, `<<"charge", "success">>` being `CHARGE_SUCCESS`.  `Calculated`
follows `recalculate_transaction_amounts` with its maps per psp reference, its
treatment of events without one, and its rule that the newest of success and
failure wins; `Late` lets a report carry an earlier time.  `created_at` differs
between any two events.  `raced` remembers that two workers had the transaction
at a time, `known` which reports were answered with `alreadyProcessed`, and
`unsettled` that an answer was refused, its request counts all the same, and the
amounts have not been saved since.

Left out: `transactionCreate` (an update of a fresh item), `ACTION_REQUIRED` and
`INFO` events (no effect on amounts), metadata, granted refunds, and the orders
and checkouts whose status follows.  A webhook task that is retried changes
nothing until its last attempt, so `AnswerLost` stands for all of them.

### OrderFulfillment

One order.  `lines` holds `quantity` and `quantity_fulfilled`, `fulfillments`
the rows of `Fulfillment`, each with its pieces by order line and by whether the
fulfillment line names a stock; pieces that are refunded or returned before they
were fulfilled name none (`"bare"`).  `stock` and `allocation` are those of the
lines.  `captured` is the payment's `captured_amount`, `refunded` what the gateway
has paid back or agreed to pay back, `ongoing` the part of that which is under
way.

Every mutation is a `Start...` action, which loads rows into `job[w].seen` and
validates the request on them, and an action for its transaction, which writes.
What the transaction takes from the old rows and what it reads again is the
point of the model: `quantity_fulfilled` is written from the line as loaded, the
allocation is decreased under a lock, the fulfillment's status is not asked for
again.  The order's status is written by a callback after the commit, which is a
third step (`UpdateStatus`) that compares with the order object loaded in the
first.

`raced` is set when a transaction writes from rows another request has changed
since; `released` when an order's allocations were given back (cancelled,
expired); `exceeded` holds lines whose stock staff let be exceeded.

A piece costs one unit. A refund goes to the gateway from inside the
transaction. Paid at once, it leaves `captured_amount`; put off
(`REFUND_ONGOING`, which the code takes for a success), it does not, so the next
request is checked against an amount that does not show it (`postponed`). The
gateway later notifies that it is through (`RefundSettled`) or has failed
(`RefundFailed`), of any part of what is under way; the handlers are those of
`payment/gateways/adyen/webhooks.py`. A request that raises, because the gateway
or a check refuses say, leaves nothing (`Fail`). When the request is rolled back
after the gateway has agreed, the money is on its way and the rows do not know
(`RefundLost`, `unbooked`).

Left out: draft orders, adding and deleting lines, digital and gift card lines,
the draft order that replaces pieces, amounts and shipping costs set by hand,
several payments, transactions in place of payments; a notification about a
refund that was rolled back, which would bring `captured_amount` in line again,
and the failure of a refund that was settled.  A transaction is one step.

### WebhookDelivery

`row` is the status of an `EventDelivery`, `hook` that of its webhook, `content`
that of its payload; `toSend` holds tasks whose rows are committed and which
nobody has queued yet, `queue` the broker, `job` the workers.  The task of an
asynchronous event (`send_webhook_request_async`) and that of a transaction
request (`handle_transaction_request_task`) go through the same stages but
differ in the failure paths: who writes the failure, who clears, what follows
the last retry. A task is acknowledged when it is taken, so `Die` loses it, and
`lost` remembers its delivery.  `ManualRetry` starts a second task for the row.
Webhooks are switched off and deleted, and payloads deleted as too old, at any
time.

Left out: synchronous webhooks without a stored delivery, SQS and Pub/Sub,
observability events, a request whose event row is missing, unknown URL schemes,
an inactive plugin.

### PromotionPrices

A request writes what it changes and leaves the marks it still has to make in
`todo`; `GoOn` makes them, `Forget` is the process that dies first.  The four
beat tasks - `handle_promotion_toggle`, the clearing task it queues,
`update_variant_relations_for_active_promotion_rules_task` and
`recalculate_discounted_price_for_products_task` - are `Toggle`,
`ClearVariants`, `UpdateVariants` and `Recalculate`, each transaction by
transaction, and any worker may run any of them while another runs the same one.
`now` is the clock.

A rule's variants are cleared by the time the clearing task started at, not by the
time it gets to it (`since` of a job, `ExpiredBy`).  A task writes the price it
found, so a price can be above the undiscounted one that a request has lowered
meanwhile, until the next recalculation; `QuietPricesRight` says that it does
not stay so.

`missed` records a mark set between a task's reading and its clearing it (the
mark is lost with it) and a process that died where nothing repeats its work;
`crossed` the products whose price a recalculation found, or a request set,
before another recalculation was done with them; `withdrawn` that a request
ended a promotion itself.

Left out: batches, the lag of the database replica, percentages, several
channels, order promotions and gift rewards, webhooks.

### GiftCards

A completion goes through the looks at the cards that `complete_checkout.py`
takes: the total is computed from balances read without a lock, the cards are
checked, and `add_gift_cards_to_order` locks and spends them, in the order of
their codes.  The two flows do the first two on different sides of each other.
`giftCardUpdate` loads a row, and saves the whole row later; its event is a
further step.  A card comes from staff (`Issue`, with an event that states its
balance) or from an order line that is fulfilled (`Buy`, whose `BOUGHT` event
names the order and the expiry date but no balance: the events explain the
balance of such a card only from what was paid for it, `bought`).  The cards
there are at first come from staff.  `Nightly` is `deactivate_expired_cards_task`.  `raced` holds
cards that were spent or edited while an edit of them was under way.

Left out: resetting a balance to zero, deleting a card, changes of the expiry
date, tags and notes, several currencies, shipping vouchers.

## 3. What TLC checks

| Run | Question | Result |
|---|---|---|
| `counters` | do counters match rows, do rows stay at or above zero, and does the recount converge? | `TypeOK`, `CounterExact`, `CountersRepaired` hold |
| `oversell` | can a stock be promised twice by orders, edits, shipping, restocking or reservations? | `NoOversell`, `NoOverReservation` hold for calls without `check_reservations` and with distinct variants |
| `flows` | two workers, both flows, one checkout, every answer of the gateway to a charge, a refund or a void | `TypeOK`, `OneOrder`, `ChargedAccounted`, `ImplementsPurchase` hold |
| `payments` | two checkouts, payment flow, retries, new payments, crashes, refunds refused or put off | `OrderIsPaid`, `UsageAccounted` hold |
| `reports` | reports, requests, answers and sessions in any order | `TypeOK`, `AmountsFollowEventsAlone`, `ReportedOnceAlone`, `PendingIsOpen` hold |
| `updates` | `transactionUpdate` after any reports, backdated ones too, and while staff request a charge | `UpdateSetsAmounts` holds |
| `orders` | two requests at a time on one order, of every kind, refunds paid at once, put off, failed or rolled back | `TypeOK`, `PiecesAddUp`, `OpenPiecesAllocated`, `NothingLost`, `StockCovers`, `RefundedWithinCharge`, `RefundedOnce`, `FulfilledIsDone` hold |
| `deliveries` | two deliveries of one payload, or a request; retries, deletions, dying workers | `TypeOK`, `PendingHasTask`, `NeverDropped`, `AttemptsBounded`, `AnsweredOnce`, `FailedIsLast`, `Settles`, `RequestSettles` hold |
| `prices` | two workers run the tasks while requests and time change promotions | `TypeOK`, `QuietPricesRight`, `DiscountOnRecord`, `Drains` hold |
| `cards` | two checkouts share two cards, issued or bought, that staff edit and switch | `TypeOK`, `HistoryExplains`, `PaidForOnce`, `ExpiredEndsOff` hold |
| `reserved` | `allocate_stocks` with `check_reservations` | `NoOversell` violated |
| `retried` | what a transaction request sends when it is retried | `SendsPayload` violated |

**Bounds.** `MaxCalls` bounds the number of calls, so a run ends.

- `Warehouse`: two stocks of one variant, so that a line can spread over both
  and two lines can meet on one; two lines, of one order (`counters`) or of two
  (`oversell`); quantities up to 2; three calls.  Every drift takes at most
  three: allocate, read for a cancellation, and a call in between.  `counters`
  has two unlocked transactions, so that a recount races a cancellation and
  another recount.  `oversell` uses sorting by warehouse with a collection
  point, so the order in which stocks are tried matters; the other strategy is
  in the other runs.
- `CheckoutCompletion`: two workers suffice for a race on one row; two payments
  of one checkout let the older be deactivated; six calls allow an attempt, its
  failure or crash, a new payment and two further attempts.  `UsageLimit` is 1
  so that the limit is met.
- `TransactionAmounts`: two references and two amounts tell "same event", "same
  reference with another amount" and "other event" apart.  `reports` takes four
  calls: a request, its answer and two reports, in any order, or two requests
  and their answers.  Its two workers meet in the first two calls only
  (`MaxCrowded`); the properties promise nothing of a transaction after that but
  its types.  `updates` takes three calls, of which the second may come from
  another worker while the first is served.
- `OrderFulfillment`: one line of two pieces, so that a piece can be in one
  place and its neighbour in another; three fulfillments, as many as two pieces
  and a refund of neither can be spread over; four writing requests.  Two
  requests are under way at a time for the first two of them (`MaxCrowded`), and
  then one after the other, so what a race has left behind meets every later
  request.  `Promised` is 1, so that stock of other orders is there to be taken
  by mistake; `AutoConfirm` is `FALSE`, so that orders pass through all their
  statuses.  The proofs cover every other choice.
- `WebhookDelivery`: one retry by the task and one by hand, so that the two
  race; two deliveries of one payload, so that one clears what the other still
  needs; `MaxEvents` is 1, so the run covers the two deliveries and the request
  apart from each other, which never share a row.
- `PromotionPrices`: two rules on a product, of which one discount exceeds its
  price; two requests or crashes, two ticks' worth of dates (`MaxTime` is 1: a
  promotion can start, end or do neither), two workers.  `Predicates` has one
  set, since a rule that selects another product leaves this one alone.
- `GiftCards`: two checkouts of price 3 and two cards of face value 2, so one
  card is not enough and two are too much; one checkout has a voucher; five
  requests.

**Symmetry** is used on workers, psp references and fulfillments, in runs of
safety properties only; nothing compares them.

**Fairness.**

- `counters`: `WF(Commit(w))`, a transaction that has begun ends, or its process
  dies (`Crash`); `WF(Recount)`, celery beat runs
  `update_stocks_quantity_allocated_task` every night (`settings.py:615`).
- `deliveries`: the caller goes on to queue what it stored, the broker delivers
  what it has, and a request ends at its timeout, so a worker goes on unless it
  dies. `Die` competes with each of these and is never forced.
- `prices`: requests go on to make their marks, and while a task can be started
  or gone on with some worker does it.  No worker and no task is favoured.
- `cards`: celery beat runs `deactivate_expired_cards_task` every night.

Nothing is assumed of callers, apps or staff anywhere.

**Deadlock** is checked in `prices`, where every state has a task to go on with
or is the end of time with nothing to do (`Pause`).  It is not checked
elsewhere: a system that nobody calls may rest, and the bound on calls makes
every behaviour end in such a state.

## 4. What TLAPS proves

| Theorem | For every value of the constants |
|---|---|
| `QuantitiesProofs!SpreadBounds` | the greedy loop takes from a row no more than it has and no more than is needed, and what it takes still fits in the need after all that earlier rows offered |
| `QuantitiesProofs!SpreadTotal` | in all it takes what is needed, or all there is |
| `WarehouseProofs!StockInvAlways` | the inductive invariant below |
| `WarehouseProofs!CounterExactAlways` | `Spec => []CounterExact` |
| `WarehouseProofs!TypeOKAlways` | `Spec => []TypeOK`; no allocation row goes below zero |
| `WarehouseProofs!NoOversellAlways` | `Spec => NoOversell`, an action property, where reservations are not checked |
| `WarehouseProofs!OversoldByWhom` | where they are checked: only the merchant and calls that check them take a stock further beyond its quantity |
| `WarehouseProofs!NoOverReservationAlways` | `Spec => NoOverReservation`, an action property, for checkouts with distinct variants |
| `CheckoutCompletionProofs!OneOrderAlways` | `Spec => []OneOrder` |
| `CheckoutCompletionProofs!PurchaseImplemented` | `Spec => ImplementsPurchase`: ordered once, money left alone after that, captured again only when something disturbed the payment |
| `CheckoutCompletionProofs!CompletionTypeOKAlways` | `Spec => []TypeOK`: the voucher's counter does not fall below zero |
| `CheckoutCompletionProofs!ChargedAccountedAlways` | `Spec => []ChargedAccounted`, for both flows, over refused and late refunds |
| `CheckoutCompletionProofs!OrderIsPaidAlways` | `Spec => []OrderIsPaid` without the transaction flow, for every accepting answer |
| `CheckoutCompletionProofs!UsageAccountedAlways` | `Spec => []UsageAccounted` without the transaction flow and the answer `"cancelled"` |
| `TransactionAmountsProofs!ReportedOnceAlways` | `Spec => []ReportedOnceAlone` |
| `TransactionAmountsProofs!AmountsFollowAlways` | `Spec => []AmountsFollowEventsAlone` |
| `TransactionAmountsProofs!PendingIsOpenAlways` | `Spec => []PendingIsOpen` |
| `TransactionAmountsProofs!TransactionTypeOKAlways` | `Spec => []TypeOK`: keys are given out once, amounts are integers and not negative where they are cut |
| `TransactionAmountsProofs!UpdateSetsAmountsAlways` | `Spec => UpdateSetsAmounts`, an action property |
| `OrderFulfillmentProofs!CoveredAlways` | the inductive invariant of stock, allocation and money |
| `OrderFulfillmentProofs!OrderTypeOKAlways` | `Spec => []TypeOK` |
| `OrderFulfillmentProofs!StockCoversAlways` | `Spec => []StockCovers`, races included |
| `OrderFulfillmentProofs!RefundedWithinChargeAlways` | `Spec => []RefundedWithinCharge`, races and refunds that are put off included |
| `OrderFulfillmentProofs!AccountedAlways` | the inductive invariant of pieces |
| `OrderFulfillmentProofs!PiecesAddUpAlways`, `OpenPiecesAllocatedAlways`, `NothingLostAlways` | the three facts about pieces |
| `OrderFulfillmentProofs!RefundedOnceAlways` | `Spec => []RefundedOnce`: no piece is paid back twice |
| `OrderFulfillmentProofs!FulfilledIsDoneAlways` | `Spec => []FulfilledIsDone`: the status never hides open pieces |
| `WebhookDeliveryProofs!TrackedAlways`, `SingleAlways` | the two inductive invariants below |
| `WebhookDeliveryProofs!DeliveryTypeOKAlways`, `PendingHasTaskAlways`, `NeverDroppedAlways`, `AnsweredOnceAlways`, `FailedIsLastAlways` | the safety properties of `deliveries` but the next |
| `WebhookDeliveryProofs!BudgetedAlways`, `AttemptsBoundedAlways` | the inductive invariant below, and `Spec => []AttemptsBounded` |
| `PromotionPricesProofs!PromotionTypeOKAlways` | `Spec => []TypeOK`: no price below zero |
| `PromotionPricesProofs!QuietPricesRightAlways` | `Spec => []QuietPricesRight` |
| `PromotionPricesProofs!DiscountOnRecordAlways` | `Spec => []DiscountOnRecord` |
| `GiftCardsProofs!GiftCardsTypeOKAlways` | `Spec => []TypeOK`: no balance below zero |
| `GiftCardsProofs!PaidAlways`, `PaidForOnceAlways` | the inductive invariant below, and `Spec => []PaidForOnce` |
| `GiftCardsProofs!HistoryExplainsAlways` | `Spec => []HistoryExplains` |

They rest on the named assumptions of the modules (`StocksAssumption`,
`LinesAssumption`, `ChannelAssumption`, `BoundsAssumption`,
`CheckoutsAssumption`, `TransactionAssumption`, `OrderAssumption`,
`DeliveryAssumption`, `PromotionAssumption`, `CardsAssumption`,
`PriceAssumption`, `FaceAssumption`, `FlowAssumption`, `CallsAssumption`) and on
nothing else; TLC evaluates those in every run.

*Quantities.*  The library's induction rules take an operator, which none of the
provers can instantiate, so facts about sums and about the greedy loop are
reached by a least counterexample, or go back to `TotalOfOneChange`.  For finite
sets `SubsetInduction` says the same of a *set* of subsets, which can be
instantiated; `FoldIsSum` follows from it, and with it what `MapThenSumSet` of
the community modules computes.

*Warehouse.*  The invariant is `StockInv`: the types (which include what an
unlocked read left in `job`), `CounterExact`, and `AllocatedFromOwnVariant` (a
line is served only from stocks that exist and have its variant), carried along
by the same lemmas.  `CounterExact` needs the types: the amount that leaves a
counter must not exceed the row it leaves, or the row would not be a natural
number.  Every call that moves rows gives some and takes some (`RowsMove`);
`Changes` adds the deciding row of a stock to its counter; where at most one
line touches a stock the deciding row is the whole change, and where more do the
stock is put in `drifted`.  `NoOversell` and `NoOverReservation` follow step by
step from the types.  When no two lines of a call have one variant, one line at
most takes pieces of a stock (`TakenByOne`), and no more than are free, so a
stock that gives anything ends within its quantity (`GivenFree`); everything
else takes rows away (`LessAllocated`).  `Careful` says what that rests on:
`allow_stock_to_be_exceeded` is off (it is asked for by the merchant), and no
call has two lines of one variant (see *Stock* below).  With
`check_reservations` on, which is what completing a checkout passes,
`allocate_stocks` is the finding `reserved`; `NoOversellAlways` therefore covers
instances without such calls (draft orders on a site without reservations, and
`increase_allocations`), and `OversoldByWhom` says of all others that the fault
stays there: no edit, shipment, restocking, cancellation or recount adds to it.
`NoOverReservation` needs distinct variants only; its reservations are `free` of
what other checkouts hold, of which the part that is not replaced stays as it
was (`ReserveFree`).

*CheckoutCompletion.*  `OneOrder` is inductive with the shape of `proc`
(`ProcOK`) and the types of the rows (`OrderRows`): both actions that place an
order find the checkout there, under its lock, and remove it in the same step.
`MoneyInv` adds what `ChargedAccounted` needs: the types, that the payment a
worker has in hand is of its checkout and is there after the first transaction
(`Held`), and that the checkout of a worker in its first transaction exists
(`Locked`), which holds because an order can be placed only when nobody holds
that lock.  Without `Locked` a failing first transaction could refund the
payment of an order.  An answer that captures leaves its worker holding a
payment it saw as charged (`AcceptedMoney`, `InHand`); each way out of that stage
(`StepMoves`) makes an order, gives the money back, puts that off or is refused
(`TakenBack`): `ChargedAccounted`.  The refinement rests on the same invariant
and one fact more: where no two workers have met, a worker is the only one at its
checkout (`Alone`).  A capture of money that is held is then `Disturbed`,
because by `ChargedAccounted` somebody else would have that money in hand
(`NotTwice`).

The counter is given back by whoever sees the flag set.  A worker that prepares
sees it as it is (`Fresh`), because nobody else prepares the checkout under its
lock (`Sole`), and a flag that is set was counted (`Counted`); so the counter
stays a natural number.

What a worker found in one transaction still holds in the next where no other
completed the checkout (`Alone`): the payment it was told is accepted stays so
until it makes the order (`Through`, which needs that a payment is made inactive
no later than it is given back, `ActiveOK`), and the usage it counted is marked
(`Counting`).  The assumption on `Flows` is that the payment flow is alone
(`PaymentOnly`); that on `Answers`, for `UsageAccounted`, that no payment ends
inactive, the case of the second item under Findings.  The run `payments` has
the same.

*TransactionAmounts.*  The invariant has four parts.  `Tables`: keys are given
out in order, a request stays one, and what a worker has in hand is of the right
shape.  `Alone`: without a race at most one worker is busy.  `Once`: what a
worker is about to store does not clash with any event; it looked before, and
only itself stores events that may clash, while requests of staff and answers
that are lost come at any time.  `Settled`: what its job relies on, so that the
amounts are right when it has finished.  A failed session returns without a
calculation because no event that counts is about its outcome (`FailureAlone`);
a refused answer leaves the amounts right when the outcome counts already
(`OutcomeKnown`), and `unsettled` marks the rest.  For these the sums are never
computed: two calculations agree because they sum the same events (`SameSums`).
`TypeOK` and `UpdateSetsAmounts` need what a sum is.  `Ints` says that events,
columns and what workers hold are integers.  `Aimed` follows one
`transactionUpdate`: while it stores its adjustments, those still to be stored
take the amounts calculated from the stored events to its target; once all are
stored the calculation hits the target, and what it calculated is what it saves;
a report or a request in between would miss that, and is a race.

*OrderFulfillment.*  `Covered` adds to the types of the rows what every job may
ask for (`JobOK`: a request about a fulfillment loaded one whose status allowed
it, and asks for no more pieces than it had).  It does not mention `raced`, so
the stock and the money are safe whatever is written from old rows.  For the
money it holds (`MoneyOK`) what `RefundedWithinCharge` says and that nothing is
under way before the first refund is put off: from then on a request is checked
against a `captured_amount` that does not show what was agreed to, and only the
account of that column remains true.  The facts
about pieces do need fresh rows: `Accounted` is `Covered` with `JobsFresh`
(while nothing has raced, a job whose rows are unchanged has them as they are)
and `Balanced` (the three sums that have to stay equal).  Each operation has one
lemma, and under it one step per sum.  `RefundedOnce` goes by what each
operation adds to the pieces in settled fulfillments (`SettledIn`) and to those
paid back.  `Finished` is the invariant of `FulfilledIsDone`: the status is
derived from totals, and a total of fulfilled pieces that equals the total of
pieces means that each line is done because no line has more fulfilled than it
has (`Balanced` again); an edit comes only before the order is confirmed
(`Unconfirmed`), and a fulfillment that waits for approval has pieces
(`WaitingHeld`).

*WebhookDelivery.*  `Tracked` says which rows, payloads and tasks belong
together (`Stored`, `Numbered`, `Finished`, `Approved`); `PendingHasTask` and
`NeverDropped` follow.  `Single` adds that no two tasks run for one trigger
(`Alone`), that tasks are of their delivery's kind (`Kinds`), and what an
answered request leaves behind (`Asked`); `AnsweredOnce` and `FailedIsLast`
follow from it.  `Budgeted` bounds attempts by a set: each trigger has one
attempt to spend for each number of retries, and `Used` are those its task has
spent or will never spend.  An attempt puts one more pair into that set, a task
that ends or is lost gives the rest away.

*PromotionPrices.*  Nothing says when the marks are worked off, so the invariant
accounts for what is still to come.  `PricesRight`: the price of a product is
that of the active rules that have it, *or* an item, a task, a rule's mark or
queued clearing will have the product marked, *or* its listing is marked, *or* a
date has passed that nobody has noticed.  `VariantsRight` says the same of a
rule's variants and its predicate.  A step takes one of these reasons away only
by supplying another; a task that is overtaken by a mark it is going to clear is
told apart by `stale`.  What tasks rely on is in `Known` (rules they mention
were created, what they saw is not in the future), `Covered` (a task that
replaces variants will mark the old and the new) and `ClearsExpired` (variants
are taken only from rules that have ended).  At rest no reason is left, and
`QuietPricesRight` follows.

`RowsRight` is about who writes: outside `crossed` one task has a product in
hand, what it is going to write is the difference of the two prices, other rules
have no row where the price changes, and whether the winner has a row is as that
task has seen it.  `RecordsRight` is the account of what is to come for the
records of discounts.  While this was proved, the earlier definition of
`crossed` turned out too narrow: a request that sets a price between the two
steps of a recalculation makes it write a discount that is not the difference of
the prices.  The bounds of the run (one price, two calls) had kept that from
TLC; the definition now has it.

*GiftCards.*  The types need that a job's card was issued (`Grounded`).  `Paid`
weighs a completion under way: the total it computed and what its cards still
hold are at most the price when nothing was added to them since (`NoGain`), and
at least what is asked when nothing was taken (`NoLoss`).  Spending keeps both
sides of that, `SpreadTotal` being what says how much the cards give.
`Explained` is `HistoryExplains` with what an edit has saved and not yet logged,
and `Unissued` says that a card that is not there yet has no events and was not
bought, so that the first event of any card starts from what it was bought for.

Only model-checked: the liveness properties (`CountersRepaired`, `Settles`,
`RequestSettles`, `Drains`, `ExpiredEndsOff`): their fairness needs `ENABLED`,
which the prover does not have.  Every other property of the passing runs is
stated by a theorem above.
Larger instances (two lines, two products, three workers, up to ten calls) were
also searched at random, which is how the exemptions of `unsettled` and of cut
lines were found.

## 5. Findings

Each is a violation run, with the line of the repository it contradicts in
`PROJECT.json`.

- `reserved`: the generator `stocks_id` (`warehouse/management.py:94`) is used
  up by the first query, so existing allocations count as zero and pieces that
  are allocated are allocated again.
- `retried`: a transaction request that failed saves its payload to a file
  although it is in one already (`webhook/transport/utils.py:466`); the text it
  is saved from is empty, so the retry sends an empty body.

Further disagreements are stated in the modules as properties that no run
checks, each with the lines it is about:

- `CheckoutCompletion!CountedOnce` (`checkout/complete_checkout.py:137`): the
  transaction flow reads the flag that guards the voucher counter from a
  checkout it loaded without a lock, so two workers count one checkout twice.
- `UsageAccounted` with the answer `"cancelled"`
  (`checkout/complete_checkout.py:1698`): a payment that ends inactive clears
  that flag and leaves the usage; the retry counts again.
- `CheckoutCompletion!HoldOnlyDuringCompletion`
  (`checkout/complete_checkout.py:1780`): the temporary reservations outlive a
  completion that ends without an order, and the uniqueness of `(checkout_line,
  stock)` then refuses the next one until the clean-up task has run.
- `TransactionAmounts!SingleEvent`
  (`graphql/payment/mutations/transaction/transaction_event_report.py:352`):
  `select_for_update` locks nothing when there is no row, so two first reports
  of one event are both stored.
- `TransactionAmounts!KnownCounts` (`payment/utils.py:1047`): a refused report
  leaves a failure event; a real failure with the same reference and amount is
  then taken for known and never counts.
- `OrderFulfillment!CanceledIsFinal` (`order/__init__.py:29` calls a canceled
  order permanently canceled): `graphql/order/mutations/order_fulfill.py:213`
  does not ask for the status, and fulfilling a canceled order gives it another.
- `PromotionPrices!MarkedIsRecalculated`: `promotionUpdate` marks the rules of a
  promotion it ends, and `product/tasks.py:174-183` looks at active promotions
  only, so the discount stays until something else changes the price.

Seen while modelling, without a property:

- *Stock.*  Two lines of one variant in one call are given the same free pieces
  (`SharedVariant = TRUE` breaks `NoOversell`).
- *Completion.*  The usage limit of a voucher is read before its row is locked,
  so two checkouts can both take the last use; a *declined* payment
  (`ChargeFails`) keeps the voucher usage with the checkout until a retry; the
  transaction flow goes on without a voucher that ran out between its two
  lookups; a payment that is deactivated after the completion lock lapsed may be
  charged already.  When the gateway refuses to give a payment back nobody tries
  again unless the customer does, and a retry that is accepted captures the
  payment once more, `captured_amount` and all (`payment/gateway.py:256`,
  `payment/utils.py:572`); where the refusal comes before the failure handler
  (`checkout/checkout_cleaner.py:94`) the checkout also stays marked as being
  completed.  Money captured again over a refund that is under way is nobody's:
  `FinishRefunding` makes no order and gives nothing back
  (`checkout/complete_checkout.py:1063`).  An order may stand on a payment that is
  only authorised, confirmed or pending.
- *Transactions.*  Of two concurrent reports the older calculation can be saved
  last (`raced`).  A request counts from the moment it is answered; if the
  answer is then refused (`payment/utils.py:1328`) the amounts are not
  calculated, and they lack the request when all that is known of its outcome is
  the record of a refused report (`unsettled`).  `transactionProcess` takes the
  first uncounted charge request for its session's, also one that
  `transactionRequestAction` made and that is about to be answered
  (`graphql/payment/mutations/transaction/transaction_process.py:119`).  A newer
  adjustment hides the success of an authorization but not a later request of
  it, which then stays pending.  Updating the authorized amount after a charge with a psp
  reference ends lower than asked.
- *Orders.*  A refund the gateway has put off does not lower `captured_amount`, so
  the check "Cannot refund more than captured." (`payment/gateway.py:531`) lets
  further refunds through, together more than was paid (`postponed`); a return
  that is rolled back after its refund (`order/actions.py:1889`) leaves a refund
  without a record (`unbooked`).  The `save()` of a withdrawn fulfillment (`order/actions.py:831`)
  inserts a row again that another request deleted; cancelling a fulfillment
  does not ask for its status again (`:758`), and one of a refunded fulfillment
  restocks pieces that never left; returning or refunding lines that wait for
  approval never gives back their allocation (`:1442`); an order is expired
  without asking again whether it was paid (`order/tasks.py:159`); the status of
  an order goes by its totals (`order/utils.py:138`), so a line cut below what it
  has shipped hides the open pieces of another.
- *Webhooks.*  A request whose webhook is switched off when its task runs never
  gets an event, not even a failure
  (`webhook/transport/synchronous/transport.py:71`: what `skipped` exempts in
  `RequestSettles`).  When the last of several deliveries clears a payload its
  file stays (`webhook/transport/utils.py:440`).
- *Prices.*  Of two recalculations at a time the slower brings the discount of
  an expired rule back on record, where it stays until the price changes, or
  takes the row of the right one away when a request has set the price between
  its two steps (`crossed`); the result of the filter at `product/utils/variant_prices.py:62`
  is not used.
- *Gift cards.*  `giftCardUpdate` saves the row it loaded, over what was spent
  since (`raced`); a card that is switched off or expires after validation is
  spent all the same (`order/utils.py:453`), and in the transaction flow, which
  computes the total after it, spent without being counted; a voucher for the
  entire order is taken off twice where cards are asked how much is left
  (`checkout/complete_checkout.py:598`, `:1365`: what `Asked` models).

## 6. Plan

What is left, most important first:

1. **Preorders and availability** in `Warehouse`'s shape, and `Spread` compared
   with the code's loop over bounded inputs.
2. **Composition**: `CheckoutCompletion` with its stock answers from `Warehouse`
   and its cards from `GiftCards`, once each is small enough; an abstract
   specification of `Warehouse` (promises against stock) beside `Purchase`,
   which `OrderFulfillment` then uses too.
3. **Checkout editing** under a completion, and granted refunds.
4. Order promotions, several channels and percentages in `PromotionPrices`.

Hazards that no property covers, and why: the two stale reads of
`warehouse/management.py:128` and `payment/utils.py:1047`, the voucher limit at
`checkout/utils.py:633`, the refund that is rolled back at `order/actions.py:1889`, the requests at
`graphql/payment/mutations/transaction/transaction_request_action.py:92` and the
expiry at `order/tasks.py:159` are places where the code promises nothing; the
models have their behaviours, and there is no property of them to hold.

## 7. Not modelled

- *Stock availability* is read-only; completion takes either answer, and the
  functions that lock and allocate ask again.
- *Checkout editing* is mostly validation; the voucher lookup and
  `cancel_active_payments` are in `CheckoutCompletion`.
- *Observability* is a capped list, pushed and popped in one pipeline each.
- *Login throttling* and *tokens* are security controls, left out of this
  development.
- *Schedulers*: the models take from them only that a task runs again.
- *Calculations and taxes* are decimal arithmetic and calls to tax apps; *search
  vectors* derived text; *export and invoices* files; *plugins* dispatch without
  state of its own; the *GraphQL API* schema, permissions and resolvers.  They
  make up most of the source.
