-------------------------- MODULE OrderFulfillment --------------------------
(***************************************************************************)
(* What happens to one order: saleor/order/actions.py, order/utils.py,     *)
(* order/tasks.py and the mutations under graphql/order/mutations that     *)
(* call them.                                                              *)
(*                                                                         *)
(* A mutation first loads the rows it needs and validates the request on   *)
(* them; its transaction then writes, partly from what was loaded.  The    *)
(* first part is a Start... action, which leaves the loaded rows in        *)
(* job[w].seen, the transaction another.  What a transaction reads again   *)
(* it reads in its own step.  Callbacks that run after the commit          *)
(* (order_fulfilled, order_returned) are a third step, UpdateStatus.       *)
(*                                                                         *)
(* Every line has its own variant, with one stock; a piece costs 1.  A row *)
(* of Fulfillment counts its lines' pieces by order line and by whether    *)
(* they name a stock: pieces that are refunded or returned without having  *)
(* been fulfilled name none ("bare").  Left out: draft orders and adding   *)
(* or deleting lines, amounts and shipping costs set by hand, digital      *)
(* lines and gift cards, the draft order that replaces pieces, and the     *)
(* empty RETURNED row beside a replacement.                                *)
(***************************************************************************)
EXTENDS Quantities, FiniteSetsExt

CONSTANTS
  Lines,
  Slots,         \* keys of Fulfillment rows
  Workers,       \* web processes and Celery workers
  Ordered,       \* pieces ordered of each line
  InStock,       \* pieces in each stock in the beginning
  Promised,      \* pieces of each stock allocated to other orders
  Charge,        \* what is paid for the order
  AutoConfirm,   \* channel.automatically_confirm_all_new_orders
  MaxCalls,      \* bound on the number of requests that write
  MaxCrowded     \* bound on the number written before requests come alone

ASSUME OrderAssumption ==
  /\ {Ordered, InStock, Promised, Charge, MaxCalls, MaxCrowded} \subseteq Nat
  /\ Ordered + Promised <= InStock
  /\ AutoConfirm \in BOOLEAN
  /\ IsFiniteSet(Lines)
  /\ IsFiniteSet(Slots)
  /\ "none" \notin Slots

VARIABLES
  status,        \* Order.status
  lines,         \* OrderLine: quantity and quantity_fulfilled
  fulfillments,  \* Fulfillment rows with their lines
  stock,         \* Stock.quantity
  allocation,    \* what the order's lines have allocated
  captured,      \* Payment.captured_amount
  refunded,      \* what the gateway has paid back or has agreed to
  ongoing,       \* the part of it that is still under way (REFUND_ONGOING)
  postponed,     \* history: the gateway has put off a refund
  unbooked,      \* history: a refund was agreed to, its transaction not committed
  job,           \* requests between loading and writing
  raced,         \* history: a request wrote after others had since it loaded
  released,      \* history: the order has been canceled or has expired
  exceeded,      \* history: lines fulfilled although the stock was short
  calls          \* requests that have written

money == <<captured, refunded, ongoing, postponed, unbooked>>
rows == <<status, lines, fulfillments, stock, allocation, money>>
vars == <<rows, job, raced, released, exceeded, calls>>

Statuses ==
  {"unconfirmed", "unfulfilled", "partially fulfilled", "fulfilled",
   "partially_returned", "returned", "canceled", "expired"}

FulfillmentStatuses ==
  {"fulfilled", "refunded", "returned", "refunded_and_returned", "replaced",
   "canceled", "waiting_for_approval"}

Kinds == {"stocked", "bare"}
Pieces == Lines \X Kinds

NoTake == [l \in Lines |-> 0]
NoPull == [p \in Pieces |-> 0]
NoRow == [status |-> "none", pieces |-> NoPull]

Idle == [op |-> "idle"]
Busy == {w \in Workers : job[w] # Idle}
Requested == {w \in Busy : job[w].op # "callback"}

Unfulfilled(line) == line.quantity - line.quantity_fulfilled

-----------------------------------------------------------------------------
(* order/utils.py: update_order_status.                                    *)

\* Pieces per line, whether they name a stock or not.
ByLine(pieces) == [l \in Lines |-> pieces[<<l, "stocked">>]
                                     + pieces[<<l, "bare">>]]

\* Pieces of a line in the fulfillments with some statuses.
PiecesIn(fs, ss, l) ==
  Total([f \in Slots |->
           IF fs[f].status \in ss THEN ByLine(fs[f].pieces)[l] ELSE 0])

\* Fulfillment.get_total_quantity, added up over those fulfillments.
Count(fs, ss) == Total([l \in Lines |-> PiecesIn(fs, ss, l)])

\* (mutant) fulfillments that wait for approval are forgotten.
AwaitsApproval_never(fs) == FALSE

AwaitsApproval(fs) == \E f \in Slots : fs[f].status = "waiting_for_approval"

\* The status that the lines and fulfillments call for.  Pieces that were
\* replaced count as if they had not been ordered.
Derived(old, ls, fs) ==
  LET replaced == Count(fs, {"replaced"})
      returned == Count(fs, {"returned", "refunded_and_returned"})
      total == MapThenSumSet(LAMBDA l : ls[l].quantity, Lines) - replaced
      done == MapThenSumSet(LAMBDA l : ls[l].quantity_fulfilled, Lines)
                - replaced
  IN  CASE total = 0 -> old
        [] total # 0 /\ done <= 0 -> "unfulfilled"
        [] total # 0 /\ done > 0 /\ 0 < returned /\ returned < total ->
             "partially_returned"
        [] total # 0 /\ done > 0 /\ returned = total -> "returned"
        [] OTHER -> IF done < total \/ AwaitsApproval(fs)
                    THEN "partially fulfilled" ELSE "fulfilled"

-----------------------------------------------------------------------------
(* Requests: loading and validating.                                       *)

\* A request that loaded the order and, if it is about one, a fulfillment.
Loaded(op, at, take, pull, opts) ==
  [op |-> op, at |-> at, take |-> take, pull |-> pull, opts |-> opts,
   seen |-> [status |-> status, lines |-> lines, captured |-> captured,
             row |-> IF at \in Slots THEN fulfillments[at] ELSE NoRow],
   stale |-> FALSE]

Request(w, op, at, take, pull, opts) ==
  /\ job[w] = Idle
  /\ calls + Cardinality(Requested) < MaxCalls
  /\ Busy = {} \/ calls < MaxCrowded
  /\ job' = [job EXCEPT ![w] = Loaded(op, at, take, pull, opts)]
  /\ UNCHANGED <<rows, raced, released, exceeded, calls>>

\* Unfulfilled pieces of order lines that may be named in a request, and
\* pieces of one line of a fulfillment.
Takes == {t \in [Lines -> 0 .. Ordered] :
            /\ t # NoTake
            /\ \A l \in Lines : t[l] <= Positive(Unfulfilled(lines[l]))}
Pulls(f) == UNION {{[NoPull EXCEPT ![p] = n] :
                      n \in 1 .. fulfillments[f].pieces[p]} : p \in Pieces}

\* OrderFulfill asks for no status of the order.
StartFulfill(w) ==
  \E take \in Takes, opts \in SUBSET {"approved", "exceed"} :
    Request(w, "fulfill", "none", take, NoPull, opts)

StartApprove(w) ==
  \E f \in Slots, opts \in SUBSET {"exceed"} :
    /\ fulfillments[f].status = "waiting_for_approval"
    /\ Request(w, "approve", f, NoTake, NoPull, opts)

\* FulfillmentCancel: a warehouse is required unless approval is awaited.
StartCancelFulfillment(w) ==
  \E f \in Slots :
    /\ fulfillments[f].status \notin {"none", "canceled"}
    /\ Request(w, IF fulfillments[f].status = "waiting_for_approval"
                  THEN "withdraw" ELSE "restock",
               f, NoTake, NoPull, {})

\* A request for unfulfilled pieces or for pieces of a fulfillment.
ForPieces(w, op, allowed, opts) ==
  \/ \E take \in Takes : Request(w, op, "none", take, NoPull, opts)
  \/ \E f \in {g \in Slots : fulfillments[g].status \in allowed} :
       \E pull \in Pulls(f) : Request(w, op, f, NoTake, pull, opts)

StartRefund(w) ==
  /\ captured > 0
  /\ ForPieces(w, "refund",
               {"fulfilled", "returned", "waiting_for_approval"}, {"refund"})

StartReturn(w) ==
  \E opts \in {{}, {"replace"}, {"refund"}} :
    /\ "refund" \in opts => captured > 0
    /\ ForPieces(w, "return",
                 {"fulfilled", "refunded", "waiting_for_approval"}, opts)

\* Order.can_cancel
StartCancel(w) ==
  /\ status \notin {"canceled", "expired"}
  /\ \A f \in Slots :
       fulfillments[f].status \notin {"fulfilled", "waiting_for_approval"}
  /\ Request(w, "cancel", "none", NoTake, NoPull, {})

StartConfirm(w) ==
  /\ status = "unconfirmed"
  /\ Request(w, "confirm", "none", NoTake, NoPull, {})

\* OrderLineUpdate of one line; take holds the quantities wanted.
StartUpdateLine(w) ==
  /\ status = "unconfirmed"
  /\ \E l \in Lines : \E n \in (1 .. Ordered) \ {lines[l].quantity} :
       Request(w, "update", "none",
               [k \in Lines |-> IF k = l THEN n ELSE lines[k].quantity],
               NoPull, {})

\* expire_orders_task finds the order old enough and without payment.
StartExpire(w) ==
  /\ status = "unconfirmed"
  /\ captured + refunded = 0
  /\ Request(w, "expire", "none", NoTake, NoPull, {})

-----------------------------------------------------------------------------
(* Writing.                                                                *)

\* w commits.  What others have loaded is old from now on; next is what w
\* has left to do.
Commit(w, op, next) ==
  /\ job[w].op = op
  /\ job' = [u \in Workers |-> IF u = w THEN next
                               ELSE IF job[u] = Idle THEN Idle
                               ELSE [job[u] EXCEPT !.stale = TRUE]]
  /\ raced' = (raced \/ job[w].stale)
  /\ calls' = IF op = "callback" THEN calls ELSE calls + 1

\* A callback is registered with the order object of the request.
Callback(st) ==
  [op |-> "callback", at |-> "none", take |-> NoTake, pull |-> NoPull,
   opts |-> {}, stale |-> FALSE,
   seen |-> [status |-> st, lines |-> lines, captured |-> captured,
             row |-> NoRow]]

\* A key for a new row; one that a request still names is not used again.
NewSlot(f) ==
  /\ fulfillments[f].status = "none"
  /\ \A w \in Busy : job[w].at # f

\* (mutant) the quantity asked for is compared with the whole stock.
Short_promised(take) ==
  {l \in Lines : /\ take[l] > 0
                 /\ stock[l] < take[l]}

\* (mutant) an allocation may go below zero.
Deallocated_owing(take) == [l \in Lines |-> allocation[l] - take[l]]

\* deallocate_stock; an AllocationError leaves the allocation at 0.
Deallocated(take) == [l \in Lines |-> Positive(allocation[l] - take[l])]

\* Lines whose stock has, besides what others have allocated, less than is
\* to leave it.
Short(take) ==
  {l \in Lines : /\ take[l] > 0
                 /\ stock[l] - Promised - Deallocated(take)[l] < take[l]}

\* _decrease_stocks: the pieces leave the allocation and the stock.
DecreaseStocks(take, opts) ==
  /\ Short(take) = {} \/ "exceed" \in opts
  /\ allocation' = Deallocated(take)
  /\ stock' = [l \in Lines |-> stock[l] - take[l]]
  /\ exceeded' = exceeded \cup Short(take)

\* _increase_order_line_quantity, from the lines as loaded.
IncreasedFrom(seen, take) ==
  [l \in Lines |->
     IF take[l] = 0 THEN lines[l]
     ELSE [lines[l] EXCEPT !.quantity_fulfilled =
                             seen[l].quantity_fulfilled + take[l]]]

Decreased(take) ==
  [l \in Lines |->
     [lines[l] EXCEPT !.quantity_fulfilled = @ - take[l]]]

\* create_fulfillments; order_fulfilled follows when it is approved.
Fulfill(w) ==
  LET j == job[w]
      approved == "approved" \in j.opts
      pieces == [p \in Pieces |-> IF p[2] = "stocked" THEN j.take[p[1]] ELSE 0]
  IN  /\ Commit(w, "fulfill", IF approved THEN Callback(status) ELSE Idle)
      /\ \E f \in Slots :
           /\ NewSlot(f)
           /\ fulfillments' = [fulfillments EXCEPT ![f] =
                [status |-> IF approved THEN "fulfilled"
                            ELSE "waiting_for_approval",
                 pieces |-> pieces]]
      /\ lines' = IncreasedFrom(j.seen.lines, j.take)
      /\ IF approved THEN DecreaseStocks(j.take, j.opts)
         ELSE UNCHANGED <<stock, allocation, exceeded>>
      /\ UNCHANGED <<status, money, released>>

\* approve_fulfillment: save() writes the row as loaded, and inserts it again
\* when it has been deleted; its lines are read again.
Approve(w) ==
  LET j == job[w]
      fs == [fulfillments EXCEPT ![j.at].status = "fulfilled"]
  IN  /\ Commit(w, "approve", Idle)
      /\ DecreaseStocks(ByLine(fulfillments[j.at].pieces), j.opts)
      /\ fulfillments' = fs
      /\ status' = Derived(status, lines, fs)
      /\ UNCHANGED <<lines, money, released>>

\* cancel_waiting_fulfillment: the row is read again, and deleted whatever
\* has become of it.
Withdraw(w) ==
  LET j == job[w]
      after == Decreased(ByLine(fulfillments[j.at].pieces))
      fs == [fulfillments EXCEPT ![j.at] = NoRow]
  IN  /\ Commit(w, "withdraw", Idle)
      /\ fulfillments[j.at] # NoRow
      /\ lines' = after
      /\ fulfillments' = fs
      /\ status' = Derived(status, after, fs)
      /\ UNCHANGED <<stock, allocation, money, released, exceeded>>

\* (mutant) pieces go back without being allocated again.
IncreaseStocks_free(back) ==
  /\ stock' = [l \in Lines |-> stock[l] + back[l]]
  /\ allocation' = allocation

\* (mutant) pieces are allocated again without going back.
IncreaseStocks_lost(back) ==
  /\ stock' = stock
  /\ allocation' = [l \in Lines |-> allocation[l] + back[l]]

\* increase_stock for each line, with allocate.
IncreaseStocks(back) ==
  /\ stock' = [l \in Lines |-> stock[l] + back[l]]
  /\ allocation' = [l \in Lines |-> allocation[l] + back[l]]

\* cancel_fulfillment with restock_fulfillment_lines.
Restock(w) ==
  LET j == job[w]
      back == ByLine(fulfillments[j.at].pieces)
      after == Decreased(back)
      fs == [fulfillments EXCEPT ![j.at].status = "canceled"]
  IN  /\ Commit(w, "restock", Idle)
      /\ fulfillments[j.at] # NoRow
      /\ IncreaseStocks(back)
      /\ lines' = after
      /\ fulfillments' = fs
      /\ status' = Derived(status, after, fs)
      /\ UNCHANGED <<money, released, exceeded>>

\* The pieces of the source row after _move_fulfillment_lines_...: written
\* from what was loaded, unless the line has been deleted since.
LeftIn(pieces, j) ==
  [p \in Pieces |-> IF j.pull[p] = 0 \/ pieces[p] = 0 THEN pieces[p]
                    ELSE j.seen.row.pieces[p] - j.pull[p]]

\* Fulfillments without lines are deleted, of two statuses.
Swept(fs) ==
  [f \in Slots |-> IF /\ fs[f].status \in {"fulfilled", "waiting_for_approval"}
                      /\ fs[f].pieces = NoPull
                   THEN NoRow ELSE fs[f]]

\* (mutant) pieces are moved without leaving where they were.
MovePieces_copy(j, target) ==
  /\ \E f \in Slots :
       /\ NewSlot(f)
       /\ fulfillments' = [fulfillments EXCEPT ![f] =
            [status |-> target,
             pieces |-> [p \in Pieces |->
               j.pull[p] + IF p[2] = "bare" THEN j.take[p[1]] ELSE 0]]]
  /\ lines' = IncreasedFrom(j.seen.lines, j.take)
  /\ allocation' = Deallocated(j.take)

\* _move_order_lines_to_target_fulfillment and _move_fulfillment_lines_to_...:
\* unfulfilled pieces are deallocated and count as fulfilled, without a
\* stock; others keep the stock they name.
MovePieces(j, target) ==
  /\ \E f \in Slots :
       /\ NewSlot(f)
       /\ fulfillments' = Swept(
            [g \in Slots |->
               IF g = f
               THEN [status |-> target,
                     pieces |-> [p \in Pieces |->
                       j.pull[p] + IF p[2] = "bare" THEN j.take[p[1]] ELSE 0]]
               ELSE IF g = j.at
               THEN [fulfillments[g] EXCEPT !.pieces = LeftIn(@, j)]
               ELSE fulfillments[g]])
  /\ lines' = IncreasedFrom(j.seen.lines, j.take)
  /\ allocation' = Deallocated(j.take)

\* (mutant) pieces that are refunded already are counted again.
RefundAmount_again(j) == Total(j.take) + Total(j.pull)

\* _calculate_refund_amount: pieces that are refunded already are skipped.
RefundAmount(j) ==
  Total(j.take) + IF j.seen.row.status = "refunded" THEN 0 ELSE Total(j.pull)

\* The amount is cut to what was captured when the payment was loaded.
AmountAsked(j) ==
  IF "refund" \in j.opts THEN Lesser(j.seen.captured, RefundAmount(j)) ELSE 0

\* The gateway agrees to a refund, at once or later: only what is paid back
\* at once leaves captured_amount.
Agree(amount) ==
  /\ refunded' = refunded + amount
  /\ \/ /\ captured' = Positive(captured - amount)
        /\ UNCHANGED <<ongoing, postponed>>
     \/ /\ ongoing' = ongoing + amount
        /\ postponed' = TRUE
        /\ UNCHANGED captured

\* (mutant) the amount is not compared with what is captured now.
ProcessRefund_unchecked(j) ==
  IF AmountAsked(j) = 0 THEN UNCHANGED money
  ELSE /\ Agree(AmountAsked(j))
       /\ UNCHANGED unbooked

\* _process_refund: gateway.refund, which locks the payment, refuses more than
\* is captured now.  When it or the gateway refuses, nothing is moved (Fail).
ProcessRefund(j) ==
  IF AmountAsked(j) = 0 THEN UNCHANGED money
  ELSE /\ AmountAsked(j) <= captured
       /\ Agree(AmountAsked(j))
       /\ UNCHANGED unbooked

\* create_refund_fulfillment leaves the order's status alone.
Refund(w) ==
  /\ Commit(w, "refund", Idle)
  /\ ProcessRefund(job[w])
  /\ MovePieces(job[w], "refunded")
  /\ UNCHANGED <<status, stock, released, exceeded>>

\* create_fulfillments_for_returned_products: whether pieces are refunded
\* already is asked again; order_returned follows.  Copying the order for the
\* replacement reads it again.
Return(w) ==
  LET j == job[w]
      target == IF "replace" \in j.opts THEN "replaced"
                ELSE IF \/ "refund" \in j.opts
                        \/ /\ j.at # "none"
                           /\ fulfillments[j.at].status = "refunded"
                THEN "refunded_and_returned" ELSE "returned"
      known == IF "replace" \in j.opts THEN status ELSE j.seen.status
  IN  /\ Commit(w, "return", Callback(known))
      /\ ProcessRefund(j)
      /\ MovePieces(j, target)
      /\ UNCHANGED <<status, stock, released, exceeded>>

\* order_fulfilled and order_returned: update_order_status, which compares
\* with the status of the order object it is given.
UpdateStatus(w) ==
  LET old == job[w].seen.status
      new == Derived(old, lines, fulfillments)
  IN  /\ Commit(w, "callback", Idle)
      /\ status' = IF new # old THEN new ELSE status
      /\ UNCHANGED <<lines, fulfillments, stock, allocation, money, released, exceeded>>

Release(w, op, st) ==
  /\ Commit(w, op, Idle)
  /\ status' = st
  /\ allocation' = [l \in Lines |-> 0]
  /\ released' = TRUE
  /\ UNCHANGED <<lines, fulfillments, stock, money, exceeded>>

\* cancel_order, _expire_orders
Cancel(w) == Release(w, "cancel", "canceled")
Expire(w) == Release(w, "expire", "expired")

Confirm(w) ==
  /\ Commit(w, "confirm", Idle)
  /\ status' = "unfulfilled"
  /\ UNCHANGED <<lines, fulfillments, stock, allocation, money, released, exceeded>>

\* change_order_line_quantity: the allocation changes by the difference to
\* the quantity as loaded.
UpdateLine(w) ==
  LET j == job[w]
      more == [l \in Lines |-> j.take[l] - j.seen.lines[l].quantity]
  IN  /\ Commit(w, "update", Idle)
      /\ \A l \in Lines :
           more[l] > 0 => allocation[l] + more[l] <= stock[l] - Promised
      /\ allocation' = [l \in Lines |-> IF more[l] = 0 THEN allocation[l]
                                        ELSE Positive(allocation[l] + more[l])]
      /\ lines' = [l \in Lines |->
           IF more[l] = 0 THEN lines[l]
           ELSE [lines[l] EXCEPT !.quantity = j.take[l]]]
      /\ UNCHANGED <<status, fulfillments, stock, money, released, exceeded>>

\* A request raises and is rolled back, or its process dies.
Fail(w) ==
  /\ job[w] # Idle
  /\ job' = [job EXCEPT ![w] = Idle]
  /\ UNCHANGED <<rows, raced, released, exceeded, calls>>

\* The gateway agrees to a refund, and the request is rolled back after that or
\* its process dies: the rows are as if nobody had asked.
RefundLost(w) ==
  LET amount == AmountAsked(job[w])
  IN  /\ job[w].op \in {"refund", "return"}
      /\ 0 < amount /\ amount <= captured
      /\ refunded' = refunded + amount
      /\ unbooked' = TRUE
      /\ job' = [job EXCEPT ![w] = Idle]
      /\ calls' = calls + 1
      /\ UNCHANGED <<status, lines, fulfillments, stock, allocation, captured,
                     ongoing, postponed, raced, released, exceeded>>

\* The gateway notifies Saleor that refunds it had put off are through:
\* handle_refund, update_payment_charge_status.
RefundSettled ==
  \E amount \in 1 .. ongoing :
    /\ captured' = Positive(captured - amount)
    /\ ongoing' = ongoing - amount
    /\ UNCHANGED <<status, lines, fulfillments, stock, allocation, refunded,
                   postponed, unbooked, job, raced, released, exceeded, calls>>

\* It notifies that they failed: handle_failed_refund leaves the amount.
RefundFailed ==
  \E amount \in 1 .. ongoing :
    /\ refunded' = refunded - amount
    /\ ongoing' = ongoing - amount
    /\ UNCHANGED <<status, lines, fulfillments, stock, allocation, captured,
                   postponed, unbooked, job, raced, released, exceeded, calls>>

\* The order is paid: order_charged, handle_fully_paid_order.
Pay ==
  /\ captured + refunded = 0
  /\ captured' = Charge
  /\ status' = IF AutoConfirm THEN Derived(status, lines, fulfillments)
               ELSE status
  /\ UNCHANGED <<lines, fulfillments, stock, allocation, refunded, ongoing,
                 postponed, unbooked, job, raced, released, exceeded, calls>>

Init ==
  /\ status \in IF AutoConfirm THEN {"unfulfilled"}
                ELSE {"unconfirmed", "unfulfilled"}
  /\ lines = [l \in Lines |-> [quantity |-> Ordered, quantity_fulfilled |-> 0]]
  /\ fulfillments = [f \in Slots |-> NoRow]
  /\ stock = [l \in Lines |-> InStock]
  /\ allocation = [l \in Lines |-> Ordered]
  /\ captured \in {0, Charge}
  /\ refunded = 0 /\ ongoing = 0
  /\ postponed = FALSE /\ unbooked = FALSE
  /\ job = [w \in Workers |-> Idle]
  /\ raced = FALSE /\ released = FALSE /\ exceeded = {}
  /\ calls = 0

Start(w) ==
  \/ StartFulfill(w) \/ StartApprove(w) \/ StartCancelFulfillment(w)
  \/ StartRefund(w) \/ StartReturn(w) \/ StartCancel(w) \/ StartConfirm(w)
  \/ StartUpdateLine(w) \/ StartExpire(w)

Write(w) ==
  \/ Fulfill(w) \/ Approve(w) \/ Withdraw(w) \/ Restock(w) \/ Refund(w)
  \/ Return(w) \/ UpdateStatus(w) \/ Cancel(w) \/ Expire(w) \/ Confirm(w)
  \/ UpdateLine(w) \/ RefundLost(w) \/ Fail(w)

Next == Pay \/ RefundSettled \/ RefundFailed \/ \E w \in Workers : Start(w) \/ Write(w)

Spec == Init /\ [][Next]_vars

-----------------------------------------------------------------------------
(* Properties.                                                             *)

\* Every column holds what its type allows.  Allocations and the pieces of
\* fulfillments never go below zero, whatever is written from old rows;
\* quantity_fulfilled may.
TypeOK ==
  /\ status \in Statuses
  /\ lines \in [Lines -> [quantity : Nat, quantity_fulfilled : Int]]
  /\ fulfillments \in [Slots -> [status : FulfillmentStatuses \cup {"none"},
                                 pieces : [Pieces -> Nat]]]
  /\ stock \in [Lines -> Int]
  /\ allocation \in [Lines -> Nat]
  /\ captured \in Nat /\ refunded \in Nat /\ ongoing \in 0 .. refunded
  /\ postponed \in BOOLEAN /\ unbooked \in BOOLEAN
  /\ raced \in BOOLEAN /\ released \in BOOLEAN
  /\ exceeded \subseteq Lines
  /\ calls \in Nat

\* quantity_fulfilled of a line is the number of its pieces in fulfillments
\* that are not canceled, as long as no request wrote from old rows: the
\* "consistent data in order lines and fulfillment lines" that fulfilling,
\* approving, withdrawing, restocking, refunding, returning and replacing
\* each have to keep.
PiecesAddUp ==
  ~raced => \A l \in Lines :
    lines[l].quantity_fulfilled =
      PiecesIn(fulfillments, FulfillmentStatuses \ {"canceled"}, l)

\* While an order is open, what it has allocated covers its unfulfilled
\* pieces and those that wait for approval.
OpenPiecesAllocated ==
  ~raced /\ ~released => \A l \in Lines :
    Unfulfilled(lines[l]) + PiecesIn(fulfillments, {"waiting_for_approval"}, l)
      <= allocation[l]

\* A piece that has left the stock for the order is in a fulfillment that
\* neither waits for approval nor is canceled.
NothingLost ==
  ~raced => \A l \in Lines :
    InStock - stock[l] <=
      PiecesIn(fulfillments,
               FulfillmentStatuses \ {"canceled", "waiting_for_approval"}, l)

\* Whatever happens at a time, a stock has the pieces allocated to this order
\* and to others, unless staff let it be exceeded.
StockCovers ==
  \A l \in Lines \ exceeded : Promised + allocation[l] <= stock[l]

\* Whatever happens at a time, what is captured of a paid order is the charge
\* without what was paid back and is not under way any more, and no more is
\* paid back than was paid.  The second holds only until the gateway puts off
\* a refund, which captured_amount does not show; neither holds once a
\* transaction was rolled back after the gateway had agreed.
RefundedWithinCharge ==
  ~unbooked =>
    /\ \/ captured + refunded = 0
       \/ captured = Positive(Charge - (refunded - ongoing))
    /\ postponed \/ refunded <= Charge

\* No piece is paid back twice, at once or later: what was paid back or will be
\* belongs to pieces whose fulfillment cannot be refunded any more.
RefundedOnce ==
  ~raced /\ ~unbooked => refunded <= Count(fulfillments,
                              FulfillmentStatuses \ {"fulfilled", "returned",
                                                     "waiting_for_approval"})

\* A fulfilled order has nothing left to fulfil or to approve.  The status goes
\* by the totals of the order, so a line that was cut below what it had shipped
\* (the order can be edited when the task that fulfilled it died before it
\* wrote the status) hides the open pieces of another.
FulfilledIsDone ==
  ~raced /\ status = "fulfilled" /\ (\A l \in Lines : Unfulfilled(lines[l]) >= 0) =>
    /\ \A l \in Lines : Unfulfilled(lines[l]) = 0
    /\ \A f \in Slots : fulfillments[f].status # "waiting_for_approval"

\* No run checks this one: fulfilling does not ask for the order's status (see
\* the README).  "permanently canceled order" (saleor/order/__init__.py:29)
CanceledIsFinal == [][status = "canceled" => status' = "canceled"]_vars

=============================================================================
