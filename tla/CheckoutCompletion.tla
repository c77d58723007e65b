------------------------- MODULE CheckoutCompletion -------------------------
(***************************************************************************)
(* Turning a checkout into an order: saleor/checkout/complete_checkout.py. *)
(*                                                                         *)
(* complete_checkout_with_payment runs three database transactions, each   *)
(* of which locks the checkout row: Prepare, Charge, Finish.  They commit  *)
(* on errors, so a failure's clean-up is kept.  The first is two actions,  *)
(* because the voucher's usage limit is read before its row is locked.     *)
(* complete_checkout_with_transaction counts the voucher in one            *)
(* transaction and places the order in another, from a checkout it loaded  *)
(* without a lock; its transactions roll back on errors.                   *)
(*                                                                         *)
(* Stock is abstracted to the answer "enough" or "short", which may differ *)
(* between two questions; module Warehouse models how it is computed.      *)
(*                                                                         *)
(* The payment gateway is external: it may capture, authorise, confirm or  *)
(* put off a payment, or refuse it, each time it is asked, and may refuse  *)
(* to give the money back.  Amounts are counted in units of the payment's  *)
(* own amount, which is what is captured at a time.                        *)
(***************************************************************************)
EXTENDS Quantities

CONSTANTS
  Checkouts,
  Discounted,    \* checkouts that carry the voucher code
  Payments,      \* primary keys of payments
  CheckoutOf,    \* of a payment
  UsageLimit,    \* of the voucher
  Flows,         \* the flows that complete_checkout chooses from
  Answers,       \* what the gateway may answer to a charge
  Workers,       \* processes serving checkoutComplete
  MaxCalls       \* bound on the number of calls and crashes

ASSUME CheckoutsAssumption ==
  /\ IsFiniteSet(Checkouts)
  /\ Discounted \subseteq Checkouts
  /\ Payments \subseteq Nat
  /\ CheckoutOf \in [Payments -> Checkouts]
  /\ UsageLimit \in Nat \ {0}
  /\ Flows \subseteq {"payment", "transaction"}
  /\ Answers \subseteq {"captured", "authorized", "pending", "confirmed",
                        "failed", "action_required", "cancelled"}
  /\ MaxCalls \in Nat

VARIABLES
  open,        \* whether the Checkout row exists
  completing,  \* completing_started_at: "none", "recent" or "lapsed"
  increased,   \* Checkout.is_voucher_usage_increased
  uses,        \* VoucherCode.used, split by the checkout it was changed for
  hold,        \* whether its lines have temporary Reservation rows
  orders,      \* number of orders with the checkout's token
  pay,         \* Payment.charge_status, and whether a transaction was noted
  active,      \* Payment.is_active
  captured,    \* Payment.captured_amount
  ongoing,     \* amount of the last REFUND_ONGOING transaction
  proc,        \* what each worker is doing, with the objects it holds
  contested,   \* history: checkouts that two workers completed at a time
  abandoned,   \* history: checkouts whose worker died between transactions
  refused,     \* history: payments that were to be given back and were not
  calls

vars == <<open, completing, increased, uses, hold, orders, pay, active,
          captured, ongoing, proc, contested, abandoned, refused, calls>>

NoPayment == -1
Idle == [at |-> "idle"]

InFlight(k) == {w \in Workers : proc[w] # Idle /\ proc[w].k = k}

\* select_for_update on the checkout row is held by a worker that prepares.
Unlocked(k) == \A w \in InFlight(k) : proc[w].at # "preparing"

Used == Total(uses)

\* get_voucher_for_checkout: a usage that is counted already is not checked.
Usable(k, flag) == k \in Discounted => flag \/ Used < UsageLimit

\* get_last_active_payment, as the set of its one answer.
LastActive(k) ==
  LET its == {p \in Payments : CheckoutOf[p] = k /\ active[p]}
  IN  IF its = {} THEN {NoPayment} ELSE {p \in its : \A q \in its : q <= p}

Status(p) == IF p = NoPayment THEN "absent" ELSE pay[p]

-----------------------------------------------------------------------------
(* Clean-up shared by the failures.                                        *)

\* can_refund and can_void, of the payment as it was loaded (seen).
Refunds(p, seen) == p # NoPayment /\ seen = "charged" /\ ongoing[p] < captured[p]
Voids(p, seen) == p # NoPayment /\ seen = "authorized" /\ pay[p] # "voided"

\* The gateway, or what the row says meanwhile, refuses the refund or the void:
\* the error ends the call.
TakeBackRefused(p, seen) ==
  /\ Refunds(p, seen) \/ Voids(p, seen)
  /\ refused' = refused \cup {p}
  /\ UNCHANGED <<pay, active, captured, ongoing>>

\* payment_refund_or_void: what was captured is refunded, at once or later,
\* unless a refund of as much is under way; an authorisation is voided.
TakeBack(p, seen) ==
  \/ /\ ~Refunds(p, seen) /\ ~Voids(p, seen)
     /\ UNCHANGED <<pay, active, captured, ongoing, refused>>
  \/ /\ Refunds(p, seen) /\ pay[p] = "charged"
     /\ pay' = [pay EXCEPT ![p] = "refunded"]
     /\ active' = [active EXCEPT ![p] = FALSE]
     /\ captured' = [captured EXCEPT ![p] = 0]
     /\ UNCHANGED <<ongoing, refused>>
  \/ /\ Refunds(p, seen) /\ pay[p] = "charged"
     /\ ongoing' = [ongoing EXCEPT ![p] = captured[p]]
     /\ UNCHANGED <<pay, active, captured, refused>>
  \/ /\ Voids(p, seen)
     /\ pay' = [pay EXCEPT ![p] = IF @ = "authorized" THEN "voided" ELSE @]
     /\ active' = [active EXCEPT ![p] = FALSE]
     /\ UNCHANGED <<captured, ongoing, refused>>
  \/ TakeBackRefused(p, seen)

\* (mutant) the usage is given back although none was counted.
Release_uncounted(k, flag, code) ==
  /\ increased' = [increased EXCEPT ![k] = FALSE]
  /\ uses' = [uses EXCEPT ![k] = IF k \in Discounted /\ code THEN @ - 1 ELSE @]

\* _release_checkout_voucher_usage, seeing the flag as it was loaded.
Release(k, flag, code) ==
  /\ increased' = [increased EXCEPT ![k] = IF flag THEN FALSE ELSE @]
  /\ uses' = [uses EXCEPT ![k] = IF flag /\ code THEN @ - 1 ELSE @]

\* completing_started_at is cleared and the worker answers its client.
Leave(w, k) ==
  /\ completing' = [completing EXCEPT ![k] = "none"]
  /\ proc' = [proc EXCEPT ![w] = Idle]

\* The worker answers its client without writing anything.
Return(w) ==
  /\ proc' = [proc EXCEPT ![w] = Idle]
  /\ UNCHANGED <<open, completing, increased, uses, hold, orders, pay, active,
                 captured, ongoing, refused>>

\* The order is created and the checkout deleted, with its lines and their
\* reservations; the payments move to the order.
PlaceOrder(k) ==
  /\ orders' = [orders EXCEPT ![k] = @ + 1]
  /\ open' = [open EXCEPT ![k] = FALSE]
  /\ hold' = [hold EXCEPT ![k] = FALSE]

-----------------------------------------------------------------------------
(* The payment flow.                                                       *)

\* First transaction, up to the reads of the voucher.
StartPreparing(w, k) ==
  /\ open[k] /\ Unlocked(k)
  /\ \E p \in LastActive(k) :
       proc' = [proc EXCEPT ![w] =
         [at |-> "preparing", k |-> k, p |-> p, flag |-> increased[k],
          code |-> Usable(k, increased[k]), seen |-> Status(p)]]
  /\ contested' = IF InFlight(k) # {} THEN contested \cup {k} ELSE contested
  /\ UNCHANGED <<open, completing, increased, uses, hold, orders, pay, active,
                 captured, ongoing, refused>>

\* (mutant) a usage that an earlier attempt counted is counted again.
Prepare_again(w) ==
  LET k == proc[w].k
      counts == k \in Discounted
  IN  /\ proc[w].at = "preparing"
      /\ proc[w].p # NoPayment /\ proc[w].code
      /\ ~hold[k]
      /\ increased' = [increased EXCEPT ![k] = @ \/ counts]
      /\ uses' = [uses EXCEPT ![k] = IF counts THEN @ + 1 ELSE @]
      /\ hold' = [hold EXCEPT ![k] = TRUE]
      /\ completing' = [completing EXCEPT ![k] = "recent"]
      /\ proc' = [proc EXCEPT ![w] =
           [@ EXCEPT !.at = "reserved", !.flag = proc[w].flag \/ counts]]
      /\ UNCHANGED <<open, orders, pay, active, captured, ongoing, refused>>

\* The checks pass: the voucher is counted once and the stock put aside.
Prepare(w) ==
  LET k == proc[w].k
      counts == k \in Discounted /\ ~proc[w].flag
  IN  /\ proc[w].at = "preparing"
      /\ proc[w].p # NoPayment /\ proc[w].code
      /\ ~hold[k]
      /\ increased' = [increased EXCEPT ![k] = @ \/ counts]
      /\ uses' = [uses EXCEPT ![k] = IF counts THEN @ + 1 ELSE @]
      /\ hold' = [hold EXCEPT ![k] = TRUE]
      /\ completing' = [completing EXCEPT ![k] = "recent"]
      /\ proc' = [proc EXCEPT ![w] =
           [@ EXCEPT !.at = "reserved", !.flag = proc[w].flag \/ counts]]
      /\ UNCHANGED <<open, orders, pay, active, captured, ongoing, refused>>

\* A check fails: not covered by the payment, short of stock, a gift card or
\* the voucher not applicable.  A tax failure comes after the voucher was
\* counted, and releases it.
PrepareFails(w) ==
  LET k == proc[w].k
  IN  /\ proc[w].at = "preparing"
      /\ TakeBack(proc[w].p, proc[w].seen)
      /\ \/ UNCHANGED <<increased, uses>>
         \/ proc[w].code /\ Release(k, proc[w].flag, TRUE)
      /\ Leave(w, k)
      /\ UNCHANGED <<open, hold, orders>>

\* The total is not covered, and the payment is to be given back before the
\* handler is asked to: when that is refused the handler does not run, and the
\* checkout stays marked as being completed.
PrepareStops(w) ==
  /\ proc[w].at = "preparing"
  /\ TakeBackRefused(proc[w].p, proc[w].seen)
  /\ completing' = [completing EXCEPT ![proc[w].k] = "recent"]
  /\ proc' = [proc EXCEPT ![w] = Idle]
  /\ UNCHANGED <<open, increased, uses, hold, orders>>

\* The lines already have a reservation on the stock: the database refuses a
\* second one and the whole transaction is rolled back.
PrepareRefused(w) ==
  /\ proc[w].at = "preparing" /\ hold[proc[w].k]
  /\ Return(w)

\* (mutant) the checkout is not looked for again before the payment is charged.
Charging_unlocked(w, answer) ==
  /\ proc[w].at = "reserved" /\ Unlocked(proc[w].k)
  /\ answer \in Answers
  /\ proc[w].p # NoPayment /\ active[proc[w].p]
  /\ UNCHANGED <<open, uses, hold, orders>>

\* Second transaction: the payment is processed under the locks on the
\* checkout and on the payment, unless it has become inactive.
Charging(w, answer) ==
  /\ proc[w].at = "reserved" /\ open[proc[w].k] /\ Unlocked(proc[w].k)
  /\ answer \in Answers
  /\ proc[w].p # NoPayment /\ active[proc[w].p]
  /\ UNCHANGED <<open, uses, hold, orders>>

\* The answers that let the completion go on, and what gateway_postprocess
\* makes of the payment's status.
Accepting == {"captured", "authorized", "pending", "confirmed"}

After(status, answer) ==
  CASE answer = "captured" -> "charged"
    [] answer = "pending" -> "pending"
    [] answer = "authorized" /\ status \in {"new", "confirmed"} -> "authorized"
    [] answer = "confirmed" /\ status = "new" -> "confirmed"
    [] OTHER -> status

\* The gateway accepts the payment.  Nobody asks whether it was captured
\* before: captured_amount grows each time.
ChargeAccepted(w) ==
  LET p == proc[w].p
  IN  \E answer \in Accepting :
        /\ Charging(w, answer)
        /\ pay' = [pay EXCEPT ![p] = After(@, answer)]
        /\ captured' = [captured EXCEPT ![p] = IF answer = "captured" THEN @ + 1 ELSE @]
        /\ proc' = [proc EXCEPT ![w] =
             [@ EXCEPT !.at = "accepted", !.seen = After(pay[p], answer)]]
        /\ UNCHANGED <<completing, increased, active, ongoing, refused>>

\* The customer has to confirm the payment, with a 3-D Secure page say.
ChargeNeedsConfirmation(w) ==
  /\ Charging(w, "action_required")
  /\ proc' = [proc EXCEPT ![w] = [@ EXCEPT !.at = "unconfirmed"]]
  /\ UNCHANGED <<completing, increased, pay, active, captured, ongoing, refused>>

\* The answer leaves the payment inactive: the handler is given the voucher
\* but not its code, so the flag is cleared and the usage stays; a cancelled
\* payment is neither refunded nor voided.
ChargeCancelled(w) ==
  /\ Charging(w, "cancelled")
  /\ pay' = [pay EXCEPT ![proc[w].p] = "cancelled"]
  /\ active' = [active EXCEPT ![proc[w].p] = FALSE]
  /\ increased' = [increased EXCEPT ![proc[w].k] = IF proc[w].flag THEN FALSE ELSE @]
  /\ Leave(w, proc[w].k)
  /\ UNCHANGED <<captured, ongoing, refused>>

\* The gateway refuses, or the payment is inactive: the handler is given
\* neither voucher nor payment.
ChargeFails(w) ==
  /\ \/ Charging(w, "failed")
     \/ /\ proc[w].at = "reserved" /\ open[proc[w].k] /\ Unlocked(proc[w].k)
        /\ ~active[proc[w].p]
        /\ UNCHANGED <<open, uses, hold, orders>>
  /\ Leave(w, proc[w].k)
  /\ UNCHANGED <<increased, pay, active, captured, ongoing, refused>>

\* Third transaction, when the customer has to confirm the payment first.
AwaitConfirmation(w) ==
  LET k == proc[w].k
  IN  /\ proc[w].at = "unconfirmed" /\ open[k] /\ Unlocked(k)
      /\ Release(k, increased[k], TRUE)
      /\ Leave(w, k)
      /\ UNCHANGED <<open, hold, orders, pay, active, captured, ongoing, refused>>

\* (mutant) a refund that is under way is not noticed.
Finish_refunding(w) ==
  LET k == proc[w].k
  IN  /\ proc[w].at = "accepted" /\ open[k] /\ Unlocked(k)
      /\ PlaceOrder(k)
      /\ Leave(w, k)
      /\ UNCHANGED <<increased, uses, pay, active, captured, ongoing, refused>>

\* Third transaction, when the payment is through: the order.
Finish(w) ==
  LET k == proc[w].k
  IN  /\ proc[w].at = "accepted" /\ open[k] /\ Unlocked(k)
      /\ ongoing[proc[w].p] = 0
      /\ PlaceOrder(k)
      /\ Leave(w, k)
      /\ UNCHANGED <<increased, uses, pay, active, captured, ongoing, refused>>

\* No order, because the payment is being refunded.
FinishRefunding(w) ==
  LET k == proc[w].k
  IN  /\ proc[w].at = "accepted" /\ open[k] /\ Unlocked(k)
      /\ ongoing[proc[w].p] > 0
      /\ Leave(w, k)
      /\ UNCHANGED <<open, increased, uses, hold, orders, pay, active,
                     captured, ongoing, refused>>

\* (mutant) the payment is not handed to the failure handler.
FinishFails_kept(w) ==
  LET k == proc[w].k
  IN  /\ proc[w].at = "accepted" /\ open[k] /\ Unlocked(k)
      /\ ongoing[proc[w].p] = 0
      /\ Release(k, increased[k], TRUE)
      /\ Leave(w, k)
      /\ UNCHANGED <<open, hold, orders, pay, active, captured, ongoing, refused>>

\* No order, because stock or a gift card ran out since the first transaction:
\* the flag is cleared and committed even when the money is not given back.
FinishFails(w) ==
  LET k == proc[w].k
  IN  /\ proc[w].at = "accepted" /\ open[k] /\ Unlocked(k)
      /\ ongoing[proc[w].p] = 0
      /\ Release(k, increased[k], TRUE)
      /\ TakeBack(proc[w].p, proc[w].seen)
      /\ Leave(w, k)
      /\ UNCHANGED <<open, hold, orders>>

\* Another worker made the order meanwhile: it is returned.
AlreadyOrdered(w) ==
  /\ proc[w] # Idle /\ ~open[proc[w].k]
  /\ Return(w)

-----------------------------------------------------------------------------
(* The transaction flow.                                                   *)

\* The mutation loads the checkout and its voucher, without a lock.
Load(w, k) ==
  /\ open[k]
  /\ proc' = [proc EXCEPT ![w] =
       [at |-> "loaded", k |-> k, p |-> NoPayment, flag |-> increased[k],
        code |-> Usable(k, increased[k]), seen |-> "absent"]]
  /\ contested' = IF InFlight(k) # {} THEN contested \cup {k} ELSE contested
  /\ UNCHANGED <<open, completing, increased, uses, hold, orders, pay, active,
                 captured, ongoing, refused>>

\* _prepare_checkout_with_transactions refuses a voucher that was not usable
\* when it was loaded.
VoucherRefused(w) ==
  /\ proc[w].at = "loaded" /\ ~proc[w].code
  /\ Return(w)

\* get_voucher_for_checkout_info looks the voucher up again; when it is not
\* usable any more the completion goes on without it.
CheckVoucher(w) ==
  /\ proc[w].at = "loaded" /\ proc[w].code
  /\ proc' = [proc EXCEPT ![w] =
       [@ EXCEPT !.at = "checked", !.code = Usable(proc[w].k, proc[w].flag)]]
  /\ UNCHANGED <<open, completing, increased, uses, hold, orders, pay, active,
                 captured, ongoing, refused>>

\* _increase_checkout_voucher_usage, trusting the flag that was loaded.
CountVoucher(w) ==
  LET k == proc[w].k
      counts == k \in Discounted /\ proc[w].code /\ ~proc[w].flag
  IN  /\ proc[w].at = "checked"
      /\ counts => open[k] /\ Unlocked(k)
      /\ increased' = [increased EXCEPT ![k] = @ \/ counts]
      /\ uses' = [uses EXCEPT ![k] = IF counts THEN @ + 1 ELSE @]
      /\ proc' = [proc EXCEPT ![w] = [@ EXCEPT !.at = "counted"]]
      /\ UNCHANGED <<open, completing, hold, orders, pay, active,
                     captured, ongoing, refused>>

\* (mutant) the checkout that was loaded is used without locking it again.
OrderFromCheckout_loaded(w) ==
  LET k == proc[w].k
  IN  /\ proc[w].at = "counted" /\ Unlocked(k)
      /\ PlaceOrder(k)
      /\ proc' = [proc EXCEPT ![w] = Idle]
      /\ UNCHANGED <<completing, increased, uses, pay, active, captured,
                     ongoing, refused>>

\* Second transaction: the order.
OrderFromCheckout(w) ==
  LET k == proc[w].k
  IN  /\ proc[w].at = "counted" /\ open[k] /\ Unlocked(k)
      /\ PlaceOrder(k)
      /\ proc' = [proc EXCEPT ![w] = Idle]
      /\ UNCHANGED <<completing, increased, uses, pay, active, captured,
                     ongoing, refused>>

\* Short of stock, or a gift card not applicable: the failure handler runs
\* inside the transaction that its exception then rolls back.
OrderFromCheckoutFails(w) ==
  /\ proc[w].at = "counted" /\ open[proc[w].k] /\ Unlocked(proc[w].k)
  /\ Return(w)

-----------------------------------------------------------------------------
(* What happens around the completions.                                    *)

\* checkoutPaymentCreate: refused while a completion holds the checkout; the
\* older payments of the checkout become inactive.
NewPayment(k, p) ==
  /\ open[k] /\ Unlocked(k)
  /\ completing[k] # "recent"
  /\ CheckoutOf[p] = k /\ pay[p] = "absent"
  /\ \A q \in Payments : CheckoutOf[q] = k /\ q < p => pay[q] # "absent"
  /\ pay' = [pay EXCEPT ![p] = "new"]
  /\ active' = [q \in Payments |-> IF CheckoutOf[q] = k THEN q = p ELSE active[q]]
  /\ UNCHANGED <<open, completing, increased, uses, hold, orders, captured, ongoing,
                 proc, contested, refused>>

\* CHECKOUT_COMPLETION_LOCK_TIME passes: is_checkout_locked answers no.
LockLapses(k) ==
  /\ completing[k] = "recent" /\ Unlocked(k)
  /\ completing' = [completing EXCEPT ![k] = "lapsed"]
  /\ UNCHANGED <<open, increased, uses, hold, orders, pay, active, captured,
                 ongoing, proc, refused>>

\* RESERVE_DURATION passes and delete_expired_reservations_task runs.
HoldRemoved(k) ==
  /\ hold[k]
  /\ hold' = [hold EXCEPT ![k] = FALSE]
  /\ UNCHANGED <<open, completing, increased, uses, orders, pay, active,
                 captured, ongoing, proc, refused>>

\* A worker dies between two transactions; inside one, nothing is kept.
Crash(w) ==
  /\ proc[w] # Idle
  /\ proc' = [proc EXCEPT ![w] = Idle]
  /\ abandoned' = abandoned \cup {proc[w].k}
  /\ UNCHANGED <<open, completing, increased, uses, hold, orders, pay, active,
                 captured, ongoing, contested, refused>>

-----------------------------------------------------------------------------
(* The specification.                                                      *)

Init ==
  /\ open = [k \in Checkouts |-> TRUE]
  /\ completing = [k \in Checkouts |-> "none"]
  /\ increased = [k \in Checkouts |-> FALSE]
  /\ uses = [k \in Checkouts |-> 0]
  /\ hold = [k \in Checkouts |-> FALSE]
  /\ orders = [k \in Checkouts |-> 0]
  /\ pay = [p \in Payments |-> "absent"]
  /\ active = [p \in Payments |-> FALSE]
  /\ captured = [p \in Payments |-> 0]
  /\ ongoing = [p \in Payments |-> 0]
  /\ proc = [w \in Workers |-> Idle]
  /\ contested = {} /\ abandoned = {} /\ refused = {}
  /\ calls = 0

Call == calls < MaxCalls /\ calls' = calls + 1

\* checkoutComplete arrives at an idle worker; complete_checkout picks a flow.
Request ==
  /\ Call
  /\ \E w \in Workers, k \in Checkouts :
       /\ proc[w] = Idle
       /\ \/ "payment" \in Flows /\ StartPreparing(w, k)
          \/ "transaction" \in Flows /\ Load(w, k)
  /\ UNCHANGED abandoned

Pay ==
  /\ Call
  /\ \E k \in Checkouts, p \in Payments : NewPayment(k, p)
  /\ UNCHANGED abandoned

Die == Call /\ \E w \in Workers : Crash(w)

\* The next transaction of a busy worker.
Step(w) ==
  \/ Prepare(w) \/ PrepareFails(w) \/ PrepareStops(w) \/ PrepareRefused(w)
  \/ ChargeAccepted(w) \/ ChargeNeedsConfirmation(w)
  \/ ChargeCancelled(w) \/ ChargeFails(w)
  \/ AwaitConfirmation(w) \/ Finish(w) \/ FinishRefunding(w) \/ FinishFails(w)
  \/ VoucherRefused(w) \/ CheckVoucher(w) \/ CountVoucher(w)
  \/ OrderFromCheckout(w) \/ OrderFromCheckoutFails(w)
  \/ AlreadyOrdered(w)

Work == (\E w \in Workers : Step(w)) /\ UNCHANGED <<contested, abandoned, calls>>

Time ==
  /\ \E k \in Checkouts : LockLapses(k) \/ HoldRemoved(k)
  /\ UNCHANGED <<contested, abandoned, calls>>

Next == Request \/ Pay \/ Die \/ Time \/ Work

Spec == Init /\ [][Next]_vars

-----------------------------------------------------------------------------
(* Properties.                                                             *)

Statuses == {"absent", "new", "confirmed", "authorized", "pending", "charged",
             "refunded", "voided", "cancelled"}

Jobs == [at : {"preparing", "reserved", "accepted", "unconfirmed", "loaded",
               "checked", "counted"},
         k : Checkouts, p : Payments \cup {NoPayment}, flag : BOOLEAN,
         code : BOOLEAN, seen : Statuses]

\* Every column stays in its type; in particular the usage counter, a
\* PositiveIntegerField, is never given back more often than it was taken.
TypeOK ==
  /\ open \in [Checkouts -> BOOLEAN]
  /\ completing \in [Checkouts -> {"none", "recent", "lapsed"}]
  /\ increased \in [Checkouts -> BOOLEAN]
  /\ uses \in [Checkouts -> Nat]
  /\ hold \in [Checkouts -> BOOLEAN]
  /\ orders \in [Checkouts -> Nat]
  /\ pay \in [Payments -> Statuses]
  /\ active \in [Payments -> BOOLEAN]
  /\ captured \in [Payments -> Nat] /\ ongoing \in [Payments -> Nat]
  /\ proc \in [Workers -> {Idle} \cup Jobs]
  /\ contested \subseteq Checkouts /\ abandoned \subseteq Checkouts
  /\ refused \subseteq Payments
  /\ calls \in Nat

\* A checkout becomes one order, however many workers complete it, in
\* whichever flows, and exists until then.
OneOrder == \A k \in Checkouts : orders[k] = IF open[k] THEN 0 ELSE 1

\* Checkouts and money as module Purchase sees them.
Ordered == {k \in Checkouts : ~open[k]}
Disturbed ==
  {p \in Payments : \/ CheckoutOf[p] \in contested \cup abandoned
                    \/ p \in refused \/ ongoing[p] > 0}

P == INSTANCE Purchase WITH ordered <- Ordered, held <- captured,
                            disturbed <- Disturbed

\* Completion implements Purchase: whatever the two flows, their retries and
\* refunds that are refused or late do, each checkout is ordered once; money
\* is captured and given back only before that; what is given back is all that
\* was captured; and a payment is captured a second time only when two workers
\* completed its checkout at a time, a worker died, or its refund was refused
\* or is still under way.
ImplementsPurchase == P!Spec

\* Money that was captured belongs to an order, is being given back, or is in
\* the hands of a worker that saw it captured and will do one of the two,
\* unless a worker died or the payment was refused when it was given back.
ChargedAccounted ==
  \A p \in Payments :
    LET k == CheckoutOf[p]
    IN  /\ captured[p] > 0 /\ ongoing[p] = 0 /\ open[k]
        /\ k \notin abandoned /\ p \notin refused
        => \E w \in InFlight(k) : /\ proc[w].at = "accepted" /\ proc[w].p = p
                                  /\ proc[w].seen = "charged"

\* In the payment flow an order stands on a payment that the gateway accepted
\* (captured, authorised, confirmed or put off) and that is not given back,
\* voided, cancelled or being refunded, unless two workers completed the
\* checkout at a time (the one may refund what the other is about to sell).
OrderIsPaid ==
  \A k \in Checkouts \ contested :
    ~open[k] =>
      \E p \in Payments :
        /\ CheckoutOf[p] = k /\ ongoing[p] = 0
        /\ pay[p] \in {"confirmed", "authorized", "pending", "charged"}

\* The voucher's counter holds one usage for each checkout that was ordered
\* with it or is marked as counted, over retries, refusals and crashes.
UsageAccounted ==
  \A k \in Discounted \ contested :
    uses[k] = IF ~open[k] \/ increased[k] THEN 1 ELSE 0

-----------------------------------------------------------------------------
(* What the code says of itself and does not keep; no run checks these (see *)
(* the README).                                                             *)

\* _increase_checkout_voucher_usage: two workers that process the same
\* checkout do not both count the usage.  In the transaction flow they do.
CountedOnce == \A k \in Checkouts : uses[k] <= 1

\* _reserve_stocks_without_availability_check, "for the time of external
\* payment call": the temporary reservation does not outlive the completion
\* it was made for, and so cannot refuse the next one.  It stays when the
\* completion ends without an order.
HoldOnlyDuringCompletion ==
  \A k \in Checkouts \ abandoned : hold[k] => InFlight(k) # {}

=============================================================================
