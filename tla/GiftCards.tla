----------------------------- MODULE GiftCards -----------------------------
(***************************************************************************)
(* Gift cards: issued, attached to checkouts, spent when a checkout is     *)
(* completed, switched on and off, and edited by staff.                    *)
(*                                                                         *)
(* What an order costs after its cards is computed from balances that are  *)
(* read without a lock; the cards are locked and spent later, and the      *)
(* total is not computed again.  giftCardUpdate loads a whole row and      *)
(* saves it whole.                                                         *)
(*                                                                         *)
(* One currency.  A card is identified by its place in the order of codes. *)
(***************************************************************************)
EXTENDS Quantities, Sequences

CONSTANTS
  Cards,        \* a set of naturals, in the order of the cards' codes
  Checkouts,
  Price,        \* total of each checkout, voucher taken off, cards not
  Discount,     \* what a voucher for the entire order took off it
  Flows,        \* the flows of completion: "payment", "transaction"
  FaceValues,   \* amounts a card may be issued with or reset to
  Workers,
  MaxCalls      \* bound on the requests and expiries

ASSUME CardsAssumption == Cards \subseteq Nat /\ IsFiniteSet(Cards)
ASSUME PriceAssumption ==
  Price \in [Checkouts -> Nat] /\ Discount \in [Checkouts -> Nat]
ASSUME FaceAssumption == FaceValues \subseteq Nat \ {0}
ASSUME FlowAssumption == Flows \subseteq {"payment", "transaction"}
ASSUME CallsAssumption == MaxCalls \in Nat

VARIABLES
  initial,    \* initial_balance_amount; 0 for a card not issued yet
  balance,    \* current_balance_amount
  active,     \* cards with is_active
  expired,    \* cards whose expiry_date is past
  bought,     \* what a card was bought for (its order line); 0 when staff issued it
  history,    \* the GiftCardEvents of a card that state a balance
  attached,   \* rows of Checkout.gift_cards
  open,       \* checkouts that exist
  orders,     \* the order of each checkout that is not open
  proc,       \* what each worker has in hand
  raced,      \* history: cards written while an edit of them was under way
  calls

vars == <<initial, balance, active, expired, bought, history, attached, open, orders,
          proc, raced, calls>>

Idle == [kind |-> "idle"]
Issued == {c \in Cards : initial[c] > 0}
\* GiftCardQuerySet.active
Valid == active \ expired

\* A request to complete k.  priced and checked: whether the total was read
\* and the cards were found valid.  History: the cards of k have since gained
\* (rose) or lost (fell) what can be spent.
Completion(k, flow) ==
  [kind |-> "completing", k |-> k, flow |-> flow, total |-> 0,
   priced |-> FALSE, checked |-> FALSE, rose |-> FALSE, fell |-> FALSE]

\* giftCardUpdate with the row it loaded; reset is 0 when the balance is not
\* among the fields to update.
Edit(c, reset) ==
  [kind |-> "loaded", c |-> c, reset |-> reset, initial |-> initial[c],
   balance |-> balance[c], active |-> c \in active]

Editing(c) == {w \in Workers : proc[w].kind \in {"loaded", "saved"} /\ proc[w].c = c}

\* The checkout row is locked by the transaction that prepares a payment and
\* by the one that creates an order from a transaction checkout.
Holds(w, k) ==
  /\ proc[w].kind = "completing" /\ proc[w].k = k
  /\ IF proc[w].flow = "payment" THEN ~proc[w].checked ELSE proc[w].priced

Unlocked(k) == \A w \in Workers : ~Holds(w, k)

\* The completions under way learn (history) that the cards of some checkouts
\* gained or lost.
Holders(cs) == {k \in Checkouts : attached[k] \cap cs # {}}
Noted(p, gained, lost) ==
  IF p.kind = "completing" /\ (p.priced \/ p.checked)
  THEN [p EXCEPT !.rose = @ \/ p.k \in gained, !.fell = @ \/ p.k \in lost]
  ELSE p

Become(w, job) == proc' = [proc EXCEPT ![w] = job]
Call == calls < MaxCalls /\ calls' = calls + 1

-----------------------------------------------------------------------------
(* Cards and checkouts.                                                    *)

\* A new row of GiftCard.
Create(c, n) ==
  /\ initial[c] = 0
  /\ initial' = [initial EXCEPT ![c] = n]
  /\ balance' = [balance EXCEPT ![c] = n]
  /\ active' = active \cup {c}
  /\ UNCHANGED <<expired, attached, open, orders, proc, raced>>

\* giftCardCreate: the ISSUED event states the balance.
Issue(c, n) ==
  /\ Create(c, n)
  /\ history' = [history EXCEPT ![c] = <<[old |-> 0, new |-> n]>>]
  /\ UNCHANGED bought

\* gift_cards_create, when an order line that is a gift card is fulfilled: the
\* BOUGHT event names the order and the expiry date only.
Buy(c, n) ==
  /\ Create(c, n)
  /\ bought' = [bought EXCEPT ![c] = n]
  /\ UNCHANGED history

\* Adding the row needs a key lock on the checkout's row.
Attach(k, c) ==
  /\ k \in open /\ Unlocked(k)
  /\ c \in Issued \cap Valid
  /\ attached' = [attached EXCEPT ![k] = @ \cup {c}]
  /\ proc' = [w \in Workers |-> Noted(proc[w], {k}, {})]
  /\ UNCHANGED <<initial, balance, active, expired, bought, history, open, orders, raced>>

\* Deleting it does not.
Detach(k, c) ==
  /\ c \in attached[k]
  /\ attached' = [attached EXCEPT ![k] = @ \ {c}]
  /\ proc' = [w \in Workers |-> Noted(proc[w], {}, {k})]
  /\ UNCHANGED <<initial, balance, active, expired, bought, history, open, orders, raced>>

Activate(c) ==
  /\ c \in Issued \ (active \cup expired)
  /\ active' = active \cup {c}
  /\ raced' = IF Editing(c) # {} THEN raced \cup {c} ELSE raced
  /\ proc' = [w \in Workers |-> Noted(proc[w], Holders({c}), {})]
  /\ UNCHANGED <<initial, balance, expired, bought, history, attached, open, orders>>

\* A card that is switched off after the cards were found valid can still be
\* spent, although a total that is read later does not count it.
SwitchOff(cs) ==
  /\ active' = active \ cs
  /\ raced' = raced \cup {c \in cs : Editing(c) # {}}
  /\ proc' = [w \in Workers |-> Noted(proc[w], Holders(cs), {})]
  /\ UNCHANGED <<initial, balance, expired, bought, history, attached, open, orders>>

Deactivate(c) == c \in active /\ SwitchOff({c})

\* (mutant) Only cards that were never used.
Overdue_unused == {c \in active \cap expired : balance[c] = initial[c]}

\* deactivate_expired_cards_task
Overdue == active \cap expired
DeactivateExpired == Overdue # {} /\ SwitchOff(Overdue)

\* The day after its expiry_date begins.
Expire(c) ==
  /\ c \in Issued \ expired
  /\ expired' = expired \cup {c}
  /\ proc' = [w \in Workers |-> Noted(proc[w], Holders({c}), {})]
  /\ UNCHANGED <<initial, balance, active, bought, history, attached, open, orders, raced>>

-----------------------------------------------------------------------------
(* giftCardUpdate.                                                         *)

Load(w, c, reset) ==
  /\ proc[w] = Idle
  /\ c \in Issued
  /\ Become(w, Edit(c, reset))
  /\ UNCHANGED <<initial, balance, active, expired, bought, history, attached, open, orders, raced>>

\* construct_instance on the loaded row.
Row(job) ==
  IF job.reset > 0
  THEN [initial |-> job.reset, balance |-> job.reset, active |-> job.active]
  ELSE [initial |-> job.initial, balance |-> job.balance, active |-> job.active]

\* instance.save() writes every column.
Save(w) ==
  LET job == proc[w]
      c == job.c
      row == Row(job)
      more == row.balance > balance[c] \/ row.active # (c \in active)
      less == row.balance < balance[c]
  IN  /\ job.kind = "loaded"
      /\ initial' = [initial EXCEPT ![c] = row.initial]
      /\ balance' = [balance EXCEPT ![c] = row.balance]
      /\ active' = IF row.active THEN active \cup {c} ELSE active \ {c}
      /\ raced' = IF Editing(c) # {w} THEN raced \cup {c} ELSE raced
      /\ proc' = [v \in Workers |->
           IF v = w
           THEN IF job.reset > 0 THEN [job EXCEPT !.kind = "saved"] ELSE Idle
           ELSE Noted(proc[v], IF more THEN Holders({c}) ELSE {},
                               IF less THEN Holders({c}) ELSE {})]
      /\ UNCHANGED <<expired, bought, history, attached, open, orders>>

\* gift_card_balance_reset_event, after the save.
LogReset(w) ==
  LET job == proc[w]
  IN  /\ job.kind = "saved"
      /\ history' = [history EXCEPT
           ![job.c] = Append(@, [old |-> job.balance, new |-> job.reset])]
      /\ Become(w, Idle)
      /\ UNCHANGED <<initial, balance, active, expired, bought, attached, open, orders, raced>>

-----------------------------------------------------------------------------
(* Completing a checkout.                                                  *)

Start(w, k, flow) ==
  /\ proc[w] = Idle
  /\ k \in open
  /\ flow = "payment" => Unlocked(k)
  /\ Become(w, Completion(k, flow))
  /\ UNCHANGED <<initial, balance, active, expired, bought, history, attached, open, orders, raced>>

\* (mutant) The sum of what the cards were issued with.
TotalAfterCards_initial(k) ==
  Positive(Price[k] - Total([c \in attached[k] \cap Valid |-> initial[c]]))

\* calculate_checkout_total_with_gift_cards: no lock on the cards.
TotalAfterCards(k) ==
  Positive(Price[k] - Total([c \in attached[k] \cap Valid |-> balance[c]]))

ReadTotal(w) ==
  LET job == proc[w]
  IN  /\ job.kind = "completing" /\ ~job.priced
      /\ job.k \in open
      /\ job.flow = "transaction" => job.checked /\ Unlocked(job.k)
      /\ Become(w, [job EXCEPT !.total = TotalAfterCards(job.k), !.priced = TRUE])
      /\ UNCHANGED <<initial, balance, active, expired, bought, history, attached, open, orders, raced>>

\* _validate_gift_cards: after the total in the payment flow, before it in
\* the other.
Validate(w) ==
  LET job == proc[w]
  IN  /\ job.kind = "completing" /\ ~job.checked
      /\ job.flow = "payment" => job.priced
      /\ attached[job.k] \subseteq Valid
      /\ Become(w, [job EXCEPT !.checked = TRUE])
      /\ UNCHANGED <<initial, balance, active, expired, bought, history, attached, open, orders, raced>>

\* total_price_left: subtotal plus shipping less checkout.discount.  The
\* subtotal has the discount on the entire order taken off already.
Asked(k) == Positive(Price[k] - Discount[k])

Before(k) == [c \in attached[k] |-> {d \in attached[k] : d < c}]

\* (mutant) A card pays whatever the earlier ones could not.
Spent_beyond(k) ==
  [c \in attached[k] |-> Positive(Asked(k) - Total([d \in Before(k)[c] |-> balance[d]]))]

\* update_gift_card_balance for each attached card, active or not.
Spent(k) == Spread(Asked(k), [c \in attached[k] |-> balance[c]], Before(k))

\* The cards the loop gets to; an empty one is "used" for nothing.
Reached(k) ==
  {c \in attached[k] : Total([d \in Before(k)[c] |-> balance[d]]) < Asked(k)}

\* (mutant) The balance before is taken after the card was spent.
SpendingEvents_late(k) ==
  [c \in Cards |->
     IF c \in Reached(k)
     THEN Append(history[c], [old |-> balance[c] - Spent(k)[c],
                              new |-> balance[c] - Spent(k)[c]])
     ELSE history[c]]

\* gift_cards_used_in_order_event
SpendingEvents(k) ==
  [c \in Cards |->
     IF c \in Reached(k)
     THEN Append(history[c], [old |-> balance[c], new |-> balance[c] - Spent(k)[c]])
     ELSE history[c]]

\* add_gift_cards_to_order, with the cards locked, and the removal of the
\* checkout.
Place(w) ==
  LET job == proc[w]
      k == job.k
      touched == {c \in Reached(k) : Spent(k)[c] > 0}
  IN  /\ job.kind = "completing" /\ job.priced /\ job.checked
      /\ k \in open /\ \A v \in Workers \ {w} : ~Holds(v, k)
      /\ balance' = [c \in Cards |->
           IF c \in attached[k] THEN balance[c] - Spent(k)[c] ELSE balance[c]]
      /\ history' = SpendingEvents(k)
      /\ orders' = [orders EXCEPT ![k] =
           [total |-> job.total, used |-> Total(Spent(k)),
            rose |-> job.rose, fell |-> job.fell]]
      /\ open' = open \ {k}
      /\ attached' = [attached EXCEPT ![k] = {}]
      /\ raced' = raced \cup {c \in Reached(k) : Editing(c) # {}}
      /\ proc' = [v \in Workers |->
           IF v = w THEN Idle
           ELSE Noted(proc[v], {}, Holders(touched) \ {k})]
      /\ UNCHANGED <<initial, active, expired, bought>>

\* The order of the checkout exists: it is returned.
AlreadyOrdered(w) ==
  /\ proc[w].kind = "completing" /\ proc[w].k \notin open
  /\ Become(w, Idle)
  /\ UNCHANGED <<initial, balance, active, expired, bought, history, attached, open, orders, raced>>

\* A card is not valid, stock is short, the payment fails or the process
\* dies; whatever was not committed is rolled back.
GiveUp(w) ==
  /\ proc[w] # Idle
  /\ Become(w, Idle)
  /\ raced' = IF proc[w].kind = "saved" THEN raced \cup {proc[w].c} ELSE raced
  /\ UNCHANGED <<initial, balance, active, expired, bought, history, attached, open, orders>>

-----------------------------------------------------------------------------
NoOrder == [total |-> 0, used |-> 0, rose |-> FALSE, fell |-> FALSE]

Init ==
  /\ initial \in [Cards -> FaceValues \cup {0}]
  /\ balance = initial
  /\ active = Issued
  /\ expired = {}
  /\ bought = [c \in Cards |-> 0]
  /\ history = [c \in Cards |->
       IF initial[c] > 0 THEN <<[old |-> 0, new |-> initial[c]]>> ELSE <<>>]
  /\ attached = [k \in Checkouts |-> {}]
  /\ open = Checkouts
  /\ orders = [k \in Checkouts |-> NoOrder]
  /\ proc = [w \in Workers |-> Idle]
  /\ raced = {}
  /\ calls = 0

\* Requests, and the days on which cards expire.
Request ==
  /\ Call
  /\ \/ \E c \in Cards, n \in FaceValues : Issue(c, n) \/ Buy(c, n)
     \/ \E k \in Checkouts, c \in Cards : Attach(k, c) \/ Detach(k, c)
     \/ \E c \in Cards : Activate(c) \/ Deactivate(c) \/ Expire(c)
     \/ \E w \in Workers, c \in Cards, n \in FaceValues \cup {0} : Load(w, c, n)
     \/ \E w \in Workers, k \in Checkouts, f \in Flows : Start(w, k, f)

Work(w) ==
  /\ \/ Save(w) \/ LogReset(w)
     \/ ReadTotal(w) \/ Validate(w) \/ Place(w)
     \/ AlreadyOrdered(w) \/ GiveUp(w)
  /\ UNCHANGED calls

Nightly == DeactivateExpired /\ UNCHANGED calls

Next == Request \/ (\E w \in Workers : Work(w)) \/ Nightly

Spec == Init /\ [][Next]_vars

\* Celery beat runs the task every night.
FairSpec == Spec /\ WF_vars(Nightly)

-----------------------------------------------------------------------------
(* Properties.                                                             *)

Event == [old : Nat, new : Nat]
Completions ==
  [kind : {"completing"}, k : Checkouts, flow : {"payment", "transaction"},
   total : Nat, priced : BOOLEAN, checked : BOOLEAN, rose : BOOLEAN, fell : BOOLEAN]
Edits ==
  [kind : {"loaded", "saved"}, c : Cards, reset : Nat, initial : Nat, balance : Nat,
   active : BOOLEAN]

\* Every column keeps its type: no balance falls below zero, however many
\* checkouts spend a card at a time.
TypeOK ==
  /\ initial \in [Cards -> Nat] /\ balance \in [Cards -> Nat]
  /\ active \subseteq Cards /\ expired \subseteq Cards /\ raced \subseteq Cards
  /\ bought \in [Cards -> Nat] /\ history \in [Cards -> Seq(Event)]
  /\ attached \in [Checkouts -> SUBSET Cards]
  /\ open \subseteq Checkouts
  /\ orders \in [Checkouts -> [total : Nat, used : Nat, rose : BOOLEAN, fell : BOOLEAN]]
  /\ proc \in [Workers -> {Idle} \cup Completions \cup Edits]
  /\ calls \in Nat

\* What the first i events of a card leave on it, when it held start before.
Left(h, start, i) == IF i = 0 THEN start ELSE h[i].new

\* The events of a card account for its balance: each starts from what the one
\* before it left, and the last left what the card holds now.  The first of a
\* bought card starts from what was paid for it, which no event states, and
\* until then the card holds just that; one that staff issued starts from
\* nothing.  Not of a card that was spent or edited while another edit of it
\* was under way: that edit puts back what it loaded.
HistoryExplains ==
  \A c \in Issued \ raced :
    LET h == history[c]
        unlogged == {w \in Editing(c) : proc[w].kind = "saved"}
    IN  /\ \A i \in 1 .. Len(h) : h[i].old = Left(h, bought[c], i - 1)
        /\ unlogged = {} => balance[c] = Left(h, bought[c], Len(h))

\* Cards and the order's total pay for an order once.  All its cards together
\* give no more than is asked of them; with the total that is not more than its price
\* unless cards were added, switched or raised after the first look at them,
\* and not less (but for a discount that is taken off twice) unless they were
\* spent elsewhere, removed or lowered.
PaidForOnce ==
  \A k \in Checkouts \ open :
    LET paid == orders[k].total + orders[k].used
    IN  /\ orders[k].used <= Asked(k)
        /\ ~orders[k].rose => paid <= Price[k]
        /\ ~orders[k].fell => paid >= Asked(k)

\* deactivate_expired_cards_task: an expired card ends switched off, although
\* an edit loaded earlier may switch it on again.
ExpiredEndsOff == \A c \in Cards : c \in expired ~> [](c \notin active)

=============================================================================
