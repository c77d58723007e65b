--------------------------- MODULE PromotionPrices ---------------------------
(***************************************************************************)
(* How the discounted price of a product follows the catalogue promotions: *)
(* saleor/discount/tasks.py, product/tasks.py, product/utils/product.py,   *)
(* product/utils/variant_prices.py, discount/utils/promotion.py, the       *)
(* mutations under graphql/discount/mutations/promotion and those that     *)
(* change prices and collections.                                          *)
(*                                                                         *)
(* Nothing is recalculated where it changes.  Requests write what they     *)
(* change and then mark rules or listings as dirty; tasks started by       *)
(* celery beat turn dirty rules into dirty listings, and dirty listings    *)
(* into prices, and clear the marks after they have done so.  What comes   *)
(* with time alone, the start and the end of a promotion, is noticed by    *)
(* one more task that remembers what it has noticed.  Each task is several *)
(* transactions, and several workers may run the same one.                 *)
(*                                                                         *)
(* A promotion has one rule, a product one variant, in one channel; the    *)
(* discount is an amount.  Two timestamps are never equal: at time now,    *)
(* whatever has a date of at most now has passed.  Left out: batches, the  *)
(* lag of the database replica, webhooks.                                  *)
(***************************************************************************)
EXTENDS Integers, FiniteSetsExt

CONSTANTS
  Rules,       \* keys of promotions and of their rules
  Products,
  Prices,      \* prices a product may have without discount
  Rewards,     \* amounts a rule may take off
  Predicates,  \* sets of products a request may make a rule select
  Workers,     \* celery workers
  MaxTime,     \* bound on the clock
  MaxCalls     \* bound on the number of requests and of crashes

ASSUME PromotionAssumption ==
  /\ Prices \subseteq Nat \ {0}
  /\ Rewards \subseteq Nat \ {0}
  /\ Predicates \subseteq SUBSET Products
  /\ Rules \subseteq Nat /\ Workers \subseteq Nat
  /\ MaxTime \in Nat /\ MaxCalls \in Nat

VARIABLES
  now,
  promotion,   \* Promotion: start_date, end_date, last_notification_scheduled_at
  rule,        \* PromotionRule, with what its predicate selects
  listing,     \* the listing of a product and of its variant
  todo,        \* what requests still have to do
  clearing,    \* clear_promotion_rule_variants_task is queued
  job,         \* tasks between two of their transactions
  missed,      \* history: a mark came while a task did what it asks for, or a
               \* process died that nothing repeats
  crossed,     \* history: products whose price a task found, or a request
               \* set, before another task was done with it
  withdrawn,   \* history: a request ended a promotion, or put it off
  calls        \* requests and crashes so far

rows == <<promotion, rule, listing>>
history == <<missed, crossed, withdrawn>>
vars == <<now, rows, todo, clearing, job, history, calls>>

Never == MaxTime + 1   \* no end_date
Idle == [at |-> "idle"]
NoPromotion == [start |-> -1, end |-> -1, notified |-> -1]

-----------------------------------------------------------------------------
(* Promotions and discounts.                                               *)

\* PromotionQueryset.active and expired
Active(r) == /\ rule[r].exists
             /\ promotion[r].start <= now /\ now < promotion[r].end
Expired(r) == rule[r].exists /\ promotion[r].end <= now

\* get_starting_promotions: no notification since the start.
Starting == {r \in Rules : /\ rule[r].exists
                           /\ promotion[r].notified < promotion[r].start
                           /\ promotion[r].start <= now}

\* (mutant) promotions are told apart by their start only.
Ending_started == {r \in Rules : /\ rule[r].exists
                                 /\ promotion[r].notified < promotion[r].start
                                 /\ promotion[r].end <= now}

\* get_ending_promotions
Ending == {r \in Rules : /\ rule[r].exists
                         /\ promotion[r].notified < promotion[r].end
                         /\ promotion[r].end <= now}

\* (mutant) a discount may exceed the price.
Cut_whole(r, n) == rule[r].reward

\* What rule r takes off price n.
Cut(r, n) == IF rule[r].reward < n THEN rule[r].reward ELSE n

\* get_best_promotion_discount
Largest(rs, n) == Max({0} \cup {Cut(r, n) : r \in rs})

\* get_variants_to_promotion_rules_map
Applicable(p) == {r \in Rules : Active(r) /\ p \in rule[r].variants}

\* The rule that get_best_promotion_discount returns, if any rule applies.
Winners(p) ==
  LET rs == Applicable(p) IN
  IF rs = {} THEN {{}}
  ELSE {{r} : r \in {r \in rs : Cut(r, listing[p].price) = Largest(rs, listing[p].price)}}

\* (mutant) the row of the winner goes with those of other rules.
Rest_none(applied, winner) == [r \in Rules |-> 0]

\* What remains on record of the discounts when the price changes.
Rest(applied, winner) == [r \in Rules |-> IF r \in winner THEN applied[r] ELSE 0]

-----------------------------------------------------------------------------
(* Marks.                                                                  *)

\* Tasks that have read what is now marked.
Overtaken(kind, marked) ==
  [w \in Workers |->
     IF job[w].at \in kind THEN [job[w] EXCEPT !.stale = @ \cup marked] ELSE job[w]]

\* mark_catalogue_promotion_rules_as_dirty
MarkRules(marked) ==
  /\ rule' = [r \in Rules |-> IF r \in marked THEN [rule[r] EXCEPT !.dirty = rule[r].exists]
                              ELSE rule[r]]
  /\ UNCHANGED <<promotion, listing>>

\* mark_products_in_channels_as_dirty
MarkProducts(marked) ==
  /\ listing' = [p \in Products |-> IF p \in marked THEN [listing[p] EXCEPT !.dirty = TRUE]
                                    ELSE listing[p]]
  /\ UNCHANGED <<promotion, rule>>

-----------------------------------------------------------------------------
(* Requests.  What follows the first write is in todo.                     *)

Item(do, rules, products) == [do |-> do, rules |-> rules, products |-> products]

Call == calls < MaxCalls /\ calls' = calls + 1

Later(item) ==
  /\ todo' = todo \cup {item}
  /\ UNCHANGED <<now, clearing, job, missed>>

Dates == {d \in (0 .. MaxTime) \X (0 .. Never) : d[1] < d[2]}

\* promotionCreate with a rule: the rule is created dirty.  Keys are taken in order.
CreatePromotion(r, predicate, reward, dates) ==
  /\ Call
  /\ promotion[r] = NoPromotion
  /\ \A q \in Rules : q < r => promotion[q] # NoPromotion
  /\ promotion' = [promotion EXCEPT ![r] =
       [start |-> dates[1], end |-> dates[2],
        notified |-> IF dates[1] <= now /\ now < dates[2] THEN now ELSE -1]]
  /\ rule' = [rule EXCEPT ![r] = [exists |-> TRUE, predicate |-> predicate,
                                  variants |-> {}, reward |-> reward, dirty |-> TRUE]]
  /\ UNCHANGED <<now, listing, todo, clearing, job, history>>

\* Tasks that clear what they took for expired.
Clearing(r) == {w \in Workers : /\ job[w].at \in {"mark expired", "clear expired"}
                               /\ r \in DOMAIN job[w].pairs}

\* promotionUpdate of both dates: get_toggle_type tells whether they have
\* passed unnoticed.
UpdatePromotion(r, dates) ==
  LET old == promotion[r]
      started == dates[1] <= now /\ old.notified < dates[1] /\ now < dates[2]
      ended == dates[2] <= now /\ (old.notified < dates[2] \/ old.end = Never)
  IN  /\ Call
      /\ rule[r].exists
      /\ promotion' = [promotion EXCEPT ![r] =
           [start |-> dates[1], end |-> dates[2],
            notified |-> IF started \/ ended THEN now ELSE old.notified]]
      /\ withdrawn' = (withdrawn \/ /\ rule[r].variants # {}
                                    /\ ~(dates[1] <= now /\ now < dates[2]))
      /\ missed' = (missed \/ \E w \in Clearing(r) : job[w].since < dates[2])
      /\ todo' = todo \cup {Item("mark rules", {r}, {})}
      /\ UNCHANGED <<now, rule, listing, clearing, job, crossed>>

\* promotionRuleUpdate: the products of before are read, then it is saved.
\* A rule has one editor at a time.
UpdateRule(r, predicate, reward) ==
  /\ Call
  /\ rule[r].exists
  /\ \A item \in todo : item.do = "set variants" => item.rules # {r}
  /\ rule' = [rule EXCEPT ![r].predicate = predicate, ![r].reward = reward]
  /\ Later(Item("set variants", {r}, rule[r].variants))
  /\ UNCHANGED <<promotion, listing, crossed, withdrawn>>

\* promotionDelete and promotionRuleDelete read the products first.
DeleteRule(r) ==
  /\ Call
  /\ rule[r].exists
  /\ Later(Item("delete", {r}, rule[r].variants))
  /\ UNCHANGED <<rows, crossed, withdrawn>>

\* What tasks have found a price for, and are not done with.
InHand(stages) ==
  {p \in Products : \E w \in Workers :
     /\ job[w].at \in stages
     /\ p \in IF job[w].at = "write" THEN DOMAIN job[w].amount ELSE job[w].products}

\* productVariantChannelListingUpdate
SetPrice(p, n) ==
  /\ Call
  /\ listing' = [listing EXCEPT ![p].price = n, ![p].discounted = n]
  /\ Later(Item("mark products", {}, {p}))
  /\ crossed' = crossed \cup ({p} \cap InHand({"write"}))
  /\ UNCHANGED <<promotion, rule, withdrawn>>

\* A product enters or leaves the collections that a predicate names.
ChangeCatalogue(r, p) ==
  /\ Call
  /\ rule[r].exists
  /\ rule' = [rule EXCEPT ![r].predicate = IF p \in @ THEN @ \ {p} ELSE @ \cup {p}]
  /\ Later(Item("mark active", {}, {}))
  /\ UNCHANGED <<promotion, listing, crossed, withdrawn>>

\* The rule goes, with its variants and its part in prices (CASCADE).
Gone(r) == [exists |-> FALSE, predicate |-> {}, variants |-> {}, reward |-> 0, dirty |-> FALSE]

Remaining(item) == todo \ {item}

Delete(item) ==
  LET r == CHOOSE r \in item.rules : TRUE IN
  /\ item.do = "delete"
  /\ rule' = [rule EXCEPT ![r] = Gone(r)]
  /\ listing' = [p \in Products |-> [listing[p] EXCEPT !.applied[r] = 0]]
  /\ missed' = (missed \/ ~(rule[r].variants \subseteq item.products))
  /\ todo' = Remaining(item) \cup {Item("mark products", {}, item.products)}
  /\ UNCHANGED <<promotion, job>>

\* get_products_for_rule(update_rule_variants=True)
SetVariants(item) ==
  LET r == CHOOSE r \in item.rules : TRUE IN
  /\ item.do = "set variants"
  /\ rule' = [rule EXCEPT ![r].variants = rule[r].predicate]
  /\ missed' = (missed \/ ~(rule[r].variants \subseteq item.products))
  /\ todo' = Remaining(item)
               \cup {Item("mark products", {}, item.products \cup rule[r].predicate)}
  /\ job' = Overtaken({"relate"}, {r})
  /\ UNCHANGED <<promotion, listing>>

MarkAfter(item) ==
  /\ \/ /\ item.do = "mark products"
        /\ MarkProducts(item.products)
        /\ job' = Overtaken({"write", "clear prices"}, item.products)
     \/ \E marked \in {{r \in Rules : IF item.do = "mark active" THEN Active(r)
                                      ELSE r \in item.rules}} :
          /\ item.do \in {"mark active", "mark rules"}
          /\ MarkRules(marked)
          /\ job' = Overtaken({"relate", "clear rules"}, marked)
  /\ todo' = Remaining(item)
  /\ UNCHANGED missed

GoOn(item) ==
  /\ Delete(item) \/ SetVariants(item) \/ MarkAfter(item)
  /\ UNCHANGED <<now, clearing, crossed, withdrawn, calls>>

\* The process of a request dies before it has marked what it changed.
Forget(item) ==
  /\ Call
  /\ todo' = Remaining(item)
  /\ missed' = TRUE
  /\ UNCHANGED <<now, rows, clearing, job, crossed, withdrawn>>

-----------------------------------------------------------------------------
(* Tasks of celery beat: job[w] is what worker w knows of the one it runs. *)

Set(w, state) == job' = [job EXCEPT ![w] = state]

\* Workers are alike: the first that is idle takes a task.
Start(w) == job[w] = Idle /\ \A v \in Workers : v < w => job[v] # Idle
At(w, stage) == job[w].at = stage

\* handle_promotion_toggle.  Beat runs it when a date has passed that was not
\* noticed.
ReadToggles(w) ==
  /\ Start(w)
  /\ Starting \cup Ending # {}
  /\ clearing' = (clearing \/ Ending # {})
  /\ Set(w, [at |-> "toggled", rules |-> Starting \cup Ending, seen |-> now])
  /\ UNCHANGED <<now, rows, todo, history, calls>>

MarkToggled(w) ==
  /\ At(w, "toggled")
  /\ MarkRules(job[w].rules)
  /\ job' = [Overtaken({"relate", "clear rules"}, job[w].rules) EXCEPT ![w].at = "notify"]
  /\ UNCHANGED <<now, todo, clearing, history, calls>>

Notify(w) ==
  /\ At(w, "notify")
  /\ promotion' = [r \in Rules |-> IF r \in job[w].rules /\ rule[r].exists
                                   THEN [promotion[r] EXCEPT !.notified = now]
                                   ELSE promotion[r]]
  /\ missed' = (missed \/ \E r \in job[w].rules \cap Ending : promotion[r].end > job[w].seen)
  /\ Set(w, Idle)
  /\ UNCHANGED <<now, rule, listing, todo, clearing, crossed, withdrawn, calls>>

\* clear_promotion_rule_variants_task, which calls itself until nothing is left
ClearRead(w) ==
  LET expired == {r \in Rules : Expired(r) /\ rule[r].variants # {}} IN
  /\ Start(w)
  /\ clearing
  /\ clearing' = FALSE
  /\ IF expired = {} THEN UNCHANGED job
     ELSE Set(w, [at |-> "mark expired", since |-> now,
                  pairs |-> [r \in expired |-> rule[r].variants]])
  /\ UNCHANGED <<now, rows, todo, history, calls>>

\* The rules are looked up again, by the time at which the task began.
ExpiredBy(r, t) == rule[r].exists /\ promotion[r].end <= t

ClearMark(w) ==
  LET marked == UNION {rule[r].variants : r \in {r \in Rules : ExpiredBy(r, job[w].since)}} IN
  /\ At(w, "mark expired")
  /\ MarkProducts(marked)
  /\ job' = [Overtaken({"write", "clear prices"}, marked) EXCEPT ![w].at = "clear expired"]
  /\ UNCHANGED <<now, todo, clearing, history, calls>>

ClearDelete(w) ==
  LET pairs == job[w].pairs IN
  /\ At(w, "clear expired")
  /\ rule' = [r \in Rules |-> IF r \in DOMAIN pairs
                             THEN [rule[r] EXCEPT !.variants = @ \ pairs[r]] ELSE rule[r]]
  /\ clearing' = TRUE
  /\ Set(w, Idle)
  /\ UNCHANGED <<now, promotion, listing, todo, history, calls>>

\* _get_existing_rule_variant_list and fetch_variants_for_promotion_rules
Touched(r) == rule[r].variants \cup rule[r].predicate

\* update_variant_relations_for_active_promotion_rules_task
Select(w) ==
  LET rules == {r \in Rules : Active(r) /\ rule[r].dirty} IN
  /\ Start(w)
  /\ rules # {}
  /\ Set(w, [at |-> "relate", picks |-> [r \in rules |-> rule[r].predicate],
             products |-> UNION {Touched(r) : r \in rules}, stale |-> {}])
  /\ UNCHANGED <<now, rows, todo, clearing, history, calls>>

Relate(w) ==
  LET picks == job[w].picks IN
  /\ At(w, "relate")
  /\ rule' = [r \in Rules |-> IF r \in DOMAIN picks /\ rule[r].exists
                             THEN [rule[r] EXCEPT !.variants = picks[r]] ELSE rule[r]]
  /\ missed' = (missed \/ job[w].stale \cap DOMAIN picks # {})
  /\ job' = [Overtaken({"relate"}, DOMAIN picks) EXCEPT ![w] = [job[w] EXCEPT !.at = "clear rules"]]
  /\ UNCHANGED <<now, promotion, listing, todo, clearing, crossed, withdrawn,
                 calls>>

ClearRules(w) ==
  /\ At(w, "clear rules")
  /\ rule' = [r \in Rules |-> IF r \in DOMAIN job[w].picks
                             THEN [rule[r] EXCEPT !.dirty = FALSE] ELSE rule[r]]
  /\ missed' = (missed \/ job[w].stale \cap DOMAIN job[w].picks # {})
  /\ Set(w, [at |-> "mark touched", products |-> job[w].products])
  /\ UNCHANGED <<now, promotion, listing, todo, clearing, crossed, withdrawn,
                 calls>>

MarkTouched(w) ==
  /\ At(w, "mark touched")
  /\ MarkProducts(job[w].products)
  /\ job' = [Overtaken({"write", "clear prices"}, job[w].products) EXCEPT ![w] = Idle]
  /\ UNCHANGED <<now, todo, clearing, history, calls>>

\* recalculate_discounted_price_for_products_task.  Where the price changes,
\* the rows of other rules go at once; the prices are written at the end.
Compute(w) ==
  LET dirty == {p \in Products : listing[p].dirty}
      Found(p) == listing[p].price - Largest(Applicable(p), listing[p].price)
      changed == {p \in dirty : listing[p].discounted # Found(p)}
  IN  /\ Start(w)
      /\ dirty # {}
      /\ \E winner \in {f \in [dirty -> SUBSET Rules] : \A p \in dirty : f[p] \in Winners(p)} :
           /\ listing' = [p \in Products |->
                IF p \in changed THEN [listing[p] EXCEPT !.applied = Rest(@, winner[p])]
                ELSE listing[p]]
           /\ Set(w, [at |-> "write", stale |-> {}, winner |-> winner,
                      had |-> {p \in dirty : \E r \in winner[p] : listing[p].applied[r] > 0},
                      found |-> [p \in changed |-> Found(p)],
                      amount |-> [p \in dirty |-> Largest(Applicable(p), listing[p].price)]])
      /\ crossed' = crossed \cup (dirty \cap InHand({"write", "clear prices"}))
      /\ UNCHANGED <<now, promotion, rule, todo, clearing, missed, withdrawn, calls>>

\* (mutant) listings whose price did not change keep their mark.
Recalculated_changed(j) == DOMAIN j.found

Recalculated(j) == DOMAIN j.amount

\* The discount of a winner is updated where its row was found and is still
\* there, and created where neither was.
Write(w) ==
  LET j == job[w]
      Priced(p) == IF p \in DOMAIN j.found THEN j.found[p] ELSE listing[p].discounted
      Kept(p, r) == (p \in j.had) <=> (listing[p].applied[r] > 0)
      Applied(p, r) == IF r \in j.winner[p] /\ rule[r].exists /\ Kept(p, r)
                       THEN j.amount[p] ELSE listing[p].applied[r]
  IN  /\ At(w, "write")
      /\ listing' = [p \in Products |->
           IF p \in DOMAIN j.amount
           THEN [listing[p] EXCEPT !.discounted = Priced(p),
                                   !.applied = [r \in Rules |-> Applied(p, r)]]
           ELSE listing[p]]
      /\ missed' = (missed \/ j.stale \cap DOMAIN j.amount # {})
      /\ Set(w, [at |-> "clear prices", stale |-> j.stale, products |-> Recalculated(j)])
      /\ UNCHANGED <<now, promotion, rule, todo, clearing, crossed, withdrawn, calls>>

ClearPrices(w) ==
  /\ At(w, "clear prices")
  /\ listing' = [p \in Products |-> IF p \in job[w].products
                                   THEN [listing[p] EXCEPT !.dirty = FALSE] ELSE listing[p]]
  /\ missed' = (missed \/ job[w].stale \cap job[w].products # {})
  /\ Set(w, Idle)
  /\ UNCHANGED <<now, promotion, rule, todo, clearing, crossed, withdrawn, calls>>

-----------------------------------------------------------------------------

\* A worker dies.  The marks that are still set make another task repeat what
\* it did, except where it has already written over what the task would read.
Die(w) ==
  /\ Call
  /\ job[w] # Idle
  /\ missed' = (missed \/ job[w].at \in
       {"clear rules", "mark touched", "mark expired", "clear expired"})
  /\ Set(w, Idle)
  /\ UNCHANGED <<now, rows, todo, clearing, crossed, withdrawn>>

Tick == /\ now < MaxTime
        /\ now' = now + 1
        /\ UNCHANGED <<rows, todo, clearing, job, history, calls>>

Init ==
  /\ now = 0
  /\ promotion = [r \in Rules |-> NoPromotion]
  /\ rule = [r \in Rules |-> Gone(r)]
  /\ listing \in [Products -> {[price |-> n, discounted |-> n, dirty |-> FALSE,
                                applied |-> [r \in Rules |-> 0]] : n \in Prices}]
  /\ todo = {} /\ clearing = FALSE
  /\ job = [w \in Workers |-> Idle]
  /\ missed = FALSE /\ crossed = {} /\ withdrawn = FALSE
  /\ calls = 0

Request ==
  \/ \E r \in Rules, reward \in Rewards, predicate \in Predicates :
       \/ \E dates \in Dates : CreatePromotion(r, predicate, reward, dates)
       \/ UpdateRule(r, predicate, reward)
  \/ \E r \in Rules, dates \in Dates : UpdatePromotion(r, dates)
  \/ \E r \in Rules : DeleteRule(r)
  \/ \E r \in Rules, p \in Products : ChangeCatalogue(r, p)
  \/ \E p \in Products, n \in Prices : SetPrice(p, n)

Toggle(w) == ReadToggles(w) \/ MarkToggled(w) \/ Notify(w)
ClearVariants(w) == ClearRead(w) \/ ClearMark(w) \/ ClearDelete(w)
UpdateVariants(w) == Select(w) \/ Relate(w) \/ ClearRules(w) \/ MarkTouched(w)
Recalculate(w) == Compute(w) \/ Write(w) \/ ClearPrices(w)
Task(w) == Toggle(w) \/ ClearVariants(w) \/ UpdateVariants(w) \/ Recalculate(w)

\* Nothing is left to do, now.
Quiet == /\ todo = {} /\ ~clearing
         /\ \A w \in Workers : job[w] = Idle
         /\ \A p \in Products : ~listing[p].dirty
         /\ \A r \in Rules : ~(Active(r) /\ rule[r].dirty)
         /\ Starting \cup Ending = {}

\* Everything is done, within the bounds.
Pause == Quiet /\ now = MaxTime /\ UNCHANGED vars

Next == \/ Request \/ Tick \/ Pause
        \/ \E item \in todo : GoOn(item) \/ Forget(item)
        \/ \E w \in Workers : Task(w) \/ Die(w)

Spec == Init /\ [][Next]_vars

\* Requests go on, and some worker works while beat finds a task to start.
Fairness ==
  /\ WF_vars(\E item \in todo : GoOn(item))
  /\ WF_vars(\E w \in Workers : Task(w))

FairSpec == Spec /\ Fairness

-----------------------------------------------------------------------------

\* Rows, marks and the tasks' stages stay what the code allows, and no
\* discounted price falls below zero.  It may be above the price without
\* discount until the next recalculation: a task writes what it found before a
\* request lowered the price.
TypeOK ==
  /\ now \in 0 .. MaxTime /\ calls \in 0 .. MaxCalls
  /\ \A r \in Rules : /\ promotion[r].start \in -1 .. MaxTime
                      /\ promotion[r].end \in -1 .. Never
                      /\ promotion[r].notified \in -1 .. now
                      /\ rule[r].variants \cup rule[r].predicate \subseteq Products
                      /\ rule[r].reward \in Rewards \cup {0}
                      /\ {rule[r].exists, rule[r].dirty} \subseteq BOOLEAN
  /\ \A p \in Products : /\ listing[p].price \in Prices
                         /\ listing[p].discounted \in Nat
                         /\ listing[p].applied \in [Rules -> Nat]
                         /\ listing[p].dirty \in BOOLEAN
  /\ \A item \in todo : item.rules \subseteq Rules /\ item.products \subseteq Products
  /\ \A w \in Workers : job[w].at \in {"idle", "toggled", "notify", "mark expired",
       "clear expired", "relate", "clear rules", "mark touched", "write", "clear prices"}
  /\ {clearing, missed, withdrawn} \subseteq BOOLEAN
  /\ crossed \subseteq Products

\* What the promotions of now make of a price.
RightPrice(p) ==
  listing[p].price
    - Largest({r \in Rules : Active(r) /\ p \in rule[r].predicate}, listing[p].price)

Undisturbed == Quiet /\ ~missed

\* Once every mark is worked off, each price is that of the best active
\* promotion whose predicate selects the product: no start, end, edit, deletion
\* or crash is without effect, except those that missed and withdrawn record
\* (handle_promotion_toggle, the marks, and the tasks that clear them).
QuietPricesRight ==
  Undisturbed /\ ~withdrawn => \A p \in Products : listing[p].discounted = RightPrice(p)

\* No run checks this one: the recalculation of the rules' variants looks at
\* active promotions only, so an edit that ends one is missed (see the README).
\* As mark_catalogue_promotion_rules_as_dirty says, products of marked rules
\* are recalculated, when a request ends a promotion too.
MarkedIsRecalculated ==
  Undisturbed => \A p \in Products : listing[p].discounted = RightPrice(p)

\* A price with a discount has that discount on record, as the largest of its
\* listing: it is what checkout lines get (discount/interface.py).  Where a task
\* found a price, or a request set it, before another task was done with it
\* (crossed), a row of an ended promotion may stay or the right one may be gone.
DiscountOnRecord ==
  Undisturbed =>
    \A p \in Products \ crossed : listing[p].discounted < listing[p].price =>
      Max({listing[p].applied[r] : r \in Rules}) = listing[p].price - listing[p].discounted

\* When requests and time stop, the tasks come to an end, whatever they met:
\* no mark stays set, and no task starts another for ever.
Drains == <>[]Quiet
=============================================================================
