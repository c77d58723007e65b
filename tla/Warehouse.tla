------------------------------ MODULE Warehouse ------------------------------
(***************************************************************************)
(* Stock bookkeeping: saleor/warehouse/management.py, reservations.py and  *)
(* tasks.py, for variants that track inventory and are not preorders.      *)
(*                                                                         *)
(* A stock is one (variant, warehouse) row, identified by its primary key. *)
(* Its quantity_allocated column is a counter kept next to the Allocation  *)
(* rows it should be the sum of.  A function that takes row locks on the   *)
(* stocks (select_for_update) is one action; when it raises, its           *)
(* transaction is rolled back, so it is enabled only when it succeeds.     *)
(* The two functions that read without locks and write later are two       *)
(* actions each, with what they read kept in job[w].                       *)
(***************************************************************************)
EXTENDS Quantities

CONSTANTS
  Stocks,        \* primary keys of the stocks that may exist
  Variants, Warehouses,
  VariantOf, WarehouseOf,   \* of a stock
  Lines,         \* order lines
  Orders,
  LineVariant, OrderOf,     \* of an order line
  CartLines,     \* checkout lines
  CartVariant,   \* of a checkout line
  Scopes,        \* where an order may be served from: [warehouses, point]
  NoPoint,       \* no collection point
  Strategy,      \* the channel's allocation_strategy
  Rank,          \* position of a warehouse in the channel's sort order
  Reservations,  \* values of check_reservations the callers pass
  Exceeding,     \* values of allow_stock_to_be_exceeded they pass
  SharedVariant, \* whether one call may hold two lines of one variant
  Workers,       \* transactions that hold an unlocked read
  MaxRequest,    \* bound on the quantity of a line in a call
  QuantityCap,   \* bound on a stock quantity set by the merchant
  MaxCalls       \* bound on the number of calls

ASSUME StocksAssumption ==
  /\ Stocks \subseteq Nat
  /\ IsFiniteSet(Stocks)
  /\ VariantOf \in [Stocks -> Variants]
  /\ WarehouseOf \in [Stocks -> Warehouses]
  /\ \A s, t \in Stocks : /\ VariantOf[s] = VariantOf[t]
                          /\ WarehouseOf[s] = WarehouseOf[t]
                          => s = t

ASSUME LinesAssumption ==
  /\ IsFiniteSet(Lines) /\ Lines # {}
  /\ LineVariant \in [Lines -> Variants]
  /\ OrderOf \in [Lines -> Orders]
  /\ IsFiniteSet(CartLines)
  /\ CartVariant \in [CartLines -> Variants]

ASSUME ChannelAssumption ==
  /\ Scopes \subseteq [warehouses : SUBSET Warehouses,
                       point : Warehouses \cup {NoPoint}]
  /\ Strategy \in {"PRIORITIZE_HIGH_STOCK", "PRIORITIZE_SORTING_ORDER"}
  /\ Rank \in [Warehouses -> Nat]
  /\ \A v, w \in Warehouses : Rank[v] = Rank[w] => v = w

ASSUME BoundsAssumption ==
  /\ MaxRequest \in Nat /\ QuantityCap \in Nat /\ MaxCalls \in Nat
  /\ Reservations \subseteq BOOLEAN /\ Exceeding \subseteq BOOLEAN
  /\ SharedVariant \in BOOLEAN

VARIABLES
  stocks,              \* the Stock rows that exist
  quantity,            \* Stock.quantity
  quantity_allocated,  \* Stock.quantity_allocated
  allocation,          \* Allocation.quantity_allocated, 0 for no row
  reserved,            \* Reservation.quantity_reserved, 0 for no row
  live,                \* checkout lines whose reserved_until is in the future
  job,                 \* unlocked reads not yet followed by their write
  drifted,             \* history: stocks whose counter a known race disturbed
  calls                \* number of calls made

vars == <<stocks, quantity, quantity_allocated, allocation, reserved, live,
          job, drifted, calls>>

-----------------------------------------------------------------------------
(* Rows: a function from lines to a quantity for each stock.               *)

Rows == [Lines -> [Stocks -> Nat]]
Nothing == [s \in Stocks |-> 0]
Idle == [kind |-> "idle"]

\* A call names some lines of one order, each with a quantity; 0 elsewhere.
Wants == {want \in [Lines -> 0 .. MaxRequest] :
            /\ \E l \in Lines : want[l] > 0
            /\ \A l, m \in Lines :
                 want[l] > 0 /\ want[m] > 0 /\ l # m =>
                   /\ OrderOf[l] = OrderOf[m]
                   /\ SharedVariant \/ LineVariant[l] # LineVariant[m]}

Plus(rows, more) ==
  [l \in Lines |-> [s \in Stocks |-> rows[l][s] + more[l][s]]]
Minus(rows, less) ==
  [l \in Lines |-> [s \in Stocks |-> rows[l][s] - less[l][s]]]

Allocated(rows, s) == Total([l \in Lines |-> rows[l][s]])

\* Unexpired reservations on s of checkout lines other than own.
Reserved(s, own) == Total([c \in live \ own |-> reserved[c][s]])

\* Lines with a row on stock s, and stocks on which several lines have one.
Touching(rows, s) == {l \in Lines : rows[l][s] > 0}
SharedStocks(rows) == {s \in Stocks : Cardinality(Touching(rows, s)) > 1}

(***************************************************************************)
(* Stock.objects.bulk_update builds one CASE with a WHEN for each object   *)
(* it is given, and the code gives it one object for each Allocation row.  *)
(* When two rows share a stock, the WHEN listed first decides and the      *)
(* others are lost.  Which one is first depends on the list, so any may:   *)
(* these are the changes the counters can undergo.                         *)
(***************************************************************************)
Changes(rows) ==
  LET Deciding(s) == IF Touching(rows, s) = {} THEN Lines ELSE Touching(rows, s)
  IN  {[s \in Stocks |-> rows[first[s]][s]] :
         first \in {f \in [Stocks -> Lines] : \A s \in Stocks : f[s] \in Deciding(s)}}

-----------------------------------------------------------------------------
(* The order in which stocks are tried.                                    *)

\* sort_stocks, for stocks with the given quantity left; ties keep the
\* ORDER BY pk of the query.
Precedes(s, t, left, point) ==
  LET atPoint(x) == WarehouseOf[x] = point
      higher == \/ left[s] > left[t]
                \/ left[s] = left[t] /\ s < t
      ranked == Rank[WarehouseOf[s]] < Rank[WarehouseOf[t]]
  IN  \/ atPoint(s) /\ ~atPoint(t)
      \/ /\ atPoint(s) <=> atPoint(t)
         /\ IF Strategy = "PRIORITIZE_HIGH_STOCK" THEN higher ELSE ranked

\* The stocks of variant v that may serve the order.
Serving(v, scope) ==
  {s \in stocks : VariantOf[s] = v /\ WarehouseOf[s] \in scope.warehouses}

\* What is taken for `need` pieces of v, when free[s] pieces of s are free.
Taken(need, v, scope, free, left) ==
  LET room == [s \in Stocks |->
                 IF s \in Serving(v, scope) THEN Positive(free[s]) ELSE 0]
      earlier == [s \in Stocks |->
                    {t \in Stocks : Precedes(t, s, left, scope.point)}]
  IN  Spread(need, room, earlier)

Satisfied(need, v, scope, free) ==
  Enough(need, [s \in Stocks |->
                  IF s \in Serving(v, scope) THEN Positive(free[s]) ELSE 0])

\* What deallocate_stock takes back: the line's own rows, by stock pk.
Released(rows, want) ==
  [l \in Lines |-> Spread(want[l], rows[l],
                          [s \in Stocks |-> {t \in Stocks : t < s}])]

-----------------------------------------------------------------------------
(* Calls made by orders.                                                   *)

\* Each call is counted so that a run ends; nothing else reads calls.
Call == calls < MaxCalls /\ calls' = calls + 1

\* The counters after the rows `given` are added and `taken` are removed,
\* each in a bulk_update of its own.
Count(given, taken) ==
  \E up \in Changes(given), down \in Changes(taken) :
    quantity_allocated' =
      [s \in Stocks |-> quantity_allocated[s] + up[s] - down[s]]

\* allocate_stocks.  With check_reservations the generator stocks_id is used
\* up by the reservations query, so the allocations query matches no stock
\* and every existing allocation counts as zero.
AllocateStocks(want, scope, check, own) ==
  LET known == [s \in Stocks |-> IF check THEN 0 ELSE Allocated(allocation, s)]
      left == [s \in Stocks |-> quantity[s] - known[s]]
      free == [s \in Stocks |->
                 left[s] - (IF check THEN Reserved(s, own) ELSE 0)]
      rows == [l \in Lines |-> Taken(want[l], LineVariant[l], scope, free, left)]
  IN  /\ \A l \in Lines : want[l] > 0 => allocation[l] = Nothing
      /\ \A l \in Lines : Satisfied(want[l], LineVariant[l], scope, free)
      /\ allocation' = Plus(allocation, rows)
      /\ Count(rows, [l \in Lines |-> Nothing])
      /\ drifted' = drifted \cup SharedStocks(rows)
      /\ UNCHANGED <<stocks, quantity, reserved, live, job>>

\* increase_allocations: drop the rows of the lines, then allocate what they
\* held and want more.
IncreaseAllocations(want, scope) ==
  LET held == [l \in Lines |-> IF want[l] > 0 THEN allocation[l] ELSE Nothing]
      kept == Minus(allocation, held)
      left == [s \in Stocks |-> quantity[s] - Allocated(kept, s)]
      need == [l \in Lines |-> want[l] + Total(held[l])]
      rows == [l \in Lines |-> Taken(need[l], LineVariant[l], scope, left, left)]
  IN  /\ \A l \in Lines : Satisfied(need[l], LineVariant[l], scope, left)
      /\ allocation' = Plus(kept, rows)
      /\ Count(rows, held)
      /\ drifted' = drifted \cup SharedStocks(rows) \cup SharedStocks(held)
      /\ UNCHANGED <<stocks, quantity, reserved, live, job>>

\* deallocate_stock.  decrease_allocations is the same change: it calls
\* decrease_stock with update_stocks off.  A line that holds less than it is
\* asked to give up gives up all; both callers swallow the AllocationError.
DeallocateStock(want) ==
  LET rows == Released(allocation, want)
  IN  /\ allocation' = Minus(allocation, rows)
      /\ Count([l \in Lines |-> Nothing], rows)
      /\ drifted' = drifted \cup SharedStocks(rows)
      /\ UNCHANGED <<stocks, quantity, reserved, live, job>>

\* (mutant) the quantity is compared without what other lines were promised.
DecreaseStock_promised(want, at, exceed) ==
  LET rows == Released(allocation, want)
      shipped(s) == Total([l \in Lines |-> IF at[l] = s THEN want[l] ELSE 0])
  IN  /\ \A l \in Lines :
           want[l] > 0 /\ ~exceed =>
             at[l] \in stocks /\ shipped(at[l]) <= quantity[at[l]]
      /\ quantity' = [s \in Stocks |-> IF s \in stocks
                                       THEN quantity[s] - shipped(s)
                                       ELSE quantity[s]]
      /\ allocation' = Minus(allocation, rows)
      /\ Count([l \in Lines |-> Nothing], rows)
      /\ drifted' = drifted \cup SharedStocks(rows)
      /\ UNCHANGED <<stocks, reserved, live, job>>

\* decrease_stock: deallocate, then take want[l] pieces out of stock at[l].
DecreaseStock(want, at, exceed) ==
  LET rows == Released(allocation, want)
      shipped(s) == Total([l \in Lines |-> IF at[l] = s THEN want[l] ELSE 0])
  IN  /\ \A l \in Lines :
           want[l] > 0 /\ ~exceed =>
             /\ at[l] \in stocks
             /\ shipped(at[l]) <=
                  quantity[at[l]] - Allocated(Minus(allocation, rows), at[l])
      /\ quantity' = [s \in Stocks |-> IF s \in stocks
                                       THEN quantity[s] - shipped(s)
                                       ELSE quantity[s]]
      /\ allocation' = Minus(allocation, rows)
      /\ Count([l \in Lines |-> Nothing], rows)
      /\ drifted' = drifted \cup SharedStocks(rows)
      /\ UNCHANGED <<stocks, reserved, live, job>>

\* (mutant) the stock's counter is not saved.
IncreaseStock_uncounted(l, s, n, allocate) ==
  /\ VariantOf[s] = LineVariant[l]
  /\ stocks' = stocks \cup {s}
  /\ quantity' = [quantity EXCEPT ![s] = @ + n]
  /\ allocation' = IF allocate THEN [allocation EXCEPT ![l][s] = @ + n] ELSE allocation
  /\ UNCHANGED <<quantity_allocated, reserved, live, job, drifted>>

\* increase_stock: put n pieces of line l's variant back into stock s,
\* creating the stock when missing, and allocate them to l when asked to.
IncreaseStock(l, s, n, allocate) ==
  /\ VariantOf[s] = LineVariant[l]
  /\ stocks' = stocks \cup {s}
  /\ quantity' = [quantity EXCEPT ![s] = @ + n]
  /\ IF allocate
     THEN /\ allocation' = [allocation EXCEPT ![l][s] = @ + n]
          /\ quantity_allocated' = [quantity_allocated EXCEPT ![s] = @ + n]
     ELSE UNCHANGED <<allocation, quantity_allocated>>
  /\ UNCHANGED <<reserved, live, job, drifted>>

\* deallocate_stock_for_order(s), first half: read the orders' rows.
ReadOrderAllocations(w, orders) ==
  /\ job[w] = Idle
  /\ job' = [job EXCEPT ![w] =
       [kind |-> "deallocate", orders |-> orders,
        rows |-> [l \in Lines |->
                    IF OrderOf[l] \in orders THEN allocation[l] ELSE Nothing]]]
  /\ UNCHANGED <<stocks, quantity, quantity_allocated, allocation, reserved,
                 live, drifted>>

\* (mutant) the rows are lowered by what was read, like the counters.
DeallocateOrders_relative(w) ==
  /\ job[w].kind = "deallocate"
  /\ allocation' = Minus(allocation, job[w].rows)
  /\ Count([l \in Lines |-> Nothing], job[w].rows)
  /\ drifted' = drifted \cup SharedStocks(job[w].rows)
  /\ job' = [job EXCEPT ![w] = Idle]
  /\ UNCHANGED <<stocks, quantity, reserved, live>>

\* Second half: zero the rows the orders have by now, and subtract from the
\* counters what was read.
DeallocateOrders(w) ==
  LET now == [l \in Lines |->
                IF OrderOf[l] \in job[w].orders THEN allocation[l] ELSE Nothing]
  IN  /\ job[w].kind = "deallocate"
      /\ allocation' = Minus(allocation, now)
      /\ Count([l \in Lines |-> Nothing], job[w].rows)
      /\ drifted' = drifted \cup SharedStocks(job[w].rows) \cup
           {s \in Stocks : \E l \in Lines : now[l][s] # job[w].rows[l][s]}
      /\ job' = [job EXCEPT ![w] = Idle]
      /\ UNCHANGED <<stocks, quantity, reserved, live>>

-----------------------------------------------------------------------------
(* Calls made by the merchant, by checkouts and by the scheduled tasks.    *)

\* product_variant_stocks_update, stock_bulk_update: an absolute quantity.
SetStockQuantity(s, n) ==
  /\ stocks' = stocks \cup {s}
  /\ quantity' = [quantity EXCEPT ![s] = n]
  /\ UNCHANGED <<quantity_allocated, allocation, reserved, live, job, drifted>>

\* (mutant) other checkouts' reservations are not read.
ReserveStocks_alone(want, refresh, scope) ==
  LET own == {c \in CartLines : want[c] > 0}
      left == [s \in Stocks |-> quantity[s] - Allocated(allocation, s)]
  IN  /\ \A c \in own : Satisfied(want[c], CartVariant[c], scope, left)
      /\ reserved' = [c \in CartLines |->
                        IF c \in own
                        THEN Taken(want[c], CartVariant[c], scope, left, left)
                        ELSE reserved[c]]
      /\ live' = live \cup own \cup {c \in refresh : reserved[c] # Nothing}
      /\ UNCHANGED <<stocks, quantity, quantity_allocated, allocation, job,
                     drifted>>

\* reserve_stocks_and_preorders: reserve want for the lines of one checkout
\* in place of what they had, and put off the expiry of its other lines,
\* whatever has become of their stocks since.
ReserveStocks(want, refresh, scope) ==
  LET own == {c \in CartLines : want[c] > 0}
      left == [s \in Stocks |-> quantity[s] - Allocated(allocation, s)]
      free == [s \in Stocks |-> left[s] - Reserved(s, own)]
  IN  /\ \A c \in own : Satisfied(want[c], CartVariant[c], scope, free)
      /\ reserved' = [c \in CartLines |->
                        IF c \in own
                        THEN Taken(want[c], CartVariant[c], scope, free, left)
                        ELSE reserved[c]]
      /\ live' = live \cup own \cup {c \in refresh : reserved[c] # Nothing}
      /\ UNCHANGED <<stocks, quantity, quantity_allocated, allocation, job,
                     drifted>>

\* The clock passes reserved_until of a line.
ExpireReservation(c) ==
  /\ live' = live \ {c}
  /\ UNCHANGED <<stocks, quantity, quantity_allocated, allocation, reserved,
                 job, drifted>>

\* delete_expired_reservations_task.
DeleteExpiredReservations ==
  /\ reserved' = [c \in CartLines |-> IF c \in live THEN reserved[c] ELSE Nothing]
  /\ UNCHANGED <<stocks, quantity, quantity_allocated, allocation, live, job,
                 drifted>>

\* (mutant) only counters that are too low are noticed.
ReadMismatches_low(w) ==
  LET sum == [s \in Stocks |-> Allocated(allocation, s)]
      wrong == {s \in stocks : quantity_allocated[s] < sum[s]}
  IN  /\ job[w] = Idle
      /\ wrong # {}
      /\ job' = [job EXCEPT ![w] = [kind |-> "recount", wrong |-> wrong, sum |-> sum]]
      /\ UNCHANGED <<stocks, quantity, quantity_allocated, allocation, reserved,
                     live, drifted>>

\* update_stocks_quantity_allocated_task, first half: the stocks whose
\* counter is wrong, with the sums they should have.
ReadMismatches(w) ==
  LET sum == [s \in Stocks |-> Allocated(allocation, s)]
      wrong == {s \in stocks : quantity_allocated[s] # sum[s]}
  IN  /\ job[w] = Idle
      /\ wrong # {}
      /\ job' = [job EXCEPT ![w] = [kind |-> "recount", wrong |-> wrong, sum |-> sum]]
      /\ UNCHANGED <<stocks, quantity, quantity_allocated, allocation, reserved,
                     live, drifted>>

\* Second half: write those sums.
WriteSums(w) ==
  LET stale == {s \in job[w].wrong : job[w].sum[s] # Allocated(allocation, s)}
  IN  /\ job[w].kind = "recount"
      /\ quantity_allocated' =
           [s \in Stocks |-> IF s \in job[w].wrong THEN job[w].sum[s]
                                                  ELSE quantity_allocated[s]]
      /\ drifted' = (drifted \ job[w].wrong) \cup stale
      /\ job' = [job EXCEPT ![w] = Idle]
      /\ UNCHANGED <<stocks, quantity, allocation, reserved, live>>

-----------------------------------------------------------------------------
(* The specification: any caller, any order of calls.                      *)

Init ==
  /\ stocks \in SUBSET Stocks
  /\ quantity \in {q \in [Stocks -> 0 .. QuantityCap] :
                     \A s \in Stocks \ stocks : q[s] = 0}
  /\ quantity_allocated = Nothing
  /\ allocation = [l \in Lines |-> Nothing]
  /\ reserved = [c \in CartLines |-> Nothing]
  /\ live = {}
  /\ job = [w \in Workers |-> Idle]
  /\ drifted = {}
  /\ calls = 0

CartWants == {want \in [CartLines -> 0 .. MaxRequest] :
                /\ \E c \in CartLines : want[c] > 0
                /\ \A c, d \in CartLines :
                     want[c] > 0 /\ want[d] > 0 /\ c # d =>
                       SharedVariant \/ CartVariant[c] # CartVariant[d]}

\* Where each line of a fulfillment ships from: all from one warehouse.
Sources == {at \in [Lines -> Stocks] :
              \E v \in Warehouses : \A l \in Lines :
                 (\E s \in Stocks : VariantOf[s] = LineVariant[l] /\ WarehouseOf[s] = v)
                 => VariantOf[at[l]] = LineVariant[l] /\ WarehouseOf[at[l]] = v}

OrderCall ==
  /\ Call
  /\ \E want \in Wants :
       \/ \E scope \in Scopes, check \in Reservations, own \in SUBSET CartLines :
            AllocateStocks(want, scope, check, own)
       \/ \E scope \in Scopes : IncreaseAllocations(want, scope)
       \/ DeallocateStock(want)
       \/ \E at \in Sources, exceed \in Exceeding : DecreaseStock(want, at, exceed)

RestockCall ==
  /\ Call
  /\ \E l \in Lines, s \in Stocks, n \in 1 .. MaxRequest, allocate \in BOOLEAN :
       quantity[s] + n <= QuantityCap /\ IncreaseStock(l, s, n, allocate)

CancelCall ==
  Call /\ \E w \in Workers, orders \in SUBSET Orders :
            orders # {} /\ ReadOrderAllocations(w, orders)

MerchantCall ==
  Call /\ \E s \in Stocks, n \in 0 .. QuantityCap : SetStockQuantity(s, n)

CheckoutCall ==
  /\ Call
  /\ \E want \in CartWants, refresh \in SUBSET CartLines, scope \in Scopes :
       ReserveStocks(want, refresh, scope)

\* A process dies between its read and its write: the write never happens.
Crash ==
  /\ Call
  /\ \E w \in Workers : job[w] # Idle /\ job' = [job EXCEPT ![w] = Idle]
  /\ UNCHANGED <<stocks, quantity, quantity_allocated, allocation, reserved,
                 live, drifted>>

Commit(w) == (DeallocateOrders(w) \/ WriteSums(w)) /\ UNCHANGED calls

Recount == (\E w \in Workers : ReadMismatches(w)) /\ UNCHANGED calls

Clock ==
  /\ \/ \E c \in live : ExpireReservation(c)
     \/ DeleteExpiredReservations
  /\ UNCHANGED calls

Next ==
  \/ OrderCall \/ RestockCall \/ CancelCall \/ MerchantCall \/ CheckoutCall
  \/ Crash \/ Recount \/ Clock
  \/ \E w \in Workers : Commit(w)

Spec == Init /\ [][Next]_vars

\* A transaction that started ends; celery beat runs the recount every night.
Fairness == WF_vars(Recount) /\ \A w \in Workers : WF_vars(Commit(w))

FairSpec == Spec /\ Fairness

-----------------------------------------------------------------------------
(* Properties.                                                             *)

Deallocation == [kind : {"deallocate"}, orders : SUBSET Orders, rows : Rows]
Recounting == [kind : {"recount"}, wrong : SUBSET Stocks, sum : [Stocks -> Nat]]

\* Every column stays in its type; in particular no Allocation row, a
\* PositiveIntegerField, is ever driven below zero.
TypeOK ==
  /\ stocks \subseteq Stocks
  /\ quantity \in [Stocks -> Int]
  /\ quantity_allocated \in [Stocks -> Int]
  /\ allocation \in Rows
  /\ reserved \in [CartLines -> [Stocks -> Nat]]
  /\ live \subseteq CartLines
  /\ job \in [Workers -> {Idle} \cup Deallocation \cup Recounting]
  /\ drifted \subseteq Stocks
  /\ calls \in Nat

\* Stock.quantity_allocated is the sum of the stock's Allocation rows, except
\* on stocks where one bulk_update was given two rows, or where rows changed
\* between an unlocked read and the write made from it.
CounterExact ==
  \A s \in Stocks \ drifted : quantity_allocated[s] = Allocated(allocation, s)

\* The same without the exceptions, as update_stocks_quantity_allocated_task
\* says of it ("should have").
QuantityAllocatedExact ==
  \A s \in Stocks : quantity_allocated[s] = Allocated(allocation, s)

\* Pieces promised on stock s beyond what the stock has.
Overshoot(s) == Positive(Allocated(allocation, s) - quantity[s])

\* Nothing but the merchant's own edit of a quantity takes a stock, further
\* than it already is, beyond its quantity: not allocating, not editing an
\* order, not shipping from a stock that others were promised, not putting
\* pieces back.  Shipping allowed to exceed the stock is left out by Exceeding.
NoOversell ==
  [][(\E s \in Stocks : Overshoot(s)' > Overshoot(s)) => MerchantCall]_vars

\* A checkout that places reservations gets only pieces that are neither
\* allocated nor reserved by another checkout, unless an expired reservation
\* was revived by the refresh of reserved_until.
NoOverReservation ==
  [][\A s \in Stocks :
       LET before == Reserved(s, {})
           revived == {c \in live' \ live : reserved'[c] = reserved[c]}
       IN  Reserved(s, {})' > before /\ revived = {} =>
             Reserved(s, {})' <= Positive(quantity'[s] - Allocated(allocation', s))]_vars

\* Once the calls stop, the nightly task leaves every counter exact, whatever
\* races disturbed it and even when the task itself wrote a stale sum.
CountersRepaired == <>[]QuantityAllocatedExact

=============================================================================
