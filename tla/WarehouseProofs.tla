--------------------------- MODULE WarehouseProofs ---------------------------
(***************************************************************************)
(* What the stock bookkeeping keeps true for any stocks, lines, callers    *)
(* and number of calls: types and counters (StockInv), and that no call    *)
(* but the merchant's promises more of a stock than there is (NoOversell,  *)
(* NoOverReservation).                                                     *)
(***************************************************************************)
EXTENDS Warehouse, QuantitiesProofs

-----------------------------------------------------------------------------
(* Facts about the operators the actions are built from.                   *)

\* The sum of the rows of a stock is a natural number.
LEMMA AllocatedNat ==
  ASSUME NEW rows \in Rows, NEW s \in Stocks
  PROVE  Allocated(rows, s) \in Nat
<1>1. [l \in Lines |-> rows[l][s]] \in [Lines -> Nat]
  BY DEF Rows
<1> QED
  BY <1>1, LinesAssumption, TotalNat DEF Allocated

\* So is the sum of the reservations of a stock.
LEMMA ReservedNat ==
  ASSUME TypeOK, NEW s \in Stocks, NEW own
  PROVE  Reserved(s, own) \in Nat
<1> DEFINE others == live \ own
<1>1. IsFiniteSet(others)
  BY LinesAssumption, FS_Subset DEF TypeOK
<1>2. [c \in others |-> reserved[c][s]] \in [others -> Nat]
  BY DEF TypeOK
<1> QED
  BY <1>1, <1>2, TotalNat DEF Reserved

\* Nothing is a row, and a line with no row anywhere is a row too.
LEMMA NothingType ==
  /\ Nothing \in [Stocks -> Nat]
  /\ [l \in Lines |-> Nothing] \in Rows
BY DEF Nothing, Rows

\* The loop over sorted stocks takes natural quantities, only from stocks of
\* the variant that exist, never more than is free; asked for nothing it
\* takes nothing.
LEMMA TakenType ==
  ASSUME NEW need \in Nat, NEW v, NEW scope, NEW free \in [Stocks -> Int], NEW left
  PROVE  /\ Taken(need, v, scope, free, left) \in [Stocks -> Nat]
         /\ \A s \in Stocks :
              /\ Taken(need, v, scope, free, left)[s] <= Positive(free[s])
              /\ Taken(need, v, scope, free, left)[s] > 0 =>
                   s \in stocks /\ VariantOf[s] = v
              /\ need = 0 => Taken(need, v, scope, free, left)[s] = 0
<1> DEFINE room == [s \in Stocks |->
                      IF s \in Serving(v, scope) THEN Positive(free[s]) ELSE 0]
           earlier == [s \in Stocks |->
                         {t \in Stocks : Precedes(t, s, left, scope.point)}]
<1>1. room \in [Stocks -> Nat]
  BY DEF Positive
<1>2. earlier \in [Stocks -> SUBSET Stocks]
  OBVIOUS
<1>3. \A s \in Stocks : /\ room[s] <= Positive(free[s])
                        /\ room[s] > 0 => s \in stocks /\ VariantOf[s] = v
  BY DEF Positive, Serving
<1>4. Taken(need, v, scope, free, left) = Spread(need, room, earlier)
  BY DEF Taken
<1>5. \A s \in Stocks : Positive(free[s]) \in Nat
  BY DEF Positive
<1> HIDE DEF room, earlier
<1>6. /\ Spread(need, room, earlier) \in [Stocks -> Nat]
      /\ \A s \in Stocks : Spread(need, room, earlier)[s] <= room[s]
  BY <1>1, <1>2, StocksAssumption, SpreadBounds
<1>7. ASSUME NEW s \in Stocks
      PROVE  Spread(0, room, earlier)[s] = 0
  <2>1. IsFiniteSet(Stocks)
    BY StocksAssumption
  <2> QED
    BY ONLY <2>1, <1>1, <1>2, SpreadNothing
<1>8. \A s \in Stocks : room[s] \in Nat
  BY <1>1
<1> DEFINE taken == Spread(need, room, earlier)
<1>9. ASSUME NEW s \in Stocks
      PROVE  /\ taken[s] <= Positive(free[s])
             /\ taken[s] > 0 => s \in stocks /\ VariantOf[s] = v
             /\ need = 0 => taken[s] = 0
  <2>1. taken[s] \in Nat /\ taken[s] <= room[s] /\ (need = 0 => taken[s] = 0)
    BY <1>6, <1>7
  <2> HIDE DEF taken
  <2> QED
    BY <2>1, <1>3, <1>5, <1>8
<1> QED
  BY <1>4, <1>6, <1>9

\* deallocate_stock takes back natural quantities, never more than a row has.
LEMMA ReleasedType ==
  ASSUME NEW rows \in Rows, NEW want \in [Lines -> Nat]
  PROVE  /\ Released(rows, want) \in Rows
         /\ \A l \in Lines, s \in Stocks : Released(rows, want)[l][s] <= rows[l][s]
<1> DEFINE earlier == [s \in Stocks |-> {t \in Stocks : t < s}]
<1>1. earlier \in [Stocks -> SUBSET Stocks]
  OBVIOUS
<1>2. Released(rows, want) = [l \in Lines |-> Spread(want[l], rows[l], earlier)]
  BY DEF Released
<1> HIDE DEF earlier
<1>3. ASSUME NEW l \in Lines
      PROVE  /\ Spread(want[l], rows[l], earlier) \in [Stocks -> Nat]
             /\ \A s \in Stocks : Spread(want[l], rows[l], earlier)[s] <= rows[l][s]
  <2>1. rows[l] \in [Stocks -> Nat] /\ want[l] \in Nat
    BY DEF Rows
  <2> QED
    BY <2>1, <1>1, StocksAssumption, SpreadBounds
<1> QED
  BY <1>2, <1>3 DEF Rows

\* Rows stay rows when rows are added to them, or taken out of what they hold.
LEMMA PlusMinusType ==
  ASSUME NEW rows \in Rows, NEW more \in Rows
  PROVE  /\ Plus(rows, more) \in Rows
         /\ (\A l \in Lines, s \in Stocks : more[l][s] <= rows[l][s])
              => Minus(rows, more) \in Rows
<1>1. \A l \in Lines, s \in Stocks : rows[l][s] \in Nat /\ more[l][s] \in Nat
  BY DEF Rows
<1> QED
  BY <1>1 DEF Plus, Minus, Rows

\* The counter change bulk_update makes is a natural number for each stock,
\* and on a stock where at most one line has a row it is that line's row.
LEMMA ChangesType ==
  ASSUME NEW rows \in Rows, NEW d \in Changes(rows)
  PROVE  /\ d \in [Stocks -> Nat]
         /\ \A s \in Stocks \ SharedStocks(rows) :
              \E l \in Lines : /\ d[s] = rows[l][s]
                               /\ \A m \in Lines \ {l} : rows[m][s] = 0
<1>1. PICK first \in [Stocks -> Lines] :
        /\ \A s \in Stocks : Touching(rows, s) # {} => first[s] \in Touching(rows, s)
        /\ d = [s \in Stocks |-> rows[first[s]][s]]
  BY DEF Changes
<1>2. d \in [Stocks -> Nat]
  BY <1>1 DEF Rows
<1>3. ASSUME NEW s \in Stocks \ SharedStocks(rows)
      PROVE  \A m \in Lines \ {first[s]} : rows[m][s] = 0
  <2>1. IsFiniteSet(Touching(rows, s)) /\ Cardinality(Touching(rows, s)) \in Nat
    BY LinesAssumption, FS_Subset, FS_CardinalityType DEF Touching
  <2>2. Cardinality(Touching(rows, s)) <= 1
    BY <2>1 DEF SharedStocks
  <2>3. CASE Touching(rows, s) = {}
    BY <2>3 DEF Touching, Rows
  <2>4. CASE Touching(rows, s) # {}
    <3>1. Cardinality(Touching(rows, s)) = 1
      BY <2>1, <2>2, <2>4, FS_EmptySet
    <3>2. PICK x : Touching(rows, s) = {x}
      BY <2>1, <3>1, FS_Singleton
    <3>3. Touching(rows, s) = {first[s]}
      BY <1>1, <2>4, <3>2
    <3> QED
      BY <3>3 DEF Touching, Rows
  <2> QED
    BY <2>3, <2>4
<1> QED
  BY <1>1, <1>2, <1>3

\* Adding rows that touch stock s in one line only adds that row to its sum.
LEMMA SumOfOneMore ==
  ASSUME NEW rows \in Rows, NEW more \in Rows, NEW s \in Stocks, NEW l \in Lines,
         \A m \in Lines \ {l} : more[m][s] = 0
  PROVE  Allocated(Plus(rows, more), s) = Allocated(rows, s) + more[l][s]
<1> DEFINE f == [m \in Lines |-> rows[m][s]]
           g == [m \in Lines |-> Plus(rows, more)[m][s]]
<1>1. f \in [Lines -> Nat] /\ g \in [Lines -> Nat]
  BY DEF Rows, Plus
<1>2. /\ \A m \in Lines \ {l} : g[m] = f[m]
      /\ g[l] - f[l] = more[l][s]
  BY DEF Rows, Plus
<1>3. /\ Allocated(rows, s) = Total(f) /\ Allocated(Plus(rows, more), s) = Total(g)
      /\ Total(f) \in Nat /\ Total(g) \in Nat
  BY <1>1, LinesAssumption, TotalNat DEF Allocated
<1> HIDE DEF f, g
<1>4. Total(g) - Total(f) = g[l] - f[l]
  BY <1>1, <1>2, LinesAssumption, TotalOfOneChange
<1>5. more[l][s] \in Nat
  BY DEF Rows
<1> QED
  BY <1>2, <1>3, <1>4, <1>5

\* Taking such rows away subtracts that row from the sum.
LEMMA SumOfOneLess ==
  ASSUME NEW rows \in Rows, NEW less \in Rows, NEW s \in Stocks, NEW l \in Lines,
         \A k \in Lines, t \in Stocks : less[k][t] <= rows[k][t],
         \A m \in Lines \ {l} : less[m][s] = 0
  PROVE  Allocated(Minus(rows, less), s) = Allocated(rows, s) - less[l][s]
<1> DEFINE rest == Minus(rows, less)
<1>1. rest \in Rows
  BY PlusMinusType
<1>2. Plus(rest, less) = rows
  BY DEF Rows, Plus, Minus
<1>3. Allocated(rows, s) = Allocated(rest, s) + less[l][s]
  <2> HIDE DEF rest
  <2> QED
    BY <1>1, <1>2, SumOfOneMore
<1>4. Allocated(rest, s) \in Nat /\ less[l][s] \in Nat
  BY <1>1, AllocatedNat DEF Rows
<1> QED
  BY <1>3, <1>4

\* A stock whose counter is right stays right when the rows given to it and
\* taken from it are one line's each, and the counter moves by those rows.
LEMMA CounterMoves ==
  ASSUME NEW rows \in Rows, NEW taken \in Rows, NEW given \in Rows,
         \A l \in Lines, s \in Stocks : taken[l][s] <= rows[l][s],
         NEW down \in Changes(taken), NEW up \in Changes(given),
         NEW s \in Stocks,
         s \notin SharedStocks(taken), s \notin SharedStocks(given)
  PROVE  Allocated(Plus(Minus(rows, taken), given), s)
           = Allocated(rows, s) + up[s] - down[s]
<1> DEFINE kept == Minus(rows, taken)
<1>1. kept \in Rows
  BY PlusMinusType
<1>2. PICK l \in Lines : down[s] = taken[l][s] /\ \A m \in Lines \ {l} : taken[m][s] = 0
  BY ChangesType
<1>3. PICK k \in Lines : up[s] = given[k][s] /\ \A m \in Lines \ {k} : given[m][s] = 0
  BY ChangesType
<1>4. Allocated(kept, s) = Allocated(rows, s) - down[s]
  BY <1>2, SumOfOneLess
<1> HIDE DEF kept
<1>5. Allocated(Plus(kept, given), s) = Allocated(kept, s) + up[s]
  BY <1>1, <1>3, SumOfOneMore
<1>6. up[s] \in Nat /\ down[s] \in Nat /\ Allocated(rows, s) \in Nat
  BY ChangesType, AllocatedNat
<1> QED
  BY <1>4, <1>5, <1>6 DEF kept

\* No rows: no change, no shared stock, nothing added and nothing removed.
LEMMA NoRows ==
  ASSUME NEW rows \in Rows
  PROVE  LET none == [l \in Lines |-> Nothing]
         IN  /\ \A d \in Changes(none), s \in Stocks : d[s] = 0
             /\ SharedStocks(none) = {}
             /\ Plus(rows, none) = rows
             /\ Minus(rows, none) = rows
             /\ \A l \in Lines, s \in Stocks : none[l][s] <= rows[l][s]
<1> DEFINE none == [l \in Lines |-> Nothing]
<1>1. \A l \in Lines, s \in Stocks : none[l][s] = 0
  BY DEF Nothing
<1>2. \A d \in Changes(none), s \in Stocks : d[s] = 0
  BY <1>1 DEF Changes, Touching
<1>3. \A s \in Stocks : Touching(none, s) = {}
  BY <1>1 DEF Touching
<1>4. SharedStocks(none) = {}
  BY <1>3, FS_EmptySet DEF SharedStocks
<1>5. Plus(rows, none) = rows /\ Minus(rows, none) = rows
  BY <1>1 DEF Plus, Minus, Rows
<1>6. \A l \in Lines, s \in Stocks : none[l][s] <= rows[l][s]
  BY <1>1 DEF Rows
<1> QED
  BY <1>2, <1>4, <1>5, <1>6

-----------------------------------------------------------------------------
(* The invariant.                                                          *)

\* An order line is only ever served from stocks of its own variant that
\* exist, however its rows were spread, moved or put back.
AllocatedFromOwnVariant ==
  \A l \in Lines, s \in Stocks :
    allocation[l][s] > 0 => s \in stocks /\ VariantOf[s] = LineVariant[l]

\* The counters and the rows, together: each part is kept by every step.
StockInv == TypeOK /\ CounterExact /\ AllocatedFromOwnVariant

\* The part of the state a step that moves rows and counters must keep right.
RowsInv ==
  /\ quantity_allocated \in [Stocks -> Int]
  /\ allocation \in Rows
  /\ CounterExact
  /\ AllocatedFromOwnVariant

\* Every call that moves rows takes some away and gives some, counts both,
\* and records the stocks on which a count is lost.
LEMMA RowsMove ==
  ASSUME StockInv, NEW given \in Rows, NEW taken \in Rows,
         \A l \in Lines, s \in Stocks :
           /\ taken[l][s] <= allocation[l][s]
           /\ given[l][s] > 0 => s \in stocks /\ VariantOf[s] = LineVariant[l],
         allocation' = Plus(Minus(allocation, taken), given),
         Count(given, taken),
         drifted' = drifted \cup SharedStocks(given) \cup SharedStocks(taken),
         stocks' = stocks
  PROVE  RowsInv'
<1> USE DEF StockInv
<1>1. PICK up \in Changes(given), down \in Changes(taken) :
        quantity_allocated' =
          [s \in Stocks |-> quantity_allocated[s] + up[s] - down[s]]
  BY DEF Count
<1>2. up \in [Stocks -> Nat] /\ down \in [Stocks -> Nat]
  BY ChangesType
<1>3. allocation \in Rows /\ quantity_allocated \in [Stocks -> Int]
  BY DEF TypeOK
<1>4. quantity_allocated' \in [Stocks -> Int]
  BY <1>1, <1>2, <1>3
<1>5. allocation' \in Rows
  BY <1>3, PlusMinusType
<1>6. CounterExact'
  <2> SUFFICES ASSUME NEW s \in Stocks \ drifted'
               PROVE  quantity_allocated'[s] = Allocated(allocation', s)
    BY DEF CounterExact
  <2>1. Allocated(allocation', s) = Allocated(allocation, s) + up[s] - down[s]
    BY <1>3, CounterMoves
  <2>2. quantity_allocated[s] = Allocated(allocation, s)
    BY DEF CounterExact
  <2> QED
    BY <1>1, <2>1, <2>2
<1>7. AllocatedFromOwnVariant'
  <2> SUFFICES ASSUME NEW l \in Lines, NEW s \in Stocks, allocation'[l][s] > 0
               PROVE  s \in stocks /\ VariantOf[s] = LineVariant[l]
    BY DEF AllocatedFromOwnVariant
  <2>1. /\ allocation'[l][s] = allocation[l][s] - taken[l][s] + given[l][s]
        /\ allocation[l][s] \in Nat /\ taken[l][s] \in Nat /\ given[l][s] \in Nat
    BY <1>3 DEF Plus, Minus, Rows
  <2>2. allocation[l][s] > 0 \/ given[l][s] > 0
    BY <2>1
  <2> QED
    BY <2>2 DEF AllocatedFromOwnVariant
<1> QED
  BY <1>4, <1>5, <1>6, <1>7 DEF RowsInv

\* The rows allocate_stocks creates are rows of the right variant.
LEMMA TakenRows ==
  ASSUME NEW need \in [Lines -> Nat], NEW scope,
         NEW free \in [Stocks -> Int], NEW left
  PROVE  LET rows == [l \in Lines |-> Taken(need[l], LineVariant[l], scope, free, left)]
         IN  /\ rows \in Rows
             /\ \A l \in Lines, s \in Stocks :
                  rows[l][s] > 0 => s \in stocks /\ VariantOf[s] = LineVariant[l]
<1> DEFINE rows == [l \in Lines |-> Taken(need[l], LineVariant[l], scope, free, left)]
<1>1. ASSUME NEW l \in Lines
      PROVE  /\ rows[l] \in [Stocks -> Nat]
             /\ \A s \in Stocks :
                  rows[l][s] > 0 => s \in stocks /\ VariantOf[s] = LineVariant[l]
  BY TakenType
<1> QED
  BY <1>1 DEF Rows

\* The quantity left of each stock is an integer.
LEMMA LeftType ==
  ASSUME TypeOK, NEW rows \in Rows
  PROVE  [s \in Stocks |-> quantity[s] - Allocated(rows, s)] \in [Stocks -> Int]
BY AllocatedNat DEF TypeOK

\* allocate_stocks keeps rows and counters right.
LEMMA AllocateStep ==
  ASSUME StockInv, NEW want \in Wants, NEW scope, NEW check \in BOOLEAN, NEW own,
         AllocateStocks(want, scope, check, own)
  PROVE  RowsInv'
<1> DEFINE known == [s \in Stocks |-> IF check THEN 0 ELSE Allocated(allocation, s)]
           left == [s \in Stocks |-> quantity[s] - known[s]]
           free == [s \in Stocks |-> left[s] - (IF check THEN Reserved(s, own) ELSE 0)]
           rows == [l \in Lines |-> Taken(want[l], LineVariant[l], scope, free, left)]
           none == [l \in Lines |-> Nothing]
<1>1. TypeOK /\ allocation \in Rows /\ want \in [Lines -> Nat]
  BY BoundsAssumption DEF StockInv, TypeOK, Wants
<1>2. \A s \in Stocks : Allocated(allocation, s) \in Nat /\ Reserved(s, own) \in Nat
  BY <1>1, AllocatedNat, ReservedNat
<1>3. free \in [Stocks -> Int]
  <2>1. left \in [Stocks -> Int]
    BY <1>1, <1>2 DEF TypeOK
  <2> HIDE DEF left
  <2> QED
    BY <1>2, <2>1
<1>4. /\ allocation' = Plus(allocation, rows)
      /\ Count(rows, none)
      /\ drifted' = drifted \cup SharedStocks(rows)
      /\ stocks' = stocks
  BY DEF AllocateStocks
<1> HIDE DEF free, left
<1>5. /\ rows \in Rows
      /\ \A l \in Lines, s \in Stocks :
           rows[l][s] > 0 => s \in stocks /\ VariantOf[s] = LineVariant[l]
  <2>1. ASSUME NEW l \in Lines
        PROVE  /\ Taken(want[l], LineVariant[l], scope, free, left) \in [Stocks -> Nat]
               /\ \A s \in Stocks :
                    Taken(want[l], LineVariant[l], scope, free, left)[s] > 0
                      => s \in stocks /\ VariantOf[s] = LineVariant[l]
    <3>1. want[l] \in Nat
      BY <1>1
    <3> QED
      BY ONLY <3>1, <1>3, TakenType
  <2> QED
    BY <2>1 DEF Rows
<1> HIDE DEF rows
<1>6. none \in Rows /\ Minus(allocation, none) = allocation /\ SharedStocks(none) = {}
      /\ \A l \in Lines, s \in Stocks : none[l][s] <= allocation[l][s]
  BY <1>1, NoRows, NothingType
<1> HIDE DEF none
<1> QED
  BY <1>4, <1>5, <1>6, RowsMove

\* increase_allocations keeps rows and counters right.
LEMMA IncreaseAllocationsStep ==
  ASSUME StockInv, NEW want \in Wants, NEW scope, IncreaseAllocations(want, scope)
  PROVE  RowsInv'
<1> DEFINE held == [l \in Lines |-> IF want[l] > 0 THEN allocation[l] ELSE Nothing]
           kept == Minus(allocation, held)
           left == [s \in Stocks |-> quantity[s] - Allocated(kept, s)]
           need == [l \in Lines |-> want[l] + Total(held[l])]
           rows == [l \in Lines |-> Taken(need[l], LineVariant[l], scope, left, left)]
<1>1. TypeOK /\ allocation \in Rows /\ want \in [Lines -> Nat]
  BY BoundsAssumption DEF StockInv, TypeOK, Wants
<1>2. /\ held \in Rows
      /\ \A l \in Lines, s \in Stocks : held[l][s] <= allocation[l][s]
  BY <1>1, NothingType DEF Rows, Nothing
<1>3. /\ allocation' = Plus(kept, rows)
      /\ Count(rows, held)
      /\ drifted' = drifted \cup SharedStocks(rows) \cup SharedStocks(held)
      /\ stocks' = stocks
  BY DEF IncreaseAllocations
<1> HIDE DEF held
<1>4. kept \in Rows
  BY <1>1, <1>2, PlusMinusType
<1>5. left \in [Stocks -> Int]
  BY <1>1, <1>4, LeftType
<1>6. need \in [Lines -> Nat]
  <2>1. \A l \in Lines : held[l] \in [Stocks -> Nat]
    BY <1>2 DEF Rows
  <2>2. \A l \in Lines : Total(held[l]) \in Nat
    BY <2>1, StocksAssumption, TotalNat
  <2> QED
    BY <1>1, <2>2
<1> HIDE DEF left, need
<1>7. /\ rows \in Rows
      /\ \A l \in Lines, s \in Stocks :
           rows[l][s] > 0 => s \in stocks /\ VariantOf[s] = LineVariant[l]
  BY <1>5, <1>6, TakenRows
<1> HIDE DEF rows
<1> QED
  BY <1>2, <1>3, <1>7, RowsMove

\* A call that only takes rows away keeps rows and counters right.
LEMMA TakingAwayStep ==
  ASSUME StockInv, NEW taken \in Rows,
         \A l \in Lines, s \in Stocks : taken[l][s] <= allocation[l][s],
         allocation' = Minus(allocation, taken),
         Count([l \in Lines |-> Nothing], taken),
         drifted' = drifted \cup SharedStocks(taken),
         stocks' = stocks
  PROVE  RowsInv'
<1> DEFINE none == [l \in Lines |-> Nothing]
<1>1. allocation \in Rows
  BY DEF StockInv, TypeOK
<1>2. Minus(allocation, taken) \in Rows
  BY <1>1, PlusMinusType
<1>3. /\ none \in Rows
      /\ Plus(Minus(allocation, taken), none) = Minus(allocation, taken)
      /\ SharedStocks(none) = {}
      /\ \A l \in Lines, s \in Stocks : ~(none[l][s] > 0)
  <2>1. \A l \in Lines, s \in Stocks : none[l][s] = 0
    BY DEF Nothing
  <2> QED
    BY <1>2, <2>1, NoRows, NothingType
<1> HIDE DEF none
<1>4. Count(none, taken)
  BY DEF none
<1> QED
  BY <1>3, <1>4, RowsMove

\* deallocate_stock keeps rows and counters right.
LEMMA DeallocateStep ==
  ASSUME StockInv, NEW want \in Wants, DeallocateStock(want)
  PROVE  RowsInv'
<1>1. allocation \in Rows /\ want \in [Lines -> Nat]
  BY BoundsAssumption DEF StockInv, TypeOK, Wants
<1>2. /\ Released(allocation, want) \in Rows
      /\ \A l \in Lines, s \in Stocks :
           Released(allocation, want)[l][s] <= allocation[l][s]
  BY <1>1, ReleasedType
<1> QED
  BY <1>2, TakingAwayStep DEF DeallocateStock

\* So does decrease_stock.
LEMMA DecreaseStep ==
  ASSUME StockInv, NEW want \in Wants, NEW at, NEW exceed,
         DecreaseStock(want, at, exceed)
  PROVE  RowsInv'
<1>1. allocation \in Rows /\ want \in [Lines -> Nat]
  BY BoundsAssumption DEF StockInv, TypeOK, Wants
<1>2. /\ Released(allocation, want) \in Rows
      /\ \A l \in Lines, s \in Stocks :
           Released(allocation, want)[l][s] <= allocation[l][s]
  BY <1>1, ReleasedType
<1> QED
  BY <1>2, TakingAwayStep DEF DecreaseStock

\* increase_stock adds the same to the row and to the counter.
LEMMA IncreaseStockStep ==
  ASSUME StockInv, NEW l \in Lines, NEW s \in Stocks, NEW n \in Nat,
         NEW allocate \in BOOLEAN, IncreaseStock(l, s, n, allocate)
  PROVE  RowsInv'
<1>1. /\ allocation \in Rows /\ quantity_allocated \in [Stocks -> Int]
      /\ CounterExact /\ AllocatedFromOwnVariant
  BY DEF StockInv, TypeOK
<1>2. VariantOf[s] = LineVariant[l] /\ stocks' = stocks \cup {s} /\ drifted' = drifted
  BY DEF IncreaseStock
<1>3. CASE ~allocate
  <2>1. UNCHANGED <<allocation, quantity_allocated>>
    BY <1>3 DEF IncreaseStock
  <2> QED
    BY <1>1, <1>2, <2>1 DEF RowsInv, CounterExact, AllocatedFromOwnVariant
<1>4. CASE allocate
  <2> DEFINE more == [m \in Lines |-> [t \in Stocks |-> IF m = l /\ t = s THEN n ELSE 0]]
  <2>1. /\ allocation' = [allocation EXCEPT ![l][s] = @ + n]
        /\ quantity_allocated' = [quantity_allocated EXCEPT ![s] = @ + n]
    BY <1>4 DEF IncreaseStock
  <2>2. more \in Rows
    BY DEF Rows
  <2>3. allocation' = Plus(allocation, more)
    <3>1. \A m \in Lines, t \in Stocks :
            allocation'[m][t] = allocation[m][t] + more[m][t]
      BY <1>1, <2>1 DEF Rows
    <3>2. allocation' = [m \in Lines |-> [t \in Stocks |-> allocation'[m][t]]]
      BY <1>1, <2>1 DEF Rows
    <3> QED
      BY <3>1, <3>2 DEF Plus
  <2>4. allocation' \in Rows
    BY <1>1, <2>2, <2>3, PlusMinusType
  <2>5. ASSUME NEW t \in Stocks \ drifted
        PROVE  quantity_allocated'[t] = Allocated(allocation', t)
    <3>1. \A m \in Lines \ {l} : more[m][t] = 0
      OBVIOUS
    <3>2. more[l][t] = (IF t = s THEN n ELSE 0)
      OBVIOUS
    <3> HIDE DEF more
    <3>3. Allocated(allocation', t) = Allocated(allocation, t) + more[l][t]
      BY <1>1, <2>2, <2>3, <3>1, SumOfOneMore
    <3>4. quantity_allocated[t] = Allocated(allocation, t)
      BY <1>1 DEF CounterExact
    <3>5. quantity_allocated[t] \in Int
      BY <1>1
    <3> QED
      BY <1>1, <2>1, <3>2, <3>3, <3>4, <3>5
  <2>6. AllocatedFromOwnVariant'
    <3> SUFFICES ASSUME NEW m \in Lines, NEW t \in Stocks, allocation'[m][t] > 0
                 PROVE  t \in stocks' /\ VariantOf[t] = LineVariant[m]
      BY DEF AllocatedFromOwnVariant
    <3>1. CASE m = l /\ t = s
      BY <1>2, <3>1
    <3>2. CASE ~(m = l /\ t = s)
      <4>1. allocation'[m][t] = allocation[m][t]
        BY <1>1, <2>1, <3>2 DEF Rows
      <4> QED
        BY <1>1, <1>2, <4>1 DEF AllocatedFromOwnVariant
    <3> QED
      BY <3>1, <3>2
  <2>7. quantity_allocated' \in [Stocks -> Int]
    BY <1>1, <2>1
  <2> QED
    BY <1>2, <2>4, <2>5, <2>6, <2>7 DEF RowsInv, CounterExact
<1> QED
  BY <1>3, <1>4

\* deallocate_stock_for_order(s): what is zeroed is what the rows are now,
\* what is subtracted is what they were; where the two differ, or two rows
\* share a stock, the stock is recorded.
LEMMA DeallocateOrdersStep ==
  ASSUME StockInv, NEW w \in Workers, DeallocateOrders(w)
  PROVE  RowsInv'
<1> DEFINE now == [l \in Lines |->
                     IF OrderOf[l] \in job[w].orders THEN allocation[l] ELSE Nothing]
           none == [l \in Lines |-> Nothing]
           read == job[w].rows
<1>1. /\ allocation \in Rows /\ quantity_allocated \in [Stocks -> Int]
      /\ CounterExact /\ AllocatedFromOwnVariant
  BY DEF StockInv, TypeOK
<1>2. read \in Rows
  <2>1. job[w] \in {Idle} \cup Deallocation \cup Recounting /\ job[w].kind = "deallocate"
    BY DEF StockInv, TypeOK, DeallocateOrders
  <2> QED
    BY <2>1 DEF Idle, Deallocation, Recounting
<1>3. /\ now \in Rows
      /\ \A l \in Lines, s \in Stocks : now[l][s] <= allocation[l][s]
  BY <1>1, NothingType DEF Rows, Nothing
<1>4. /\ allocation' = Minus(allocation, now)
      /\ Count(none, read)
      /\ stocks' = stocks
      /\ drifted' = drifted \cup SharedStocks(read) \cup
           {s \in Stocks : \E l \in Lines : now[l][s] # read[l][s]}
  BY DEF DeallocateOrders
<1> HIDE DEF now, read
<1>5. PICK up \in Changes(none), down \in Changes(read) :
        quantity_allocated' =
          [s \in Stocks |-> quantity_allocated[s] + up[s] - down[s]]
  BY <1>4 DEF Count
<1>6. /\ \A s \in Stocks : up[s] = 0
      /\ down \in [Stocks -> Nat]
  BY <1>1, <1>2, NoRows, ChangesType
<1>7. quantity_allocated' \in [Stocks -> Int]
  BY <1>1, <1>5, <1>6
<1>8. allocation' \in Rows
  BY <1>1, <1>3, <1>4, PlusMinusType
<1>9. ASSUME NEW s \in Stocks \ drifted'
      PROVE  quantity_allocated'[s] = Allocated(allocation', s)
  <2>1. PICK l \in Lines : down[s] = read[l][s] /\ \A m \in Lines \ {l} : read[m][s] = 0
    BY <1>2, <1>4, ChangesType
  <2>2. \A m \in Lines : now[m][s] = read[m][s]
    BY <1>4
  <2>3. Allocated(allocation', s) = Allocated(allocation, s) - now[l][s]
    BY <1>1, <1>3, <1>4, <2>1, <2>2, SumOfOneLess
  <2>4. quantity_allocated[s] = Allocated(allocation, s)
    BY <1>1, <1>4 DEF CounterExact
  <2> QED
    BY <1>1, <1>5, <1>6, <2>1, <2>2, <2>3, <2>4
<1>10. AllocatedFromOwnVariant'
  <2>1. \A l \in Lines, s \in Stocks : allocation'[l][s] > 0 => allocation[l][s] > 0
    BY <1>1, <1>3, <1>4 DEF Minus, Rows
  <2> QED
    BY <1>1, <1>4, <2>1 DEF AllocatedFromOwnVariant
<1> QED
  BY <1>7, <1>8, <1>9, <1>10 DEF RowsInv, CounterExact

\* The recount writes the sums it read; where they are no longer the sums,
\* the stock is recorded.
LEMMA WriteSumsStep ==
  ASSUME StockInv, NEW w \in Workers, WriteSums(w)
  PROVE  RowsInv'
<1>1. /\ allocation \in Rows /\ quantity_allocated \in [Stocks -> Int]
      /\ CounterExact /\ AllocatedFromOwnVariant
  BY DEF StockInv, TypeOK
<1>2. job[w].sum \in [Stocks -> Nat]
  <2>1. job[w] \in {Idle} \cup Deallocation \cup Recounting /\ job[w].kind = "recount"
    BY DEF StockInv, TypeOK, WriteSums
  <2> QED
    BY <2>1 DEF Idle, Deallocation, Recounting
<1>3. /\ quantity_allocated' = [s \in Stocks |-> IF s \in job[w].wrong
                                                 THEN job[w].sum[s]
                                                 ELSE quantity_allocated[s]]
      /\ drifted' = (drifted \ job[w].wrong) \cup
           {s \in job[w].wrong : job[w].sum[s] # Allocated(allocation, s)}
      /\ UNCHANGED <<allocation, stocks>>
  BY DEF WriteSums
<1>4. quantity_allocated' \in [Stocks -> Int]
  BY <1>1, <1>2, <1>3
<1>5. CounterExact'
  BY <1>1, <1>3 DEF CounterExact
<1> QED
  BY <1>1, <1>3, <1>4, <1>5 DEF RowsInv, AllocatedFromOwnVariant

-----------------------------------------------------------------------------
(* The theorems.                                                           *)

\* The invariant holds when the first call is made.
LEMMA StockInvInit == Init => StockInv
<1> SUFFICES ASSUME Init PROVE StockInv
  OBVIOUS
<1>1. TypeOK
  <2>1. quantity \in [Stocks -> Int]
    BY BoundsAssumption DEF Init
  <2>2. reserved \in [CartLines -> [Stocks -> Nat]]
    BY NothingType DEF Init
  <2> QED
    BY <2>1, <2>2, NothingType DEF Init, TypeOK, Nothing
<1>2. \A s \in Stocks : Allocated(allocation, s) = 0
  <2> SUFFICES ASSUME NEW s \in Stocks PROVE Allocated(allocation, s) = 0
    OBVIOUS
  <2>1. \A l \in Lines : allocation[l][s] = 0
    BY DEF Init, Nothing
  <2>2. Units([l \in Lines |-> allocation[l][s]]) = {}
    BY <2>1 DEF Units
  <2> QED
    BY <2>2, FS_EmptySet DEF Allocated, Total
<1>3. CounterExact /\ AllocatedFromOwnVariant
  BY <1>2 DEF Init, Nothing, CounterExact, AllocatedFromOwnVariant
<1> QED
  BY <1>1, <1>3 DEF StockInv

\* The parts of TypeOK that RowsInv does not speak of.
RestTypeOK ==
  /\ stocks \subseteq Stocks
  /\ quantity \in [Stocks -> Int]
  /\ reserved \in [CartLines -> [Stocks -> Nat]]
  /\ live \subseteq CartLines
  /\ job \in [Workers -> {Idle} \cup Deallocation \cup Recounting]
  /\ drifted \subseteq Stocks
  /\ calls \in Nat

\* An order's call keeps the invariant.
LEMMA OrderCallStep == ASSUME StockInv, OrderCall PROVE StockInv'
<1> USE DEF StockInv
<1>1. calls' \in Nat
  BY DEF OrderCall, Call, TypeOK
<1>2. PICK want \in Wants :
       \/ \E scope \in Scopes, check \in Reservations, own \in SUBSET CartLines :
            AllocateStocks(want, scope, check, own)
       \/ \E scope \in Scopes : IncreaseAllocations(want, scope)
       \/ DeallocateStock(want)
       \/ \E at \in Sources, exceed \in Exceeding : DecreaseStock(want, at, exceed)
  BY DEF OrderCall
<1>3. ASSUME NEW scope \in Scopes, NEW check \in Reservations, NEW own \in SUBSET CartLines,
             AllocateStocks(want, scope, check, own)
      PROVE  StockInv'
  <2>1. check \in BOOLEAN
    BY BoundsAssumption
  <2>2. RowsInv'
    BY <1>3, <2>1, AllocateStep
  <2>3. RestTypeOK'
    BY <1>1, <1>3 DEF AllocateStocks, TypeOK, RestTypeOK, SharedStocks
  <2> QED
    BY <2>2, <2>3 DEF RowsInv, RestTypeOK, TypeOK
<1>4. ASSUME NEW scope \in Scopes, IncreaseAllocations(want, scope)
      PROVE  StockInv'
  <2>1. RowsInv'
    BY <1>4, IncreaseAllocationsStep
  <2>2. RestTypeOK'
    BY <1>1, <1>4 DEF IncreaseAllocations, TypeOK, RestTypeOK, SharedStocks
  <2> QED
    BY <2>1, <2>2 DEF RowsInv, RestTypeOK, TypeOK
<1>5. CASE DeallocateStock(want)
  <2>1. RowsInv'
    BY <1>5, DeallocateStep
  <2>2. RestTypeOK'
    BY <1>1, <1>5 DEF DeallocateStock, TypeOK, RestTypeOK, SharedStocks
  <2> QED
    BY <2>1, <2>2 DEF RowsInv, RestTypeOK, TypeOK
<1>6. ASSUME NEW at \in Sources, NEW exceed \in Exceeding, DecreaseStock(want, at, exceed)
      PROVE  StockInv'
  <2>1. RowsInv'
    BY <1>6, DecreaseStep
  <2> DEFINE shipped(s) == Total([l \in Lines |-> IF at[l] = s THEN want[l] ELSE 0])
  <2>2. \A s \in Stocks : shipped(s) \in Nat
    <3> SUFFICES ASSUME NEW s \in Stocks PROVE shipped(s) \in Nat
      OBVIOUS
    <3>1. [l \in Lines |-> IF at[l] = s THEN want[l] ELSE 0] \in [Lines -> Nat]
      BY BoundsAssumption DEF Wants
    <3> QED
      BY <3>1, LinesAssumption, TotalNat
  <2>3. quantity' = [s \in Stocks |-> IF s \in stocks THEN quantity[s] - shipped(s)
                                                     ELSE quantity[s]]
    BY <1>6 DEF DecreaseStock
  <2> HIDE DEF shipped
  <2>4. quantity' \in [Stocks -> Int]
    BY <2>2, <2>3 DEF TypeOK
  <2>5. RestTypeOK'
    BY <1>1, <1>6, <2>4 DEF DecreaseStock, TypeOK, RestTypeOK, SharedStocks
  <2> QED
    BY <2>1, <2>5 DEF RowsInv, RestTypeOK, TypeOK
<1> QED
  BY <1>2, <1>3, <1>4, <1>5, <1>6

\* A step that leaves rows, counters and the history alone keeps RowsInv.
LEMMA RowsUntouched ==
  ASSUME StockInv, UNCHANGED <<quantity_allocated, allocation, drifted>>,
         stocks \subseteq stocks'
  PROVE  RowsInv'
BY DEF StockInv, TypeOK, RowsInv, CounterExact, AllocatedFromOwnVariant

\* Every other step keeps the invariant.
LEMMA OtherStep ==
  ASSUME StockInv,
         \/ RestockCall \/ CancelCall \/ MerchantCall \/ CheckoutCall
         \/ Crash \/ Recount \/ Clock \/ \E w \in Workers : Commit(w)
  PROVE  StockInv'
<1> USE DEF StockInv
<1>0. TypeOK
  OBVIOUS
<1>1. CASE RestockCall
  <2>1. PICK l \in Lines, s \in Stocks, n \in 1 .. MaxRequest, allocate \in BOOLEAN :
          IncreaseStock(l, s, n, allocate)
    BY <1>1 DEF RestockCall
  <2>2. n \in Nat
    BY BoundsAssumption
  <2>3. RowsInv'
    BY <2>1, <2>2, IncreaseStockStep
  <2>4. RestTypeOK'
    BY <1>1, <2>1, <2>2 DEF RestockCall, Call, IncreaseStock, TypeOK, RestTypeOK
  <2> QED
    BY <2>3, <2>4 DEF RowsInv, RestTypeOK, TypeOK
<1>2. CASE CancelCall
  <2>1. PICK w \in Workers, orders \in SUBSET Orders : ReadOrderAllocations(w, orders)
    BY <1>2 DEF CancelCall
  <2>2. RowsInv'
    BY <2>1, RowsUntouched DEF ReadOrderAllocations
  <2>3. [kind |-> "deallocate", orders |-> orders,
         rows |-> [l \in Lines |->
                     IF OrderOf[l] \in orders THEN allocation[l] ELSE Nothing]]
          \in Deallocation
    BY <1>0, NothingType DEF Deallocation, Rows, TypeOK
  <2>4. RestTypeOK'
    BY <1>0, <1>2, <2>1, <2>3 DEF CancelCall, Call, ReadOrderAllocations, TypeOK, RestTypeOK
  <2> QED
    BY <2>2, <2>4 DEF RowsInv, RestTypeOK, TypeOK
<1>3. CASE MerchantCall
  <2>1. PICK s \in Stocks, n \in 0 .. QuantityCap : SetStockQuantity(s, n)
    BY <1>3 DEF MerchantCall
  <2>2. RowsInv'
    BY <2>1, RowsUntouched DEF SetStockQuantity
  <2>3. n \in Int
    BY BoundsAssumption
  <2>4. RestTypeOK'
    BY <1>0, <1>3, <2>1, <2>3 DEF MerchantCall, Call, SetStockQuantity, TypeOK, RestTypeOK
  <2> QED
    BY <2>2, <2>4 DEF RowsInv, RestTypeOK, TypeOK
<1>4. CASE CheckoutCall
  <2>1. PICK want \in CartWants, refresh \in SUBSET CartLines, scope \in Scopes :
          ReserveStocks(want, refresh, scope)
    BY <1>4 DEF CheckoutCall
  <2>2. RowsInv'
    BY <2>1, RowsUntouched DEF ReserveStocks
  <2> DEFINE own == {c \in CartLines : want[c] > 0}
             left == [s \in Stocks |-> quantity[s] - Allocated(allocation, s)]
             free == [s \in Stocks |-> left[s] - Reserved(s, own)]
  <2>3. free \in [Stocks -> Int]
    <3>1. left \in [Stocks -> Int]
      BY <1>0, LeftType DEF TypeOK
    <3>2. \A s \in Stocks : Reserved(s, own) \in Nat
      BY <1>0, ReservedNat
    <3> HIDE DEF left
    <3> QED
      BY <3>1, <3>2
  <2>4. /\ reserved' = [c \in CartLines |->
                          IF c \in own
                          THEN Taken(want[c], CartVariant[c], scope, free, left)
                          ELSE reserved[c]]
        /\ live' = live \cup own \cup {c \in refresh : reserved[c] # Nothing}
    BY <2>1 DEF ReserveStocks
  <2> HIDE DEF free, left
  <2>5. \A c \in CartLines : Taken(want[c], CartVariant[c], scope, free, left) \in [Stocks -> Nat]
    <3>1. \A c \in CartLines : want[c] \in Nat
      BY BoundsAssumption DEF CartWants
    <3> QED
      BY <2>3, <3>1, TakenType
  <2>6. reserved' \in [CartLines -> [Stocks -> Nat]]
    BY <1>0, <2>4, <2>5 DEF TypeOK
  <2>7. live' \subseteq CartLines
    BY <1>0, <2>4 DEF TypeOK
  <2>8. UNCHANGED <<stocks, quantity, job, drifted>> /\ calls' = calls + 1
    BY <1>4, <2>1 DEF CheckoutCall, Call, ReserveStocks
  <2>9. RestTypeOK'
    BY <1>0, <2>6, <2>7, <2>8 DEF TypeOK, RestTypeOK
  <2> QED
    BY <2>2, <2>9 DEF RowsInv, RestTypeOK, TypeOK
<1>5. CASE Crash
  <2>1. RowsInv'
    BY <1>5, RowsUntouched DEF Crash
  <2>2. RestTypeOK'
    BY <1>0, <1>5 DEF Crash, Call, TypeOK, RestTypeOK
  <2> QED
    BY <2>1, <2>2 DEF RowsInv, RestTypeOK, TypeOK
<1>6. CASE Recount
  <2>1. PICK w \in Workers : ReadMismatches(w)
    BY <1>6 DEF Recount
  <2>2. RowsInv'
    BY <2>1, RowsUntouched DEF ReadMismatches
  <2> DEFINE sum == [s \in Stocks |-> Allocated(allocation, s)]
             wrong == {s \in stocks : quantity_allocated[s] # sum[s]}
  <2>3. sum \in [Stocks -> Nat]
    BY <1>0, AllocatedNat DEF TypeOK
  <2>4. job' = [job EXCEPT ![w] = [kind |-> "recount", wrong |-> wrong, sum |-> sum]]
    BY <2>1 DEF ReadMismatches
  <2>5. wrong \in SUBSET Stocks
    BY <1>0 DEF TypeOK
  <2> HIDE DEF sum, wrong
  <2>6. RestTypeOK'
    <3> DEFINE recounting == [kind |-> "recount", wrong |-> wrong, sum |-> sum]
    <3>1. recounting \in Recounting
      BY <2>3, <2>5 DEF Recounting
    <3>2. job' \in [Workers -> {Idle} \cup Deallocation \cup Recounting]
      <4> HIDE DEF recounting
      <4>1. job' = [job EXCEPT ![w] = recounting]
        BY <2>4 DEF recounting
      <4> QED
        BY <1>0, <3>1, <4>1 DEF TypeOK
    <3> QED
      BY <1>0, <1>6, <2>1, <3>2 DEF Recount, ReadMismatches, TypeOK, RestTypeOK
  <2> QED
    BY <2>2, <2>6 DEF RowsInv, RestTypeOK, TypeOK
<1>7. CASE Clock
  <2>1. RowsInv'
    BY <1>7, RowsUntouched DEF Clock, ExpireReservation, DeleteExpiredReservations
  <2>2. RestTypeOK'
    BY <1>0, <1>7, NothingType
       DEF Clock, ExpireReservation, DeleteExpiredReservations, TypeOK, RestTypeOK
  <2> QED
    BY <2>1, <2>2 DEF RowsInv, RestTypeOK, TypeOK
<1>8. ASSUME NEW w \in Workers, Commit(w)
      PROVE  StockInv'
  <2>1. CASE DeallocateOrders(w)
    <3>1. RowsInv'
      BY <2>1, DeallocateOrdersStep
    <3>2. RestTypeOK'
      BY <1>0, <1>8, <2>1 DEF Commit, DeallocateOrders, TypeOK, RestTypeOK, SharedStocks
    <3> QED
      BY <3>1, <3>2 DEF RowsInv, RestTypeOK, TypeOK
  <2>2. CASE WriteSums(w)
    <3>1. RowsInv'
      BY <2>2, WriteSumsStep
    <3>2. job[w].wrong \subseteq Stocks
      <4>1. job[w] \in {Idle} \cup Deallocation \cup Recounting /\ job[w].kind = "recount"
        BY <1>0, <2>2 DEF TypeOK, WriteSums
      <4> QED
        BY <4>1 DEF Idle, Deallocation, Recounting
    <3>3. RestTypeOK'
      BY <1>0, <1>8, <2>2, <3>2 DEF Commit, WriteSums, TypeOK, RestTypeOK
    <3> QED
      BY <3>1, <3>3 DEF RowsInv, RestTypeOK, TypeOK
  <2> QED
    BY <1>8, <2>1, <2>2 DEF Commit
<1> QED
  BY <1>1, <1>2, <1>3, <1>4, <1>5, <1>6, <1>7, <1>8

\* Whatever calls are made, in whatever order: the columns keep their types,
\* no Allocation row goes below zero, every counter is exact save where a
\* recorded race disturbed it, and lines are served from their own variant.
THEOREM StockInvAlways == Spec => []StockInv
<1>1. Init => StockInv
  BY StockInvInit
<1>2. StockInv /\ [Next]_vars => StockInv'
  <2> SUFFICES ASSUME StockInv, [Next]_vars PROVE StockInv'
    OBVIOUS
  <2>1. CASE OrderCall
    BY <2>1, OrderCallStep
  <2>2. CASE \/ RestockCall \/ CancelCall \/ MerchantCall \/ CheckoutCall
             \/ Crash \/ Recount \/ Clock \/ \E w \in Workers : Commit(w)
    BY <2>2, OtherStep
  <2>3. CASE UNCHANGED vars
    BY <2>3 DEF vars, StockInv, TypeOK, CounterExact, AllocatedFromOwnVariant
  <2> QED
    BY <2>1, <2>2, <2>3 DEF Next
<1> QED
  BY <1>1, <1>2, PTL DEF Spec

\* Stock.quantity_allocated is the sum of the Allocation rows on every stock
\* that no collapsed bulk_update and no stale read has disturbed.
THEOREM CounterExactAlways == Spec => []CounterExact
<1>1. StockInv => CounterExact
  BY DEF StockInv
<1> QED
  BY <1>1, StockInvAlways, PTL

\* Every column keeps its type.
THEOREM TypeOKAlways == Spec => []TypeOK
<1>1. StockInv => TypeOK
  BY DEF StockInv
<1> QED
  BY <1>1, StockInvAlways, PTL

-----------------------------------------------------------------------------
(* What a step may never do to the promises made on a stock.               *)

\* Calls that may not exceed the stock and name a variant once.
Careful == Exceeding \subseteq {FALSE} /\ ~SharedVariant

\* A call that checks reservations, as completing a checkout does, and counts
\* the allocations of its stocks as zero.
CheckedCall ==
  \E want \in Wants, scope \in Scopes, own \in SUBSET CartLines :
    AllocateStocks(want, scope, TRUE, own)

\* Rows that are no larger add up to no more.
LEMMA AllocatedMonotone ==
  ASSUME NEW rows \in Rows, NEW fewer \in Rows, NEW s \in Stocks,
         \A l \in Lines : fewer[l][s] <= rows[l][s]
  PROVE  Allocated(fewer, s) <= Allocated(rows, s)
<1> DEFINE f == [l \in Lines |-> rows[l][s]]
           g == [l \in Lines |-> fewer[l][s]]
<1>1. f \in [Lines -> Nat] /\ g \in [Lines -> Nat] /\ \A l \in Lines : g[l] <= f[l]
  BY DEF Rows
<1>2. Allocated(rows, s) = Total(f) /\ Allocated(fewer, s) = Total(g)
  BY DEF Allocated
<1> HIDE DEF f, g
<1>3. Total(g) <= Total(f)
  BY <1>1, LinesAssumption, TotalMonotone
<1> QED
  BY <1>2, <1>3

\* Taking away what is there leaves no more than there was.
LEMMA LessAllocated ==
  ASSUME NEW rows \in Rows, NEW taken \in Rows, NEW s \in Stocks,
         \A l \in Lines, t \in Stocks : taken[l][t] <= rows[l][t]
  PROVE  Allocated(Minus(rows, taken), s) <= Allocated(rows, s)
<1>1. Minus(rows, taken) \in Rows
  BY PlusMinusType
<1>2. \A l \in Lines : Minus(rows, taken)[l][s] <= rows[l][s]
  BY DEF Minus, Rows
<1> QED
  BY <1>1, <1>2, AllocatedMonotone

\* When no two lines of a call have one variant, one line at most takes
\* pieces of a stock.
LEMMA TakenByOne ==
  ASSUME NEW rows \in Rows, NEW need \in [Lines -> Nat], NEW s \in Stocks,
         \A l, m \in Lines : need[l] > 0 /\ need[m] > 0 /\ l # m =>
                               LineVariant[l] # LineVariant[m],
         \A l \in Lines : /\ need[l] = 0 => rows[l][s] = 0
                          /\ rows[l][s] > 0 => VariantOf[s] = LineVariant[l]
  PROVE  \E l \in Lines : \A m \in Lines \ {l} : rows[m][s] = 0
<1>1. \A l \in Lines : rows[l][s] \in Nat /\ need[l] \in Nat
  BY DEF Rows
<1>2. CASE \E l \in Lines : rows[l][s] > 0
  <2>1. PICK l \in Lines : rows[l][s] > 0
    BY <1>2
  <2>2. \A m \in Lines \ {l} : rows[m][s] = 0
    BY <1>1, <2>1
  <2> QED
    BY <2>2
<1>3. CASE \A l \in Lines : rows[l][s] = 0
  BY <1>3, LinesAssumption
<1> QED
  BY <1>1, <1>2, <1>3

\* A stock is not overshot further by giving the lines of a call what is free.
LEMMA GivenFree ==
  ASSUME TypeOK, NEW kept \in Rows, NEW rows \in Rows, NEW s \in Stocks,
         Allocated(kept, s) <= Allocated(allocation, s),
         \E l \in Lines : /\ rows[l][s] <= Positive(quantity[s] - Allocated(kept, s))
                          /\ \A m \in Lines \ {l} : rows[m][s] = 0,
         allocation' = Plus(kept, rows), quantity' = quantity
  PROVE  ~(Overshoot(s)' > Overshoot(s))
<1>1. PICK l \in Lines : /\ rows[l][s] <= Positive(quantity[s] - Allocated(kept, s))
                         /\ \A m \in Lines \ {l} : rows[m][s] = 0
  OBVIOUS
<1>2. Allocated(allocation', s) = Allocated(kept, s) + rows[l][s]
  BY <1>1, SumOfOneMore
<1>3. /\ quantity[s] \in Int /\ rows[l][s] \in Nat
      /\ Allocated(kept, s) \in Nat /\ Allocated(allocation, s) \in Nat
  BY AllocatedNat DEF TypeOK, Rows
<1> QED
  BY <1>1, <1>2, <1>3 DEF Overshoot, Positive

\* Nor by taking rows away from it.
LEMMA TakenAway ==
  ASSUME TypeOK, NEW s \in Stocks,
         Allocated(allocation', s) \in Nat,
         Allocated(allocation', s) <= Allocated(allocation, s),
         quantity' = quantity
  PROVE  ~(Overshoot(s)' > Overshoot(s))
<1>1. Allocated(allocation, s) \in Nat /\ quantity[s] \in Int
  BY AllocatedNat DEF TypeOK
<1> QED
  BY <1>1 DEF Overshoot, Positive

\* allocate_stocks, when it does not check reservations.
LEMMA AllocateNoOversell ==
  ASSUME TypeOK, ~SharedVariant, NEW want \in Wants, NEW scope, NEW own,
         AllocateStocks(want, scope, FALSE, own), NEW s \in Stocks
  PROVE  ~(Overshoot(s)' > Overshoot(s))
<1> DEFINE left == [t \in Stocks |-> quantity[t] - Allocated(allocation, t)]
           rows == [l \in Lines |-> Taken(want[l], LineVariant[l], scope, left, left)]
<1>1. want \in [Lines -> Nat]
  BY BoundsAssumption DEF Wants
<1>2. /\ allocation \in Rows /\ want \in [Lines -> Nat]
      /\ \A l, m \in Lines : want[l] > 0 /\ want[m] > 0 /\ l # m =>
                               LineVariant[l] # LineVariant[m]
  BY BoundsAssumption DEF TypeOK, Wants
<1>3. left \in [Stocks -> Int]
  BY <1>2, LeftType
<1>4. allocation' = Plus(allocation, rows) /\ quantity' = quantity
  <2>1. /\ [t \in Stocks |-> IF FALSE THEN 0 ELSE Allocated(allocation, t)]
             = [t \in Stocks |-> Allocated(allocation, t)]
        /\ left = [t \in Stocks |-> quantity[t] - [u \in Stocks |-> Allocated(allocation, u)][t]]
    OBVIOUS
  <2>2. [t \in Stocks |-> left[t] - (IF FALSE THEN Reserved(t, own) ELSE 0)] = left
    BY <1>3
  <2> HIDE DEF left
  <2> QED
    BY <2>1, <2>2 DEF AllocateStocks
<1>5. left[s] = quantity[s] - Allocated(allocation, s)
  OBVIOUS
<1> HIDE DEF left
<1>6. rows \in Rows
  <2>1. ASSUME NEW l \in Lines
        PROVE  Taken(want[l], LineVariant[l], scope, left, left) \in [Stocks -> Nat]
    BY <1>1, <1>3, TakenType
  <2> QED
    BY <2>1 DEF Rows
<1>7. ASSUME NEW l \in Lines, NEW t \in Stocks
      PROVE  /\ rows[l][t] <= Positive(left[t])
             /\ rows[l][t] > 0 => VariantOf[t] = LineVariant[l]
             /\ want[l] = 0 => rows[l][t] = 0
  <2>1. want[l] \in Nat /\ rows[l] = Taken(want[l], LineVariant[l], scope, left, left)
    BY <1>1
  <2> HIDE DEF rows
  <2> QED
    BY ONLY <1>3, <2>1, TakenType, t \in Stocks
<1> HIDE DEF rows
<1>8. \E l \in Lines : /\ rows[l][s] <= Positive(left[s])
                       /\ \A m \in Lines \ {l} : rows[m][s] = 0
  <2>1. \E l \in Lines : \A m \in Lines \ {l} : rows[m][s] = 0
    BY <1>1, <1>2, <1>6, <1>7, TakenByOne
  <2> QED
    BY <1>7, <2>1
<1>9. Allocated(allocation, s) <= Allocated(allocation, s)
  BY <1>2, AllocatedNat
<1> QED
  BY <1>2, <1>4, <1>5, <1>6, <1>8, <1>9, GivenFree

\* increase_allocations.
LEMMA IncreaseNoOversell ==
  ASSUME TypeOK, ~SharedVariant, NEW want \in Wants, NEW scope,
         IncreaseAllocations(want, scope), NEW s \in Stocks
  PROVE  ~(Overshoot(s)' > Overshoot(s))
<1> DEFINE held == [l \in Lines |-> IF want[l] > 0 THEN allocation[l] ELSE Nothing]
           kept == Minus(allocation, held)
           left == [t \in Stocks |-> quantity[t] - Allocated(kept, t)]
           need == [l \in Lines |-> want[l] + Total(held[l])]
           rows == [l \in Lines |-> Taken(need[l], LineVariant[l], scope, left, left)]
<1>1. /\ allocation \in Rows /\ want \in [Lines -> Nat]
      /\ \A l, m \in Lines : want[l] > 0 /\ want[m] > 0 /\ l # m =>
                               LineVariant[l] # LineVariant[m]
  BY BoundsAssumption DEF TypeOK, Wants
<1>2. /\ held \in Rows
      /\ \A l \in Lines, t \in Stocks : held[l][t] <= allocation[l][t]
  BY <1>1, NothingType DEF Rows, Nothing
<1>3. allocation' = Plus(kept, rows) /\ quantity' = quantity
  BY DEF IncreaseAllocations
<1>4. \A l \in Lines : want[l] = 0 => Total(held[l]) = 0
  <2>1. Total(Nothing) = 0
    BY ZeroTotal DEF Nothing
  <2> QED
    BY <1>1, <2>1
<1> HIDE DEF held
<1>5. kept \in Rows /\ Allocated(kept, s) <= Allocated(allocation, s)
  BY <1>1, <1>2, PlusMinusType, LessAllocated
<1> HIDE DEF kept
<1>6. left \in [Stocks -> Int] /\ left[s] = quantity[s] - Allocated(kept, s)
  BY <1>5, LeftType
<1>7. \A l \in Lines : Total(held[l]) \in Nat
  <2>1. \A l \in Lines : held[l] \in [Stocks -> Nat]
    BY <1>2 DEF Rows
  <2> QED
    BY <2>1, StocksAssumption, TotalNat
<1>8. need \in [Lines -> Nat]
  BY <1>1, <1>7
<1>9. \A l \in Lines : need[l] > 0 => want[l] > 0
  BY <1>1, <1>4, <1>7
<1> HIDE DEF left, need
<1>10. rows \in Rows
  <2>1. ASSUME NEW l \in Lines
        PROVE  Taken(need[l], LineVariant[l], scope, left, left) \in [Stocks -> Nat]
    <3>1. left \in [Stocks -> Int] /\ need[l] \in Nat
      BY <1>6, <1>8
    <3> QED
      BY ONLY <3>1, TakenType
  <2> QED
    BY <2>1 DEF Rows
<1>11. \A l, m \in Lines : need[l] > 0 /\ need[m] > 0 /\ l # m =>
                             LineVariant[l] # LineVariant[m]
  BY <1>1, <1>9
<1>12. ASSUME NEW l \in Lines, NEW t \in Stocks
       PROVE  /\ rows[l][t] <= Positive(left[t])
              /\ rows[l][t] > 0 => VariantOf[t] = LineVariant[l]
              /\ need[l] = 0 => rows[l][t] = 0
  <2>1. need[l] \in Nat /\ rows[l] = Taken(need[l], LineVariant[l], scope, left, left)
    BY <1>8
  <2>2. left \in [Stocks -> Int]
    BY <1>6
  <2> HIDE DEF rows
  <2> QED
    BY ONLY <2>1, <2>2, TakenType, t \in Stocks
<1> HIDE DEF rows
<1>13. \E l \in Lines : /\ rows[l][s] <= Positive(left[s])
                        /\ \A m \in Lines \ {l} : rows[m][s] = 0
  <2>1. \E l \in Lines : \A m \in Lines \ {l} : rows[m][s] = 0
    BY <1>8, <1>10, <1>11, <1>12, TakenByOne
  <2> QED
    BY <1>12, <2>1
<1> QED
  BY <1>3, <1>5, <1>6, <1>10, <1>13, GivenFree

\* decrease_stock, when the stock must not be exceeded.
LEMMA DecreaseNoOversell ==
  ASSUME TypeOK, NEW want \in Wants, NEW at \in Sources,
         DecreaseStock(want, at, FALSE), NEW s \in Stocks
  PROVE  ~(Overshoot(s)' > Overshoot(s))
<1> DEFINE rows == Released(allocation, want)
           pieces == [l \in Lines |-> IF at[l] = s THEN want[l] ELSE 0]
<1>1. allocation \in Rows /\ want \in [Lines -> Nat] /\ quantity \in [Stocks -> Int]
  BY BoundsAssumption DEF TypeOK, Wants
<1>2. /\ rows \in Rows
      /\ \A l \in Lines, t \in Stocks : rows[l][t] <= allocation[l][t]
  BY <1>1, ReleasedType
<1>3. allocation' = Minus(allocation, rows)
  BY DEF DecreaseStock
<1> HIDE DEF rows
<1>4. /\ Allocated(allocation', s) \in Nat /\ Allocated(allocation, s) \in Nat
      /\ Allocated(allocation', s) <= Allocated(allocation, s)
  BY <1>1, <1>2, <1>3, PlusMinusType, AllocatedNat, LessAllocated
<1>5. quantity'[s] = IF s \in stocks THEN quantity[s] - Total(pieces) ELSE quantity[s]
  BY DEF DecreaseStock
<1>6. pieces \in [Lines -> Nat]
  BY <1>1
<1>7. CASE \E l \in Lines : want[l] > 0 /\ at[l] = s
  <2>1. PICK l \in Lines : want[l] > 0 /\ at[l] = s
    BY <1>7
  <2>2. s \in stocks /\ Total(pieces) <= quantity[s] - Allocated(allocation', s)
    BY <2>1 DEF DecreaseStock
  <2>3. Total(pieces) \in Nat
    BY <1>6, LinesAssumption, TotalNat
  <2> HIDE DEF pieces
  <2> QED
    BY <1>1, <1>4, <1>5, <2>2, <2>3 DEF Overshoot, Positive
<1>8. CASE ~ \E l \in Lines : want[l] > 0 /\ at[l] = s
  <2>1. pieces = [l \in Lines |-> 0]
    BY <1>1, <1>8
  <2>2. Total(pieces) = 0
    BY <2>1, ZeroTotal
  <2> HIDE DEF pieces
  <2> QED
    BY <1>1, <1>4, <1>5, <2>2 DEF Overshoot, Positive
<1> QED
  BY <1>7, <1>8

\* increase_stock: what is allocated is put into the stock as well.
LEMMA RestockNoOversell ==
  ASSUME TypeOK, NEW l \in Lines, NEW t \in Stocks, NEW n \in Nat,
         NEW allocate \in BOOLEAN, IncreaseStock(l, t, n, allocate), NEW s \in Stocks
  PROVE  ~(Overshoot(s)' > Overshoot(s))
<1>1. /\ allocation \in Rows /\ quantity[s] \in Int
      /\ quantity'[s] = IF s = t THEN quantity[s] + n ELSE quantity[s]
  BY DEF TypeOK, IncreaseStock
<1>2. Allocated(allocation, s) \in Nat
  BY <1>1, AllocatedNat
<1>3. CASE ~allocate
  <2>1. allocation' = allocation
    BY <1>3 DEF IncreaseStock
  <2> QED
    BY <1>1, <1>2, <2>1 DEF Overshoot, Positive
<1>4. CASE allocate
  <2> DEFINE more == [m \in Lines |-> [u \in Stocks |-> IF m = l /\ u = t THEN n ELSE 0]]
  <2>1. allocation' = [allocation EXCEPT ![l][t] = @ + n]
    BY <1>4 DEF IncreaseStock
  <2>2. more \in Rows
    BY DEF Rows
  <2>3. allocation' = Plus(allocation, more)
    <3>1. \A m \in Lines, u \in Stocks :
            allocation'[m][u] = allocation[m][u] + more[m][u]
      BY <1>1, <2>1 DEF Rows
    <3>2. allocation' = [m \in Lines |-> [u \in Stocks |-> allocation'[m][u]]]
      BY <1>1, <2>1 DEF Rows
    <3> QED
      BY <3>1, <3>2 DEF Plus
  <2>4. /\ \A m \in Lines \ {l} : more[m][s] = 0
        /\ more[l][s] = IF s = t THEN n ELSE 0
    OBVIOUS
  <2> HIDE DEF more
  <2>5. Allocated(allocation', s) = Allocated(allocation, s) + more[l][s]
    BY <1>1, <2>2, <2>3, <2>4, SumOfOneMore
  <2> QED
    BY <1>1, <1>2, <2>4, <2>5 DEF Overshoot, Positive
<1> QED
  BY <1>3, <1>4

\* Only the merchant's edit and calls that check reservations take a stock
\* further beyond its quantity.
LEMMA OvershootStep ==
  ASSUME StockInv, Careful, [Next]_vars, ~MerchantCall,
         Reservations \subseteq {FALSE} \/ ~CheckedCall, NEW s \in Stocks
  PROVE  ~(Overshoot(s)' > Overshoot(s))
<1>1. TypeOK /\ allocation \in Rows /\ Allocated(allocation, s) \in Nat
  BY AllocatedNat DEF StockInv, TypeOK
<1>2. ASSUME UNCHANGED <<quantity, allocation>>
      PROVE  ~(Overshoot(s)' > Overshoot(s))
  BY <1>1, <1>2, TakenAway
<1>3. CASE OrderCall
  <2>1. PICK want \in Wants :
         \/ \E scope \in Scopes, check \in Reservations, own \in SUBSET CartLines :
              AllocateStocks(want, scope, check, own)
         \/ \E scope \in Scopes : IncreaseAllocations(want, scope)
         \/ DeallocateStock(want)
         \/ \E at \in Sources, exceed \in Exceeding : DecreaseStock(want, at, exceed)
    BY <1>3 DEF OrderCall
  <2>2. ASSUME NEW scope \in Scopes, NEW check \in Reservations,
               NEW own \in SUBSET CartLines, AllocateStocks(want, scope, check, own)
        PROVE  ~(Overshoot(s)' > Overshoot(s))
    <3>1. AllocateStocks(want, scope, FALSE, own)
      BY <2>2, BoundsAssumption DEF CheckedCall
    <3> QED
      BY <1>1, <3>1, AllocateNoOversell DEF Careful
  <2>3. ASSUME NEW scope \in Scopes, IncreaseAllocations(want, scope)
        PROVE  ~(Overshoot(s)' > Overshoot(s))
    BY <1>1, <2>3, IncreaseNoOversell DEF Careful
  <2>4. CASE DeallocateStock(want)
    <3> DEFINE rows == Released(allocation, want)
    <3>1. want \in [Lines -> Nat]
      BY BoundsAssumption DEF Wants
    <3>2. /\ rows \in Rows
          /\ \A l \in Lines, t \in Stocks : rows[l][t] <= allocation[l][t]
      BY <1>1, <3>1, ReleasedType
    <3>3. allocation' = Minus(allocation, rows) /\ quantity' = quantity
      BY <2>4 DEF DeallocateStock
    <3> HIDE DEF rows
    <3> QED
      BY <1>1, <3>2, <3>3, PlusMinusType, AllocatedNat, LessAllocated, TakenAway
  <2>5. ASSUME NEW at \in Sources, NEW exceed \in Exceeding, DecreaseStock(want, at, exceed)
        PROVE  ~(Overshoot(s)' > Overshoot(s))
    <3>1. DecreaseStock(want, at, FALSE)
      BY <2>5 DEF Careful
    <3> QED
      BY <1>1, <3>1, DecreaseNoOversell
  <2> QED
    BY <2>1, <2>2, <2>3, <2>4, <2>5
<1>4. CASE RestockCall
  <2>1. PICK l \in Lines, t \in Stocks, n \in 1 .. MaxRequest, allocate \in BOOLEAN :
          IncreaseStock(l, t, n, allocate)
    BY <1>4 DEF RestockCall
  <2>2. n \in Nat
    BY BoundsAssumption
  <2> QED
    BY <1>1, <2>1, <2>2, RestockNoOversell
<1>5. CASE CancelCall \/ CheckoutCall \/ Crash \/ Recount \/ Clock
  BY <1>2, <1>5 DEF CancelCall, ReadOrderAllocations, CheckoutCall, ReserveStocks,
     Crash, Recount, ReadMismatches, Clock, ExpireReservation, DeleteExpiredReservations
<1>6. ASSUME NEW w \in Workers, Commit(w)
      PROVE  ~(Overshoot(s)' > Overshoot(s))
  <2>1. CASE DeallocateOrders(w)
    <3> DEFINE now == [l \in Lines |->
                         IF OrderOf[l] \in job[w].orders THEN allocation[l] ELSE Nothing]
    <3>1. /\ now \in Rows
          /\ \A l \in Lines, t \in Stocks : now[l][t] <= allocation[l][t]
      BY <1>1, NothingType DEF Rows, Nothing
    <3>2. allocation' = Minus(allocation, now) /\ quantity' = quantity
      BY <2>1 DEF DeallocateOrders
    <3> HIDE DEF now
    <3> QED
      BY <1>1, <3>1, <3>2, PlusMinusType, AllocatedNat, LessAllocated, TakenAway
  <2>2. CASE WriteSums(w)
    BY <1>2, <2>2 DEF WriteSums
  <2> QED
    BY <1>6, <2>1, <2>2 DEF Commit
<1>7. CASE UNCHANGED vars
  BY <1>2, <1>7 DEF vars
<1> QED
  BY <1>3, <1>4, <1>5, <1>6, <1>7 DEF Next

\* Where reservations are not checked, calls that keep to the stock and name a
\* variant once never promise pieces a stock does not have: a stock is taken
\* further beyond its quantity by the merchant only.
THEOREM NoOversellAlways ==
  ASSUME Careful, Reservations \subseteq {FALSE}
  PROVE  Spec => NoOversell
<1> DEFINE Further == \E s \in Stocks : Overshoot(s)' > Overshoot(s)
<1>1. StockInv /\ [Next]_vars => [Further => MerchantCall]_vars
  BY OvershootStep
<1>2. NoOversell <=> [][Further => MerchantCall]_vars
  BY DEF NoOversell
<1> QED
  BY <1>1, <1>2, StockInvAlways, PTL DEF Spec

\* Where they are checked too, those calls are the only others that do, whatever
\* they promised before: editing, shipping and restocking orders, cancelling
\* and the nightly task never make it worse.
THEOREM OversoldByWhom ==
  ASSUME Careful
  PROVE  Spec => [][(\E s \in Stocks : Overshoot(s)' > Overshoot(s))
                      => MerchantCall \/ CheckedCall]_vars
<1> DEFINE Further == \E s \in Stocks : Overshoot(s)' > Overshoot(s)
<1>1. StockInv /\ [Next]_vars => [Further => MerchantCall \/ CheckedCall]_vars
  BY OvershootStep
<1> QED
  BY <1>1, StockInvAlways, PTL DEF Spec

\* Less is reserved of a stock when reservations only end.
LEMMA LessReserved ==
  ASSUME TypeOK, TypeOK', NEW s \in Stocks, live' \subseteq live,
         \A c \in live' : reserved'[c] = reserved[c]
  PROVE  ~(Reserved(s, {})' > Reserved(s, {}))
<1> DEFINE f == [c \in live |-> reserved[c][s]]
           g == [c \in live' |-> reserved'[c][s]]
<1>1. /\ f \in [live -> Nat] /\ g \in [live' -> Nat]
      /\ \A c \in live' : g[c] <= f[c]
  BY DEF TypeOK
<1>2. IsFiniteSet(live) /\ IsFiniteSet(live')
  BY LinesAssumption, FS_Subset DEF TypeOK
<1>3. Reserved(s, {}) = Total(f) /\ Reserved(s, {})' = Total(g)
  <2>1. live \ {} = live /\ live' \ {} = live'
    OBVIOUS
  <2> QED
    BY <2>1 DEF Reserved
<1> HIDE DEF f, g
<1>4. Total(g) <= Total(f) /\ Total(f) \in Nat /\ Total(g) \in Nat
  BY <1>1, <1>2, TotalMonotone, TotalNat
<1> QED
  BY <1>3, <1>4

\* reserve_stocks_and_preorders.
LEMMA ReserveFree ==
  ASSUME TypeOK, TypeOK', ~SharedVariant, NEW want \in CartWants,
         NEW refresh \in SUBSET CartLines, NEW scope,
         ReserveStocks(want, refresh, scope), NEW s \in Stocks,
         \A c \in live' \ live : reserved'[c] # reserved[c],
         Reserved(s, {})' > Reserved(s, {})
  PROVE  Reserved(s, {})' <= Positive(quantity[s] - Allocated(allocation, s))
<1> DEFINE own == {c \in CartLines : want[c] > 0}
           left == [t \in Stocks |-> quantity[t] - Allocated(allocation, t)]
           free == [t \in Stocks |-> left[t] - Reserved(t, own)]
           f == [c \in live' |-> reserved'[c][s]]
           others == live \ own
           before == [c \in live |-> reserved[c][s]]
<1>1. /\ reserved' = [c \in CartLines |->
                        IF c \in own
                        THEN Taken(want[c], CartVariant[c], scope, free, left)
                        ELSE reserved[c]]
      /\ live' = live \cup own \cup {c \in refresh : reserved[c] # Nothing}
  BY DEF ReserveStocks
<1>2. left \in [Stocks -> Int] /\ left[s] = quantity[s] - Allocated(allocation, s)
  <2>1. allocation \in Rows
    BY DEF TypeOK
  <2> QED
    BY <2>1, LeftType
<1>3. \A t \in Stocks : Reserved(t, own) \in Nat
  BY ReservedNat
<1>4. /\ \A c \in own : want[c] \in Nat
      /\ \A c, d \in own : c # d => CartVariant[c] # CartVariant[d]
      /\ own \subseteq CartLines
  BY BoundsAssumption DEF CartWants
<1> HIDE DEF left
<1>5. free \in [Stocks -> Int] /\ free[s] = left[s] - Reserved(s, own)
  BY <1>2, <1>3
<1> HIDE DEF own, free
<1>6. live' = live \cup own
  <2>1. \A c \in live' : c \notin own => c \in live
    BY <1>1 DEF TypeOK
  <2> QED
    BY <1>1, <2>1
<1>7. /\ IsFiniteSet(live') /\ IsFiniteSet(live)
      /\ f \in [live' -> Nat] /\ before \in [live -> Nat]
  BY LinesAssumption, FS_Subset DEF TypeOK
<1>8. \A c \in others : f[c] = reserved[c][s] /\ c \in live'
  BY <1>1, <1>6 DEF TypeOK
<1>9. Reserved(s, own) = Total([c \in others |-> f[c]])
  <2>1. [c \in others |-> reserved[c][s]] = [c \in others |-> f[c]]
    BY <1>8
  <2> QED
    BY <2>1 DEF Reserved
<1>10. Reserved(s, {})' = Total(f) /\ Reserved(s, {}) = Total(before)
  <2>1. live' \ {} = live' /\ live \ {} = live
    OBVIOUS
  <2> QED
    BY <2>1 DEF Reserved
<1>11. Total(f) \in Nat /\ Total(before) \in Nat
  BY <1>7, TotalNat
<1>12. ASSUME NEW c \in own
       PROVE  /\ f[c] \in Nat
              /\ f[c] <= Positive(free[s])
              /\ f[c] > 0 => VariantOf[s] = CartVariant[c]
  <2>1. f[c] = Taken(want[c], CartVariant[c], scope, free, left)[s] /\ c \in live'
    BY <1>1, <1>4, <1>6
  <2>2. want[c] \in Nat /\ f[c] \in Nat
    BY <1>4, <1>7, <2>1
  <2>3. free \in [Stocks -> Int]
    BY <1>5
  <2> HIDE DEF f
  <2> QED
    BY ONLY <2>1, <2>2, <2>3, TakenType, s \in Stocks
<1> HIDE DEF f
<1>13. CASE \A c \in own : f[c] = 0
  <2>1. Total(f) = Total([c \in others |-> f[c]])
    <3>1. \A c \in live' \ others : f[c] = 0
      BY <1>6, <1>13
    <3>2. others \subseteq live' /\ f = [c \in live' |-> f[c]]
      BY <1>6, <1>7
    <3> QED
      BY <3>1, <3>2, TotalOfPart
  <2>2. Total([c \in others |-> f[c]]) <= Total(before)
    <3> DEFINE g == [c \in others |-> f[c]]
    <3>1. g \in [others -> Nat] /\ \A c \in others : g[c] <= before[c]
      BY <1>7, <1>8
    <3>2. others \in SUBSET live
      OBVIOUS
    <3> HIDE DEF g, others, before
    <3>3. Total(g) <= Total(before)
      BY <1>7, <3>1, <3>2, TotalMonotone
    <3> QED
      BY <3>3 DEF g
  <2> QED
    BY <1>10, <1>11, <2>1, <2>2
<1>14. CASE \E c \in own : f[c] # 0
  <2>1. PICK d \in own : f[d] # 0
    BY <1>14
  <2>2. \A c \in own \ {d} : f[c] = 0
    BY <1>4, <1>12, <2>1
  <2> DEFINE rest == live' \ {d}
  <2>3. Total([c \in rest |-> f[c]]) = Total([c \in others |-> f[c]])
    <3>1. \A c \in rest \ others : f[c] = 0
      BY <1>6, <2>2
    <3>2. others \subseteq rest
      BY <1>6, <2>1
    <3> QED
      BY <3>1, <3>2, TotalOfPart
  <2>4. Total(f) = f[d] + Total([c \in rest |-> f[c]])
    <3>1. d \in live' /\ IsFiniteSet(live') /\ f \in [live' -> Nat]
      BY <1>6, <1>7, <2>1
    <3> QED
      BY ONLY <3>1, TotalSplit
  <2>5. Total(f) = f[d] + Reserved(s, own)
    BY <1>9, <2>3, <2>4
  <2>6. f[d] \in Nat /\ f[d] <= Positive(free[s])
    BY <1>12, <2>1
  <2> QED
    BY <1>2, <1>3, <1>5, <1>10, <2>1, <2>5, <2>6 DEF Positive
<1> QED
  BY <1>13, <1>14

\* Placing reservations is the only step after which more is reserved.
LEMMA OverReservationStep ==
  ASSUME StockInv, StockInv', ~SharedVariant, [Next]_vars, NEW s \in Stocks,
         \A c \in live' \ live : reserved'[c] # reserved[c],
         Reserved(s, {})' > Reserved(s, {})
  PROVE  Reserved(s, {})' <= Positive(quantity'[s] - Allocated(allocation', s))
<1>1. TypeOK /\ TypeOK'
  BY DEF StockInv
<1>2. CASE CheckoutCall
  <2>1. PICK want \in CartWants, refresh \in SUBSET CartLines, scope \in Scopes :
          ReserveStocks(want, refresh, scope)
    BY <1>2 DEF CheckoutCall
  <2>2. quantity' = quantity /\ allocation' = allocation
    BY <2>1 DEF ReserveStocks
  <2> QED
    BY <1>1, <2>1, <2>2, ReserveFree
<1>3. ASSUME live' \subseteq live, \A c \in live' : reserved'[c] = reserved[c]
      PROVE  FALSE
  BY <1>1, <1>3, LessReserved
<1>4. CASE OrderCall \/ RestockCall \/ CancelCall \/ MerchantCall \/ Crash \/ Recount
           \/ UNCHANGED vars \/ \E w \in Workers : Commit(w)
  <2>1. UNCHANGED <<live, reserved>>
    BY ZenonT(40), <1>4 DEF OrderCall, AllocateStocks, IncreaseAllocations, DeallocateStock,
       DecreaseStock, RestockCall, IncreaseStock, CancelCall, ReadOrderAllocations,
       MerchantCall, SetStockQuantity, Crash, Recount, ReadMismatches, vars, Commit,
       DeallocateOrders, WriteSums
  <2> QED
    BY <1>3, <2>1
<1>5. CASE Clock
  <2>1. live' \subseteq live /\ \A c \in live' : reserved'[c] = reserved[c]
    BY <1>1, <1>5 DEF Clock, ExpireReservation, DeleteExpiredReservations, TypeOK
  <2> QED
    BY <1>3, <2>1
<1> QED
  BY <1>2, <1>4, <1>5 DEF Next

\* A checkout whose lines are of different variants is given reservations for
\* pieces only that nobody was promised, whatever other checkouts, orders and
\* the merchant do in between.
THEOREM NoOverReservationAlways ==
  ASSUME ~SharedVariant
  PROVE  Spec => NoOverReservation
<1> DEFINE Given ==
      \A s \in Stocks :
        LET before == Reserved(s, {})
            revived == {c \in live' \ live : reserved'[c] = reserved[c]}
        IN  Reserved(s, {})' > before /\ revived = {} =>
              Reserved(s, {})' <= Positive(quantity'[s] - Allocated(allocation', s))
<1>1. StockInv /\ StockInv' /\ [Next]_vars => [Given]_vars
  <2> SUFFICES ASSUME StockInv, StockInv', [Next]_vars, NEW s \in Stocks,
                      Reserved(s, {})' > Reserved(s, {}),
                      {c \in live' \ live : reserved'[c] = reserved[c]} = {}
               PROVE  Reserved(s, {})' <= Positive(quantity'[s] - Allocated(allocation', s))
    OBVIOUS
  <2> QED
    BY OverReservationStep
<1>2. NoOverReservation <=> [][Given]_vars
  BY DEF NoOverReservation
<1> QED
  BY <1>1, <1>2, StockInvAlways, PTL DEF Spec

=============================================================================
