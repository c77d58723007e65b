----------------------------- MODULE Quantities -----------------------------
(***************************************************************************)
(* Arithmetic shared by the stock modules: totals of quantities kept per   *)
(* row, and the greedy loop with which the warehouse code spreads a        *)
(* quantity over an ordered list of stocks or allocations.                 *)
(*                                                                         *)
(* A total is defined as the number of units, one pair <<x, i>> for each   *)
(* of the f[x] pieces held by x, and not with a fold: the facts a proof    *)
(* needs about totals are then facts about cardinalities.                  *)
(***************************************************************************)
EXTENDS Integers, FiniteSets

\* The individual pieces held in f, a function into Nat.
Units(f) == UNION {{x} \X (1 .. f[x]) : x \in DOMAIN f}

\* SUM over the rows of f, as `.aggregate(Sum(...))` computes it.
Total(f) == Cardinality(Units(f))

\* max(n, 0)
Positive(n) == IF n > 0 THEN n ELSE 0

\* min(m, n)
Lesser(m, n) == IF m < n THEN m ELSE n

(***************************************************************************)
(* The loop of _create_allocations, _create_stock_reservations and         *)
(* deallocate_stock: walk the rows in order, take from each the smaller of *)
(* what is still needed and what is there, stop when nothing is needed.    *)
(* room[x] \in Nat is what row x offers and earlier[x] the rows that come  *)
(* before x, so the quantity still needed at x is what the rows before it  *)
(* could not give.                                                         *)
(***************************************************************************)
Spread(need, room, earlier) ==
  [x \in DOMAIN room |->
     Lesser(room[x], Positive(need - Total([y \in earlier[x] |-> room[y]])))]

\* Whether the loop ends with nothing left to take.
Enough(need, room) == need <= Total(room)

=============================================================================
