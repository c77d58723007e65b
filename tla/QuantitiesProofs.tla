-------------------------- MODULE QuantitiesProofs --------------------------
(***************************************************************************)
(* Facts about totals and about the greedy loop, proved for every finite   *)
(* set of rows and every quantity.                                         *)
(***************************************************************************)
EXTENDS Quantities, FiniteSetTheorems, TLAPS

\* The pieces of one row, counted.
LEMMA PiecesOfRow ==
  ASSUME NEW x, NEW n \in Nat
  PROVE  /\ IsFiniteSet({x} \X (1 .. n))
         /\ Cardinality({x} \X (1 .. n)) = n
<1> DEFINE one == {x}
           many == 1 .. n
<1>1. IsFiniteSet(one) /\ Cardinality(one) = 1
  BY FS_Singleton
<1>2. IsFiniteSet(many) /\ Cardinality(many) = n
  BY FS_Interval
<1> HIDE DEF one, many
<1>3. /\ IsFiniteSet(one \X many)
      /\ Cardinality(one \X many) = Cardinality(one) * Cardinality(many)
  BY <1>1, <1>2, FS_Product
<1>4. Cardinality(one \X many) = n
  BY <1>1, <1>2, <1>3
<1> QED
  BY <1>3, <1>4 DEF one, many

\* The pieces of finitely many rows are finitely many.
LEMMA UnitsFinite ==
  ASSUME NEW D, IsFiniteSet(D), NEW f \in [D -> Nat]
  PROVE  IsFiniteSet(Units(f))
<1> DEFINE piece == [x \in D |-> {x} \X (1 .. f[x])]
           pieces == {{x} \X (1 .. f[x]) : x \in D}
<1>1. IsFiniteSet(pieces)
  <2>1. piece \in Surjection(D, pieces)
    BY DEF Surjection
  <2> QED
    BY <2>1, FS_Surjection
<1>2. \A T \in pieces : IsFiniteSet(T)
  <2>1. ASSUME NEW x \in D
        PROVE  IsFiniteSet({x} \X (1 .. f[x]))
    BY PiecesOfRow
  <2> QED
    BY <2>1
<1>3. DOMAIN f = D
  OBVIOUS
<1>4. Units(f) = UNION pieces
  BY <1>3 DEF Units
<1> HIDE DEF pieces
<1> QED
  BY <1>1, <1>2, <1>4, FS_UNION

\* A total is a natural number.
LEMMA TotalNat ==
  ASSUME NEW D, IsFiniteSet(D), NEW f \in [D -> Nat]
  PROVE  Total(f) \in Nat
BY UnitsFinite, FS_CardinalityType DEF Total

\* A total is what one row holds and what all the others hold together.
LEMMA TotalSplit ==
  ASSUME NEW D, IsFiniteSet(D), NEW f \in [D -> Nat], NEW x \in D
  PROVE  /\ Total([y \in D \ {x} |-> f[y]]) \in Nat
         /\ Total(f) = f[x] + Total([y \in D \ {x} |-> f[y]])
<1> DEFINE rest == [y \in D \ {x} |-> f[y]]
           row == {x} \X (1 .. f[x])
<1>1. IsFiniteSet(D \ {x}) /\ rest \in [D \ {x} -> Nat]
  BY FS_RemoveElement
<1>2. IsFiniteSet(Units(rest)) /\ Total(rest) \in Nat
  BY <1>1, UnitsFinite, TotalNat
<1>3. IsFiniteSet(row) /\ Cardinality(row) = f[x]
  BY PiecesOfRow
<1>4. Units(f) = Units(rest) \cup row
  BY DEF Units
<1>5. Units(rest) \cap row = {}
  BY DEF Units
<1>6. Cardinality(Units(rest) \cap row) = 0
  BY <1>5, FS_EmptySet
<1> DEFINE others == Units(rest)
<1>7. Cardinality(others \cup row) = Cardinality(others) + Cardinality(row) - 0
  <2> HIDE DEF others, row
  <2> QED
    BY <1>2, <1>3, <1>6, FS_Union DEF others
<1>8. Cardinality(Units(f)) = Cardinality(Units(rest)) + f[x]
  <2>1. Cardinality(others) \in Nat
    BY <1>2, FS_CardinalityType
  <2> HIDE DEF row, rest
  <2> QED
    BY <1>3, <1>4, <1>7, <2>1
<1> QED
  BY <1>2, <1>8 DEF Total

\* Two functions that differ in one row differ in their totals by what that
\* row changed.
LEMMA TotalOfOneChange ==
  ASSUME NEW D, IsFiniteSet(D), NEW f \in [D -> Nat], NEW g \in [D -> Nat],
         NEW x \in D, \A y \in D \ {x} : g[y] = f[y]
  PROVE  Total(g) - Total(f) = g[x] - f[x]
<1>1. [y \in D \ {x} |-> g[y]] = [y \in D \ {x} |-> f[y]]
  OBVIOUS
<1> DEFINE rest == Total([y \in D \ {x} |-> f[y]])
<1>2. rest \in Nat /\ Total(f) = f[x] + rest
  BY TotalSplit
<1>3. Total(g) = g[x] + rest
  BY TotalSplit, <1>1
<1> HIDE DEF rest
<1> QED
  BY <1>2, <1>3

\* The loop takes natural quantities: from a row no more than it offers and no
\* more than is needed, and something only of what the rows before it could
\* not give.
THEOREM SpreadBounds ==
  ASSUME NEW D, IsFiniteSet(D), NEW room \in [D -> Nat], NEW need \in Nat,
         NEW earlier \in [D -> SUBSET D]
  PROVE  /\ Spread(need, room, earlier) \in [D -> Nat]
         /\ \A x \in D :
              /\ Spread(need, room, earlier)[x] <= room[x]
              /\ Spread(need, room, earlier)[x] <= need
              /\ Spread(need, room, earlier)[x] > 0 =>
                   Total([y \in earlier[x] |-> room[y]]) + Spread(need, room, earlier)[x] <= need
<1>1. ASSUME NEW x \in D
      PROVE  /\ Spread(need, room, earlier)[x] \in Nat
             /\ Spread(need, room, earlier)[x] <= room[x]
             /\ Spread(need, room, earlier)[x] <= need
             /\ Spread(need, room, earlier)[x] > 0 =>
                  Total([y \in earlier[x] |-> room[y]]) + Spread(need, room, earlier)[x] <= need
  <2> DEFINE before == Total([y \in earlier[x] |-> room[y]])
             taken == Spread(need, room, earlier)[x]
  <2>1. before \in Nat
    <3>1. IsFiniteSet(earlier[x])
      BY FS_Subset
    <3>2. [y \in earlier[x] |-> room[y]] \in [earlier[x] -> Nat]
      OBVIOUS
    <3> QED
      BY <3>1, <3>2, TotalNat
  <2>2. taken = Lesser(room[x], Positive(need - before))
    BY DEF Spread
  <2>3. room[x] \in Nat
    OBVIOUS
  <2>4. /\ taken \in Nat /\ taken <= room[x] /\ taken <= need
        /\ taken > 0 => before + taken <= need
    <3> HIDE DEF before, taken
    <3> QED
      BY <2>1, <2>2, <2>3 DEF Lesser, Positive
  <2> QED
    BY <2>4
<1>2. Spread(need, room, earlier) = [x \in D |-> Spread(need, room, earlier)[x]]
  BY DEF Spread
<1> QED
  BY <1>1, <1>2

\* A loop that is asked for nothing takes nothing.
LEMMA SpreadNothing ==
  ASSUME NEW D, IsFiniteSet(D), NEW room \in [D -> Nat],
         NEW earlier \in [D -> SUBSET D], NEW x \in D
  PROVE  Spread(0, room, earlier)[x] = 0
<1> DEFINE before == Total([y \in earlier[x] |-> room[y]])
<1>1. before \in Nat
  <2>1. IsFiniteSet(earlier[x])
    BY FS_Subset
  <2>2. [y \in earlier[x] |-> room[y]] \in [earlier[x] -> Nat]
    OBVIOUS
  <2> QED
    BY <2>1, <2>2, TotalNat
<1>2. Spread(0, room, earlier)[x] = Lesser(room[x], Positive(0 - before))
  BY DEF Spread
<1> HIDE DEF before
<1> QED
  BY <1>1, <1>2 DEF Lesser, Positive

\* A finite set of natural numbers has an upper bound.
LEMMA FiniteIsBounded ==
  ASSUME NEW D \in SUBSET Nat, IsFiniteSet(D)
  PROVE  \E n \in Nat : \A x \in D : x < n
<1> DEFINE Unbounded == {E \in SUBSET D : \A n \in Nat : \E x \in E : ~(x < n)}
           order == StrictSubsetOrdering(D)
<1>1. SUFFICES ASSUME Unbounded # {}
               PROVE  FALSE
  <2>1. D \notin Unbounded
    BY <1>1
  <2> QED
    BY <2>1
<1>2. FiniteSubsetsOf(D) = SUBSET D
  BY FS_Subset DEF FiniteSubsetsOf
<1>3. IsWellFoundedOn(order, FiniteSubsetsOf(D))
  BY FS_StrictSubsetOrderingWellFounded
<1>4. PICK E \in Unbounded : \A F \in Unbounded : <<F, E>> \notin order
  <2> HIDE DEF order
  <2>1. Unbounded \subseteq FiniteSubsetsOf(D)
    BY <1>2
  <2> HIDE DEF Unbounded
  <2> QED
    BY <2>1, <1>1, <1>3, WFMin
<1>5. PICK x \in E : TRUE
  BY <1>4
<1>6. E \ {x} \notin Unbounded
  BY <1>4, <1>5 DEF StrictSubsetOrdering
<1>7. PICK n \in Nat : \A y \in E \ {x} : y < n
  BY <1>6, <1>4
<1>8. \A y \in E : y < (IF x < n THEN n ELSE x + 1)
  BY <1>7, <1>4, <1>5
<1> QED
  BY <1>8, <1>5, <1>4, <1>7

\* Of two tables, one that holds no more in each row, and has no other rows,
\* holds no more in total.
LEMMA TotalMonotone ==
  ASSUME NEW D, IsFiniteSet(D), NEW f \in [D -> Nat],
         NEW E \in SUBSET D, NEW g \in [E -> Nat], \A x \in E : g[x] <= f[x]
  PROVE  Total(g) <= Total(f)
<1>1. IsFiniteSet(Units(f))
  BY UnitsFinite
<1>2. Units(g) \subseteq Units(f)
  <2>1. ASSUME NEW x \in E
        PROVE  {x} \X (1 .. g[x]) \subseteq {x} \X (1 .. f[x])
    <3>1. g[x] \in Nat /\ f[x] \in Nat /\ g[x] <= f[x]
      OBVIOUS
    <3>2. 1 .. g[x] \subseteq 1 .. f[x]
      BY <3>1
    <3> QED
      BY <3>2
  <2> QED
    BY <2>1 DEF Units
<1> QED
  BY <1>1, <1>2, FS_Subset DEF Total

\* Where no row holds anything there is nothing.
LEMMA ZeroTotal ==
  ASSUME NEW D
  PROVE  Total([x \in D |-> 0]) = 0
<1>1. Units([x \in D |-> 0]) = {}
  BY DEF Units
<1> QED
  BY <1>1, FS_EmptySet DEF Total

\* Rows that hold nothing add nothing.
LEMMA TotalOfPart ==
  ASSUME NEW D, NEW E \in SUBSET D, NEW f, \A x \in D \ E : f[x] = 0
  PROVE  Total([x \in D |-> f[x]]) = Total([x \in E |-> f[x]])
<1>1. \A x \in D \ E : {x} \X (1 .. f[x]) = {}
  OBVIOUS
<1>2. Units([x \in D |-> f[x]]) = UNION {{x} \X (1 .. f[x]) : x \in D}
  BY DEF Units
<1>3. Units([x \in E |-> f[x]]) = UNION {{x} \X (1 .. f[x]) : x \in E}
  BY DEF Units
<1>4. UNION {{x} \X (1 .. f[x]) : x \in D} = UNION {{x} \X (1 .. f[x]) : x \in E}
  BY <1>1
<1> QED
  BY <1>2, <1>3, <1>4 DEF Total

\* Every set of natural numbers that is not empty has a least element.
LEMMA LeastElement ==
  ASSUME NEW T \in SUBSET Nat, T # {}
  PROVE  \E x \in T : \A y \in T : x <= y
<1> DEFINE less == OpToRel(<, Nat)
<1>1. IsWellFoundedOn(less, Nat)
  BY NatLessThanWellFounded
<1>2. PICK x \in T : \A y \in T : <<y, x>> \notin less
  <2> HIDE DEF less
  <2> QED
    BY <1>1, WFMin
<1>3. \A y \in T : ~(y < x)
  BY <1>2 DEF OpToRel
<1> QED
  BY <1>3

\* What the greedy loop takes in all, when it walks rows that are numbered:
\* all that is needed, or all that there is.
THEOREM SpreadTotal ==
  ASSUME NEW D \in SUBSET Nat, IsFiniteSet(D), NEW room \in [D -> Nat],
         NEW need \in Nat, NEW earlier,
         earlier = [x \in D |-> {y \in D : y < x}]
  PROVE  Total(Spread(need, room, earlier)) = Lesser(need, Total(room))
<1> DEFINE taken == Spread(need, room, earlier)
           Below(n) == {x \in D : x < n}
           there == [n \in Nat |-> Total([x \in Below(n) |-> room[x]])]
           got == [n \in Nat |-> Total([x \in Below(n) |-> taken[x]])]
           Wrong == {n \in Nat : got[n] # Lesser(need, there[n])}
<1>1. taken \in [D -> Nat]
  BY SpreadBounds
<1>2. \A n \in Nat : IsFiniteSet(Below(n))
  <2>1. ASSUME NEW n \in Nat
        PROVE  IsFiniteSet(Below(n))
    <3>1. Below(n) \subseteq D
      OBVIOUS
    <3> QED
      BY <3>1, FS_Subset
  <2> QED
    BY <2>1
<1>3. there \in [Nat -> Nat] /\ got \in [Nat -> Nat]
  <2>1. ASSUME NEW n \in Nat
        PROVE  there[n] \in Nat /\ got[n] \in Nat
    <3>1. /\ [x \in Below(n) |-> room[x]] \in [Below(n) -> Nat]
          /\ [x \in Below(n) |-> taken[x]] \in [Below(n) -> Nat]
      BY <1>1
    <3> HIDE DEF Below, taken
    <3> QED
      BY <3>1, <1>2, TotalNat
  <2> QED
    BY <2>1
<1>4. ASSUME NEW n \in Nat, n \in D
      PROVE  taken[n] = Lesser(room[n], Positive(need - there[n]))
  <2>1. [y \in earlier[n] |-> room[y]] = [x \in Below(n) |-> room[x]]
    BY <1>4
  <2> QED
    BY <1>4, <2>1 DEF Spread
<1>5. there[0] = 0 /\ got[0] = 0
  <2>1. Below(0) = {}
    <3>1. \A x \in D : ~(x < 0)
      OBVIOUS
    <3> QED
      BY <3>1
  <2>2. ASSUME NEW f, DOMAIN f = {}
        PROVE  Total(f) = 0
    BY <2>2, FS_EmptySet DEF Total, Units
  <2> QED
    BY <2>1, <2>2
<1>6. ASSUME NEW n \in Nat, n \notin Wrong
      PROVE  n + 1 \notin Wrong
  <2>1. CASE n \in D
    <3>1. Below(n + 1) \ {n} = Below(n) /\ n \in Below(n + 1)
      <4>1. \A x \in D : x < n <=> x < n + 1 /\ x # n
        OBVIOUS
      <4>2. n < n + 1
        OBVIOUS
      <4>3. n \in Below(n + 1)
        BY <4>2, <2>1
      <4>4. \A x : x \in Below(n + 1) \ {n} <=> x \in Below(n)
        BY <4>1
      <4> HIDE DEF Below
      <4> QED
        BY <4>3, <4>4
    <3>2. ASSUME NEW f \in [D -> Nat]
          PROVE  Total([x \in Below(n + 1) |-> f[x]])
                   = f[n] + Total([x \in Below(n) |-> f[x]])
      <4> DEFINE g == [x \in Below(n + 1) |-> f[x]]
      <4>0. Below(n + 1) \subseteq D /\ IsFiniteSet(Below(n + 1))
        BY <1>2
      <4> HIDE DEF Below
      <4>1. g \in [Below(n + 1) -> Nat] /\ g[n] = f[n]
        <5>1. n \in Below(n + 1) /\ Below(n + 1) \subseteq D
          BY <3>1, <4>0
        <5> DEFINE below == Below(n + 1)
        <5> HIDE DEF below
        <5> SUFFICES [x \in below |-> f[x]] \in [below -> Nat] /\ f[n] = f[n]
          BY <5>1 DEF below
        <5> QED
          BY <5>1 DEF below
      <4>2. [y \in Below(n + 1) \ {n} |-> g[y]] = [x \in Below(n) |-> f[x]]
        BY <3>1
      <4> HIDE DEF g
      <4>3. Total(g) = g[n] + Total([y \in Below(n + 1) \ {n} |-> g[y]])
        BY <4>0, <4>1, <3>1, TotalSplit
      <4> QED
        BY <4>1, <4>2, <4>3 DEF g
    <3>3. there[n + 1] = room[n] + there[n] /\ got[n + 1] = taken[n] + got[n]
      <4>1. /\ Total([x \in Below(n + 1) |-> room[x]])
                 = room[n] + Total([x \in Below(n) |-> room[x]])
            /\ Total([x \in Below(n + 1) |-> taken[x]])
                 = taken[n] + Total([x \in Below(n) |-> taken[x]])
        <5> HIDE DEF Below, taken
        <5> QED
          BY <3>2, <1>1
      <4> HIDE DEF Below, taken
      <4> QED
        BY <4>1
    <3>4. room[n] \in Nat
      BY <2>1
    <3> HIDE DEF there, got, taken
    <3> QED
      BY <3>3, <3>4, <1>4, <2>1, <1>3, <1>6 DEF Lesser, Positive
  <2>2. CASE n \notin D
    <3>1. Below(n + 1) = Below(n)
      <4>1. \A x \in D : x < n <=> x < n + 1
        BY <2>2
      <4> QED
        BY <4>1
    <3>2. there[n + 1] = there[n] /\ got[n + 1] = got[n]
      <4> HIDE DEF Below, taken
      <4> QED
        BY <3>1
    <3> HIDE DEF there, got
    <3> QED
      BY <3>2, <1>6
  <2> QED
    BY <2>1, <2>2
<1>7. Wrong = {}
  <2>1. 0 \notin Wrong
    <3> HIDE DEF there, got
    <3> QED
      BY <1>5 DEF Lesser
  <2>2. SUFFICES ASSUME Wrong # {}
                 PROVE  FALSE
    OBVIOUS
  <2>3. PICK n \in Wrong : \A y \in Wrong : n <= y
    <3> HIDE DEF there, got
    <3> QED
      BY <2>2, LeastElement
  <2>4. n \in Nat /\ n # 0
    BY <2>1
  <2>5. n - 1 \in Nat /\ n - 1 \notin Wrong
    <3> HIDE DEF Wrong
    <3> QED
      BY <2>3, <2>4
  <2>6. (n - 1) + 1 \notin Wrong
    <3> HIDE DEF Wrong
    <3> QED
      BY <2>5, <1>6
  <2>7. (n - 1) + 1 = n
    BY <2>4
  <2> HIDE DEF Wrong
  <2> QED
    BY <2>6, <2>7
<1>8. PICK n \in Nat : \A x \in D : x < n
  BY FiniteIsBounded
<1>9. [x \in Below(n) |-> room[x]] = room /\ [x \in Below(n) |-> taken[x]] = taken
  <2>1. Below(n) = D
    BY <1>8
  <2>2. taken = [x \in D |-> taken[x]]
    BY <1>1
  <2> HIDE DEF Below, taken
  <2> QED
    BY <2>1, <2>2
<1>10. there[n] = Total(room) /\ got[n] = Total(taken)
  BY <1>9
<1>11. got[n] = Lesser(need, there[n])
  <2> HIDE DEF there, got
  <2> QED
    BY <1>7
<1> QED
  BY <1>10, <1>11

-----------------------------------------------------------------------------
(* Induction over a finite set, and what follows from it about totals.      *)


\* Induction over the subsets of a finite set: a set of subsets that has the
\* empty one, and any that it has without each one of its elements, has all.
LEMMA SubsetInduction ==
  ASSUME NEW S, IsFiniteSet(S), NEW P,
         {} \in P,
         \A T \in SUBSET S : T # {} /\ (\A x \in T : T \ {x} \in P) => T \in P
  PROVE  \A T \in SUBSET S : T \in P
<1> DEFINE Wrong == (SUBSET S) \ P
           order == StrictSubsetOrdering(S)
<1>1. SUFFICES ASSUME Wrong # {}
               PROVE  FALSE
  OBVIOUS
<1>2. FiniteSubsetsOf(S) = SUBSET S
  BY FS_Subset DEF FiniteSubsetsOf
<1>3. IsWellFoundedOn(order, FiniteSubsetsOf(S))
  BY FS_StrictSubsetOrderingWellFounded
<1>4. PICK T \in Wrong : \A R \in Wrong : <<R, T>> \notin order
  <2>1. Wrong \subseteq FiniteSubsetsOf(S)
    BY <1>2
  <2> HIDE DEF Wrong, order
  <2> QED
    BY <1>1, <1>3, <2>1, WFMin
<1>5. PICK x \in T : T \ {x} \notin P
  BY <1>4
<1>6. T \ {x} \in Wrong
  BY <1>4, <1>5
<1>7. <<T \ {x}, T>> \in order
  BY <1>4, <1>5 DEF StrictSubsetOrdering
<1> QED
  BY <1>4, <1>6, <1>7

\* The totals of two tables add up to that of their sum.
LEMMA TotalPlus ==
  ASSUME NEW D, IsFiniteSet(D), NEW f \in [D -> Nat], NEW g \in [D -> Nat]
  PROVE  Total([x \in D |-> f[x] + g[x]]) = Total(f) + Total(g)
<1> DEFINE Of(h, T) == Total([x \in T |-> h[x]])
           sum == [x \in D |-> f[x] + g[x]]
           P == {T \in SUBSET D : Of(sum, T) = Of(f, T) + Of(g, T)}
<1>1. \A T \in SUBSET D : IsFiniteSet(T)
  BY FS_Subset
<1>2. ASSUME NEW h \in [D -> Nat], NEW T \in SUBSET D, NEW x \in T
      PROVE  /\ Of(h, T) = h[x] + Of(h, T \ {x})
             /\ Of(h, T \ {x}) \in Nat
  <2> DEFINE u == [y \in T |-> h[y]]
  <2>1. u \in [T -> Nat] /\ IsFiniteSet(T) /\ u[x] = h[x]
    BY <1>1
  <2>2. [y \in T \ {x} |-> u[y]] = [y \in T \ {x} |-> h[y]]
    OBVIOUS
  <2>3. /\ Total([y \in T \ {x} |-> u[y]]) \in Nat
        /\ Total(u) = u[x] + Total([y \in T \ {x} |-> u[y]])
    <3> HIDE DEF u
    <3> QED
      BY ZenonT(40), <2>1, TotalSplit
  <2> QED
    BY <2>1, <2>2, <2>3
<1>3. \A h : Of(h, {}) = 0
  <2>1. \A h : Units([x \in {} |-> h[x]]) = {}
    BY DEF Units
  <2> QED
    BY <2>1, FS_EmptySet DEF Total
<1>4. {} \in P
  BY <1>3
<1>5. ASSUME NEW T \in SUBSET D, NEW x \in T, T \ {x} \in P
      PROVE  T \in P
  <2>1. sum \in [D -> Nat] /\ sum[x] = f[x] + g[x] /\ f[x] \in Nat /\ g[x] \in Nat
    OBVIOUS
  <2>2. Of(sum, T \ {x}) = Of(f, T \ {x}) + Of(g, T \ {x})
    BY <1>5
  <2> HIDE DEF sum, Of
  <2> QED
    BY <1>2, <2>1, <2>2
<1>6. D \in P
  <2>1. \A T \in SUBSET D : T # {} /\ (\A x \in T : T \ {x} \in P) => T \in P
    BY <1>5
  <2> HIDE DEF P
  <2> QED
    BY <1>4, <2>1, SubsetInduction
<1>7. Of(f, D) = Total(f) /\ Of(g, D) = Total(g) /\ Of(sum, D) = Total(sum)
  <2>1. [x \in D |-> f[x]] = f /\ [x \in D |-> g[x]] = g /\ [x \in D |-> sum[x]] = sum
    OBVIOUS
  <2> QED
    BY <2>1
<1> HIDE DEF Of, sum
<1> QED
  BY <1>6, <1>7 DEF sum

-----------------------------------------------------------------------------
(* Sums of integers, as the folds of the community modules compute them.   *)

\* What the rows of S add, less what they take away.
SumOf(f, S) == Total([x \in S |-> Positive(f[x])])
                 - Total([x \in S |-> Positive(-f[x])])

\* The table that MapThenSumSet fills: the sum over each subset.
IsFold(g, f, S) ==
  g = [T \in SUBSET S |->
         IF T = {} THEN 0
         ELSE f[CHOOSE x \in T : TRUE] + g[T \ {CHOOSE x \in T : TRUE}]]

\* A sum is one row and the sum of all the others.
LEMMA SumSplit ==
  ASSUME NEW S, IsFiniteSet(S), NEW f, \A x \in S : f[x] \in Int
  PROVE  /\ SumOf(f, S) \in Int
         /\ SumOf(f, {}) = 0
         /\ \A x \in S : SumOf(f, S) = f[x] + SumOf(f, S \ {x})
<1> DEFINE up(T) == [x \in T |-> Positive(f[x])]
           down(T) == [x \in T |-> Positive(-f[x])]
<1>1. up(S) \in [S -> Nat] /\ down(S) \in [S -> Nat]
  BY DEF Positive
<1>2. SumOf(f, S) \in Int
  <2>1. Total(up(S)) \in Nat /\ Total(down(S)) \in Nat
    <3> HIDE DEF up, down
    <3> QED
      BY <1>1, TotalNat
  <2> QED
    BY <2>1 DEF SumOf
<1>3. SumOf(f, {}) = 0
  <2>1. Units(up({})) = {} /\ Units(down({})) = {}
    BY DEF Units
  <2>2. Total(up({})) = 0 /\ Total(down({})) = 0
    BY <2>1, FS_EmptySet DEF Total
  <2>3. SumOf(f, {}) = Total(up({})) - Total(down({}))
    BY DEF SumOf
  <2> QED
    BY <2>2, <2>3
<1>4. ASSUME NEW x \in S
      PROVE  SumOf(f, S) = f[x] + SumOf(f, S \ {x})
  <2>1. /\ [y \in S \ {x} |-> up(S)[y]] = up(S \ {x})
        /\ [y \in S \ {x} |-> down(S)[y]] = down(S \ {x})
        /\ up(S)[x] = Positive(f[x]) /\ down(S)[x] = Positive(-f[x])
    OBVIOUS
  <2>2. SumOf(f, S) = Total(up(S)) - Total(down(S))
        /\ SumOf(f, S \ {x}) = Total(up(S \ {x})) - Total(down(S \ {x}))
    BY DEF SumOf
  <2> HIDE DEF up, down
  <2>3. /\ Total(up(S \ {x})) \in Nat /\ Total(down(S \ {x})) \in Nat
        /\ Total(up(S)) = up(S)[x] + Total(up(S \ {x}))
        /\ Total(down(S)) = down(S)[x] + Total(down(S \ {x}))
    BY <1>1, <2>1, TotalSplit
  <2>4. f[x] \in Int /\ Positive(f[x]) - Positive(-f[x]) = f[x]
        /\ Positive(f[x]) \in Nat /\ Positive(-f[x]) \in Nat
    BY DEF Positive
  <2> QED
    BY <2>1, <2>2, <2>3, <2>4
<1> QED
  BY <1>2, <1>3, <1>4

\* There is such a table, and it has the sums.
LEMMA FoldIsSum ==
  ASSUME NEW S, IsFiniteSet(S), NEW f, \A x \in S : f[x] \in Int
  PROVE  /\ \E g : IsFold(g, f, S)
         /\ \A g : IsFold(g, f, S) => g[S] = SumOf(f, S)
<1>1. ASSUME NEW T \in SUBSET S
      PROVE  /\ IsFiniteSet(T) /\ SumOf(f, {}) = 0
             /\ \A x \in T : SumOf(f, T) = f[x] + SumOf(f, T \ {x})
  <2>1. IsFiniteSet(T) /\ \A x \in T : f[x] \in Int
    BY FS_Subset
  <2> QED
    BY <2>1, SumSplit
<1>2. IsFold([T \in SUBSET S |-> SumOf(f, T)], f, S)
  <2> DEFINE g == [T \in SUBSET S |-> SumOf(f, T)]
  <2>1. ASSUME NEW T \in SUBSET S
        PROVE  g[T] = IF T = {} THEN 0
                      ELSE f[CHOOSE x \in T : TRUE] + g[T \ {CHOOSE x \in T : TRUE}]
    <3> DEFINE x == CHOOSE x \in T : TRUE
    <3>1. CASE T = {}
      BY <1>1, <3>1
    <3>2. CASE T # {}
      <4>1. x \in T
        BY <3>2
      <4> HIDE DEF x
      <4>2. T \ {x} \in SUBSET S
        OBVIOUS
      <4>3. SumOf(f, T) = f[x] + SumOf(f, T \ {x})
        BY <1>1, <4>1
      <4>4. g[T] = f[x] + g[T \ {x}]
        BY <4>2, <4>3
      <4> QED
        BY <3>2, <4>4 DEF x
    <3> QED
      BY <3>1, <3>2
  <2>2. g = [T \in SUBSET S |-> g[T]]
    OBVIOUS
  <2> HIDE DEF g
  <2>3. IsFold(g, f, S)
    BY <2>1, <2>2 DEF IsFold
  <2> QED
    BY <2>3 DEF g
<1>3. ASSUME NEW g, IsFold(g, f, S)
      PROVE  g[S] = SumOf(f, S)
  <2> DEFINE P == {T \in SUBSET S : g[T] = SumOf(f, T)}
  <2>1. \A T \in SUBSET S :
          g[T] = IF T = {} THEN 0
                 ELSE f[CHOOSE x \in T : TRUE] + g[T \ {CHOOSE x \in T : TRUE}]
    BY <1>3 DEF IsFold
  <2>2. ASSUME NEW T \in SUBSET S, T # {}, T \ {CHOOSE x \in T : TRUE} \in P
        PROVE  T \in P
    <3> DEFINE x == CHOOSE x \in T : TRUE
    <3>1. x \in T
      BY <2>2
    <3>2. g[T] = f[x] + g[T \ {x}]
      BY <2>1, <2>2
    <3> HIDE DEF x
    <3>3. g[T \ {x}] = SumOf(f, T \ {x})
      BY <2>2 DEF x
    <3> QED
      BY <1>1, <3>1, <3>2, <3>3
  <2>3. {} \in P
    BY <1>1, <2>1
  <2>4. S \in P
    <3>1. \A T \in SUBSET S : T # {} /\ (\A x \in T : T \ {x} \in P) => T \in P
      BY <2>2
    <3> HIDE DEF P
    <3> QED
      BY <2>3, <3>1, SubsetInduction
  <2> QED
    BY <2>4
<1> QED
  BY <1>2, <1>3

\* Sums are ordered as their rows are, and strictly so if one row is.
LEMMA SumsOrdered ==
  ASSUME NEW S, IsFiniteSet(S), NEW f, NEW g,
         \A x \in S : f[x] \in Int /\ g[x] \in Int /\ f[x] <= g[x]
  PROVE  /\ SumOf(f, S) <= SumOf(g, S)
         /\ SumOf(g, S) <= SumOf(f, S) => \A x \in S : f[x] = g[x]
<1> DEFINE P == {T \in SUBSET S : SumOf(f, T) <= SumOf(g, T)}
<1>1. ASSUME NEW T \in SUBSET S
      PROVE  /\ SumOf(f, T) \in Int /\ SumOf(g, T) \in Int
             /\ SumOf(f, {}) = 0 /\ SumOf(g, {}) = 0
             /\ \A x \in T : /\ SumOf(f, T) = f[x] + SumOf(f, T \ {x})
                            /\ SumOf(g, T) = g[x] + SumOf(g, T \ {x})
  <2>1. IsFiniteSet(T) /\ \A x \in T : f[x] \in Int /\ g[x] \in Int
    BY FS_Subset
  <2> QED
    BY <2>1, SumSplit
<1>2. {} \in P
  BY <1>1
<1>3. ASSUME NEW T \in SUBSET S, NEW x \in T, T \ {x} \in P
      PROVE  T \in P
  <2>1. T \ {x} \in SUBSET S /\ SumOf(f, T \ {x}) <= SumOf(g, T \ {x})
    BY <1>3
  <2>2. /\ SumOf(f, T) = f[x] + SumOf(f, T \ {x})
        /\ SumOf(g, T) = g[x] + SumOf(g, T \ {x})
        /\ SumOf(f, T \ {x}) \in Int /\ SumOf(g, T \ {x}) \in Int
        /\ f[x] \in Int /\ g[x] \in Int /\ f[x] <= g[x]
    BY <1>1, <2>1
  <2>3. SumOf(f, T) <= SumOf(g, T)
    BY <2>1, <2>2
  <2> QED
    BY <2>3
<1>4. \A T \in SUBSET S : T \in P
  <2>1. \A T \in SUBSET S : T # {} /\ (\A x \in T : T \ {x} \in P) => T \in P
    BY <1>3
  <2> HIDE DEF P
  <2> QED
    BY <1>2, <2>1, SubsetInduction
<1>5. ASSUME SumOf(g, S) <= SumOf(f, S), NEW x \in S
      PROVE  f[x] = g[x]
  <2>1. /\ SumOf(f, S) = f[x] + SumOf(f, S \ {x})
        /\ SumOf(g, S) = g[x] + SumOf(g, S \ {x})
    BY <1>1
  <2>2. /\ SumOf(f, S \ {x}) \in Int /\ SumOf(g, S \ {x}) \in Int
        /\ SumOf(f, S \ {x}) <= SumOf(g, S \ {x})
    BY <1>1, <1>4
  <2> QED
    BY <1>5, <2>1, <2>2
<1> QED
  BY <1>4, <1>5

\* A sum of natural numbers is a total.
LEMMA TotalIsSum ==
  ASSUME NEW D, IsFiniteSet(D), NEW f \in [D -> Nat]
  PROVE  SumOf(f, D) = Total(f)
<1>1. [x \in D |-> Positive(f[x])] = f
  BY DEF Positive
<1>2. [x \in D |-> Positive(-f[x])] = [x \in D |-> 0]
  BY DEF Positive
<1>3. Total([x \in D |-> 0]) = 0
  <2>1. Units([x \in D |-> 0]) = {}
    BY DEF Units
  <2> QED
    BY <2>1, FS_EmptySet DEF Total
<1>4. Total(f) \in Nat
  BY TotalNat
<1> QED
  BY <1>1, <1>2, <1>3, <1>4 DEF SumOf
=============================================================================
