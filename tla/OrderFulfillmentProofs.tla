----------------------- MODULE OrderFulfillmentProofs -----------------------
(***************************************************************************)
(* What an order, its fulfillments, its stock and its payment keep true,   *)
(* for any lines, quantities, workers and number of requests.              *)
(***************************************************************************)
EXTENDS OrderFulfillment, QuantitiesProofs

-----------------------------------------------------------------------------
(* Types.                                                                  *)

LineRows == [Lines -> [quantity : Nat, quantity_fulfilled : Int]]
PieceRows == [Pieces -> Nat]
Row == [status : FulfillmentStatuses \cup {"none"}, pieces : PieceRows]

Ops == {"fulfill", "approve", "withdraw", "restock", "refund", "return",
        "cancel", "confirm", "update", "expire", "callback"}

Jobs == [op : Ops, at : Slots \cup {"none"},
         take : [Lines -> Nat], pull : PieceRows,
         opts : SUBSET {"approved", "exceed", "replace", "refund"},
         stale : BOOLEAN,
         seen : [status : Statuses, lines : LineRows, captured : Nat, row : Row]]

\* What a refund or a return may take pieces from.
MovableIn == {"fulfilled", "refunded", "returned", "waiting_for_approval"}

\* A request about a fulfillment loaded one whose status allowed it, and asks
\* for no more pieces than it had then; one about order lines asks for no more
\* than was unfulfilled.
JobOK(j) ==
  /\ j \in Jobs
  /\ \A p \in Pieces : j.pull[p] <= j.seen.row.pieces[p]
  /\ j.op \in {"approve", "withdraw"} =>
       j.at \in Slots /\ j.seen.row.status = "waiting_for_approval"
  /\ j.op = "restock" =>
       /\ j.at \in Slots
       /\ j.seen.row.status \in FulfillmentStatuses
                                  \ {"canceled", "waiting_for_approval"}
  /\ j.op \in {"refund", "return"} /\ j.at \in Slots =>
       j.seen.row.status \in MovableIn
  /\ j.at \notin Slots => j.pull = NoPull
  /\ j.op = "fulfill" => j.take # NoTake
  /\ j.op \in {"fulfill", "refund", "return"} =>
       \A l \in Lines : j.take[l] <= Positive(Unfulfilled(j.seen.lines[l]))

JobsOK ==
  /\ job = [w \in Workers |-> job[w]]
  /\ \A w \in Workers : job[w] = Idle \/ JobOK(job[w])

TypeInv == TypeOK /\ JobsOK

\* The empty row, and nothing taken, have their types.
LEMMA NoRowType == NoRow \in Row /\ NoPull \in PieceRows /\ NoTake \in [Lines -> Nat]
BY DEF NoRow, NoPull, NoTake, Row, PieceRows

\* A transaction is run for a request that was loaded, and leaves jobs.
LEMMA CommitType ==
  ASSUME TypeInv, NEW w \in Workers, NEW op, op # "idle", NEW next,
         next = Idle \/ JobOK(next), Commit(w, op, next)
  PROVE  /\ JobOK(job[w]) /\ job[w].op = op
         /\ JobsOK'
         /\ raced' \in BOOLEAN /\ calls' \in Nat
         /\ raced' = (raced \/ job[w].stale)
<1>1. job[w] # Idle /\ job[w].op = op
  BY DEF Commit, Idle
<1>2. JobOK(job[w])
  BY <1>1 DEF TypeInv, JobsOK
<1>3. JobsOK'
  <2>1. ASSUME NEW u \in Workers
        PROVE  job'[u] = Idle \/ JobOK(job'[u])
    <3>1. CASE u = w
      BY <3>1 DEF Commit
    <3>2. CASE u # w /\ job[u] = Idle
      BY <3>2 DEF Commit
    <3>3. CASE u # w /\ job[u] # Idle
      <4>1. JobOK(job[u]) /\ job'[u] = [job[u] EXCEPT !.stale = TRUE]
        BY <3>3 DEF Commit, TypeInv, JobsOK
      <4> DEFINE j == job[u]
      <4> HIDE DEF j
      <4>2. JobOK([j EXCEPT !.stale = TRUE])
        <5>1. JobOK(j)
          BY <4>1 DEF j
        <5> QED
          BY <5>1 DEF JobOK, Jobs
      <4> QED
        BY <4>1, <4>2 DEF j
    <3> QED
      BY <3>1, <3>2, <3>3
  <2>2. job' = [u \in Workers |-> job'[u]]
    BY DEF Commit
  <2> QED
    BY <2>1, <2>2 DEF JobsOK, JobOK
<1>4. raced' \in BOOLEAN /\ calls' \in Nat /\ raced' = (raced \/ job[w].stale)
  BY <1>2 DEF Commit, TypeInv, TypeOK, JobOK, Jobs
<1> QED
  BY <1>1, <1>2, <1>3, <1>4

\* What a request loads is what a transaction expects.
LEMMA RequestType ==
  ASSUME TypeInv, NEW w \in Workers, NEW op \in Ops, NEW at \in Slots \cup {"none"},
         NEW take \in [Lines -> Nat], NEW pull \in PieceRows,
         NEW opts \in SUBSET {"approved", "exceed", "replace", "refund"},
         JobOK(Loaded(op, at, take, pull, opts)),
         Request(w, op, at, take, pull, opts)
  PROVE  TypeInv'
<1> DEFINE j == Loaded(op, at, take, pull, opts)
<1>1. JobOK(j)
  OBVIOUS
<1> HIDE DEF j
<1>2. job' = [job EXCEPT ![w] = j]
  BY DEF Request, j
<1>3. JobsOK'
  BY <1>1, <1>2 DEF TypeInv, JobsOK, JobOK
<1>4. TypeOK'
  BY DEF Request, rows, money, TypeInv, TypeOK
<1> QED
  BY <1>3, <1>4 DEF TypeInv

\* Requests name pieces that are there, and fulfillments in a status that
\* allows what is asked.
LEMMA StartType ==
  ASSUME TypeInv, NEW w \in Workers, Start(w)
  PROVE  TypeInv'
<1> USE NoRowType
<1>a. /\ status \in Statuses /\ lines \in LineRows /\ captured \in Nat
      /\ \A f \in Slots : fulfillments[f] \in Row
  BY DEF TypeInv, TypeOK, LineRows, Row, PieceRows
<1>b. ASSUME NEW op \in Ops, NEW take \in [Lines -> Nat],
             NEW opts \in SUBSET {"approved", "exceed", "replace", "refund"},
             op \notin {"approve", "withdraw", "restock"},
             op \in {"fulfill", "refund", "return"} => take \in Takes
      PROVE  JobOK(Loaded(op, "none", take, NoPull, opts))
  <2>1. Loaded(op, "none", take, NoPull, opts) \in Jobs
    BY <1>a, <1>b, OrderAssumption DEF Loaded, Jobs
  <2>2. op \in {"fulfill", "refund", "return"} =>
          /\ take # NoTake
          /\ \A l \in Lines : take[l] <= Positive(Unfulfilled(lines[l]))
    BY <1>b DEF Takes
  <2> QED
    BY <2>1, <2>2, <1>b, OrderAssumption DEF Loaded, JobOK, NoPull, NoRow
<1>c. ASSUME NEW op \in {"approve", "withdraw", "restock", "refund", "return"},
             NEW f \in Slots, NEW pull \in PieceRows,
             NEW opts \in SUBSET {"approved", "exceed", "replace", "refund"},
             \A p \in Pieces : pull[p] <= fulfillments[f].pieces[p],
             op \in {"approve", "withdraw"} =>
               fulfillments[f].status = "waiting_for_approval",
             op = "restock" =>
               fulfillments[f].status \notin {"none", "canceled",
                                              "waiting_for_approval"},
             op \in {"refund", "return"} => fulfillments[f].status \in MovableIn
      PROVE  JobOK(Loaded(op, f, NoTake, pull, opts))
  <2>1. Loaded(op, f, NoTake, pull, opts) \in Jobs
    BY <1>a, <1>c DEF Loaded, Jobs, Ops
  <2>2. fulfillments[f].status \in FulfillmentStatuses \cup {"none"}
    BY <1>a DEF Row
  <2>3. \A l \in Lines : NoTake[l] <= Positive(Unfulfilled(lines[l]))
    BY <1>a DEF NoTake, Positive, Unfulfilled, LineRows
  <2> QED
    BY <2>1, <2>2, <2>3, <1>c DEF Loaded, JobOK
<1>d. \A f \in Slots : \A p \in Pieces : NoPull[p] <= fulfillments[f].pieces[p]
  BY <1>a DEF NoPull, Row, PieceRows
<1>e. \A take \in Takes : take \in [Lines -> Nat]
  BY OrderAssumption DEF Takes
<1>f. ASSUME NEW f \in Slots, NEW pull \in Pulls(f)
      PROVE  /\ pull \in PieceRows
             /\ \A p \in Pieces : pull[p] <= fulfillments[f].pieces[p]
  <2>1. PICK p \in Pieces : \E n \in 1 .. fulfillments[f].pieces[p] :
               pull = [NoPull EXCEPT ![p] = n]
    BY <1>f DEF Pulls
  <2>2. \A q \in Pieces : fulfillments[f].pieces[q] \in Nat
    BY <1>a DEF Row, PieceRows
  <2> QED
    BY <2>1, <2>2, <1>d DEF NoPull, PieceRows
<1>g. ASSUME NEW op \in {"refund", "return"}, NEW allowed,
             allowed \subseteq MovableIn,
             NEW opts \in SUBSET {"approved", "exceed", "replace", "refund"},
             ForPieces(w, op, allowed, opts)
      PROVE  TypeInv'
  <2>1. CASE \E take \in Takes : Request(w, op, "none", take, NoPull, opts)
    <3>1. PICK take \in Takes : Request(w, op, "none", take, NoPull, opts)
      BY <2>1
    <3>2. take \in [Lines -> Nat] /\ op \in Ops
      BY <1>e DEF Ops
    <3>3. JobOK(Loaded(op, "none", take, NoPull, opts))
      BY <3>2, <1>b
    <3> QED
      BY <3>1, <3>2, <3>3, RequestType
  <2>2. ASSUME NEW f \in Slots, fulfillments[f].status \in allowed,
               NEW pull \in Pulls(f), Request(w, op, f, NoTake, pull, opts)
        PROVE  TypeInv'
    <3>1. pull \in PieceRows /\ op \in Ops
          /\ \A p \in Pieces : pull[p] <= fulfillments[f].pieces[p]
      BY <1>f DEF Ops
    <3>2. JobOK(Loaded(op, f, NoTake, pull, opts))
      BY <3>1, <2>2, <1>g, <1>c
    <3> QED
      BY <3>1, <3>2, <2>2, RequestType
  <2> QED
    BY <2>1, <2>2, <1>g DEF ForPieces
<1>1. CASE StartFulfill(w)
  <2>1. PICK take \in Takes, opts \in SUBSET {"approved", "exceed"} :
               Request(w, "fulfill", "none", take, NoPull, opts)
    BY <1>1 DEF StartFulfill
  <2>2. take \in [Lines -> Nat] /\ "fulfill" \in Ops
        /\ opts \in SUBSET {"approved", "exceed", "replace", "refund"}
    BY <1>e DEF Ops
  <2>3. JobOK(Loaded("fulfill", "none", take, NoPull, opts))
    BY <2>2, <1>b
  <2> QED
    BY <2>1, <2>2, <2>3, RequestType
<1>2. CASE StartApprove(w)
  <2>1. PICK f \in Slots, opts \in SUBSET {"exceed"} :
               /\ fulfillments[f].status = "waiting_for_approval"
               /\ Request(w, "approve", f, NoTake, NoPull, opts)
    BY <1>2 DEF StartApprove
  <2>2. opts \in SUBSET {"approved", "exceed", "replace", "refund"}
        /\ "approve" \in Ops
    BY DEF Ops
  <2>3. JobOK(Loaded("approve", f, NoTake, NoPull, opts))
    BY <2>1, <2>2, <1>c, <1>d
  <2> QED
    BY <2>1, <2>2, <2>3, RequestType
<1>3. CASE StartCancelFulfillment(w)
  <2>1. PICK f \in Slots :
               /\ fulfillments[f].status \notin {"none", "canceled"}
               /\ Request(w, IF fulfillments[f].status = "waiting_for_approval"
                             THEN "withdraw" ELSE "restock",
                          f, NoTake, NoPull, {})
    BY <1>3 DEF StartCancelFulfillment
  <2>2. {} \in SUBSET {"approved", "exceed", "replace", "refund"}
        /\ "withdraw" \in Ops /\ "restock" \in Ops
    BY DEF Ops
  <2>3. CASE fulfillments[f].status = "waiting_for_approval"
    <3>1. JobOK(Loaded("withdraw", f, NoTake, NoPull, {}))
      BY <2>2, <2>3, <1>c, <1>d
    <3>2. Request(w, "withdraw", f, NoTake, NoPull, {})
      BY <2>1, <2>3
    <3> QED
      BY <2>2, <3>1, <3>2, RequestType
  <2>4. CASE fulfillments[f].status # "waiting_for_approval"
    <3>1. JobOK(Loaded("restock", f, NoTake, NoPull, {}))
      BY <2>1, <2>2, <2>4, <1>c, <1>d
    <3>2. Request(w, "restock", f, NoTake, NoPull, {})
      BY <2>1, <2>4
    <3> QED
      BY <2>2, <3>1, <3>2, RequestType
  <2> QED
    BY <2>3, <2>4
<1>4. CASE StartRefund(w)
  BY <1>4, <1>g DEF StartRefund, MovableIn
<1>5. CASE StartReturn(w)
  <2>1. PICK opts \in {{}, {"replace"}, {"refund"}} :
          ForPieces(w, "return",
                    {"fulfilled", "refunded", "waiting_for_approval"}, opts)
    BY <1>5 DEF StartReturn
  <2>2. opts \in SUBSET {"approved", "exceed", "replace", "refund"}
    OBVIOUS
  <2> QED
    BY <2>1, <2>2, <1>g DEF MovableIn
<1>6. ASSUME NEW op \in {"cancel", "confirm", "expire"},
             Request(w, op, "none", NoTake, NoPull, {})
      PROVE  TypeInv'
  <2>1. op \in Ops /\ {} \in SUBSET {"approved", "exceed", "replace", "refund"}
    BY DEF Ops
  <2>2. JobOK(Loaded(op, "none", NoTake, NoPull, {}))
    BY <2>1, <1>b
  <2> QED
    BY <2>1, <2>2, <1>6, RequestType
<1>7. CASE StartCancel(w)
  BY <1>6, <1>7 DEF StartCancel
<1>8. CASE StartConfirm(w)
  BY <1>6, <1>8 DEF StartConfirm
<1>9. CASE StartExpire(w)
  BY <1>6, <1>9 DEF StartExpire
<1>10. CASE StartUpdateLine(w)
  <2>1. PICK l \in Lines, n \in 1 .. Ordered :
          Request(w, "update", "none",
                  [k \in Lines |-> IF k = l THEN n ELSE lines[k].quantity],
                  NoPull, {})
    BY <1>10 DEF StartUpdateLine
  <2> DEFINE take == [k \in Lines |-> IF k = l THEN n ELSE lines[k].quantity]
  <2>2. take \in [Lines -> Nat]
    BY <1>a, OrderAssumption DEF LineRows
  <2> HIDE DEF take
  <2>3. "update" \in Ops /\ {} \in SUBSET {"approved", "exceed", "replace", "refund"}
    BY DEF Ops
  <2>4. JobOK(Loaded("update", "none", take, NoPull, {}))
    BY <2>2, <2>3, <1>b
  <2> QED
    BY <2>1, <2>2, <2>3, <2>4, RequestType DEF take
<1> QED
  BY <1>1, <1>2, <1>3, <1>4, <1>5, <1>7, <1>8, <1>9, <1>10 DEF Start

-----------------------------------------------------------------------------
(* What the operators return.                                              *)

\* update_order_status gives an order one of its statuses.
LEMMA DerivedType ==
  ASSUME NEW old \in Statuses, NEW ls, NEW fs
  PROVE  Derived(old, ls, fs) \in Statuses
<1> DEFINE replaced == Count(fs, {"replaced"})
           returned == Count(fs, {"returned", "refunded_and_returned"})
           total == MapThenSumSet(LAMBDA l : ls[l].quantity, Lines) - replaced
           done == MapThenSumSet(LAMBDA l : ls[l].quantity_fulfilled, Lines)
                     - replaced
<1>1. Derived(old, ls, fs) =
        CASE total = 0 -> old
          [] total # 0 /\ done <= 0 -> "unfulfilled"
          [] total # 0 /\ done > 0 /\ 0 < returned /\ returned < total ->
               "partially_returned"
          [] total # 0 /\ done > 0 /\ returned = total -> "returned"
          [] OTHER -> IF done < total \/ AwaitsApproval(fs)
                      THEN "partially fulfilled" ELSE "fulfilled"
  BY DEF Derived
<1> HIDE DEF replaced, returned, total, done
<1> QED
  BY <1>1 DEF Statuses

\* Pieces of a fulfillment, by order line.
LEMMA ByLineType ==
  ASSUME NEW pieces \in PieceRows
  PROVE  ByLine(pieces) \in [Lines -> Nat]
<1>1. \A l \in Lines : <<l, "stocked">> \in Pieces /\ <<l, "bare">> \in Pieces
  BY DEF Pieces, Kinds
<1> QED
  BY <1>1 DEF ByLine, PieceRows

\* Deallocating takes no more than is allocated, and what is asked if there is as much.
LEMMA DeallocatedType ==
  ASSUME TypeOK, NEW take \in [Lines -> Nat]
  PROVE  /\ Deallocated(take) \in [Lines -> Nat]
         /\ \A l \in Lines : /\ Deallocated(take)[l] <= allocation[l]
                             /\ Deallocated(take)[l] >= allocation[l] - take[l]
                             /\ take[l] = 0 => Deallocated(take)[l] = allocation[l]
BY DEF TypeOK, Deallocated, Positive

\* Lines written from loaded rows are lines.
LEMMA IncreasedType ==
  ASSUME TypeOK, NEW seen \in LineRows, NEW take \in [Lines -> Nat]
  PROVE  IncreasedFrom(seen, take) \in LineRows
BY DEF TypeOK, IncreasedFrom, LineRows

\* Order lines keep their type when fulfilled quantities are lowered.
LEMMA DecreasedType ==
  ASSUME TypeOK, NEW take \in [Lines -> Nat]
  PROVE  Decreased(take) \in LineRows
BY DEF TypeOK, Decreased, LineRows

\* Shipping pieces leaves a stock what is allocated there, or the line is
\* among those for which it was allowed to be exceeded.
LEMMA DecreaseKeeps ==
  ASSUME TypeOK, StockCovers, NEW take \in [Lines -> Nat], NEW opts,
         DecreaseStocks(take, opts)
  PROVE  /\ stock' \in [Lines -> Int]
         /\ allocation' \in [Lines -> Nat]
         /\ exceeded' \subseteq Lines
         /\ StockCovers'
<1>1. /\ stock' \in [Lines -> Int]
      /\ allocation' \in [Lines -> Nat]
      /\ exceeded' \subseteq Lines
  BY DeallocatedType DEF DecreaseStocks, TypeOK, Short
<1>2. ASSUME NEW l \in Lines \ exceeded'
      PROVE  Promised + allocation'[l] <= stock'[l]
  <2> DEFINE left == Deallocated(take)[l]
  <2>1. /\ left \in Nat /\ stock[l] \in Int /\ take[l] \in Nat
        /\ Promised \in Nat /\ allocation[l] \in Nat
        /\ take[l] = 0 => left = allocation[l]
    BY DeallocatedType, OrderAssumption DEF TypeOK
  <2>2. allocation'[l] = left /\ stock'[l] = stock[l] - take[l]
    BY DEF DecreaseStocks
  <2>3. Promised + allocation[l] <= stock[l]
    BY <1>2 DEF StockCovers, DecreaseStocks
  <2>4. take[l] > 0 => ~(stock[l] - Promised - left < take[l])
    BY <1>2 DEF DecreaseStocks, Short
  <2> HIDE DEF left
  <2> QED
    BY <2>1, <2>2, <2>3, <2>4
<1> QED
  BY <1>1, <1>2 DEF StockCovers

\* The types of the payment's columns, and what is known of them: as long as no
\* refund was put off, none is under way.
MoneyType ==
  /\ captured \in Nat /\ refunded \in Nat /\ ongoing \in 0 .. refunded
  /\ postponed \in BOOLEAN /\ unbooked \in BOOLEAN

MoneyOK ==
  /\ RefundedWithinCharge
  /\ postponed \/ ongoing = 0

\* A step that leaves the payment alone keeps both.
LEMMA MoneyKept ==
  ASSUME TypeOK, MoneyOK, UNCHANGED money
  PROVE  MoneyType' /\ MoneyOK'
BY DEF TypeOK, MoneyType, MoneyOK, RefundedWithinCharge, money

\* What a refund asks for is a quantity.
LEMMA AskedType ==
  ASSUME NEW j \in Jobs
  PROVE  AmountAsked(j) \in Nat
<1>1. IsFiniteSet(Pieces)
  <2>1. IsFiniteSet({"stocked"})
    BY FS_Singleton
  <2>2. IsFiniteSet({"stocked"} \cup {"bare"})
    BY <2>1, FS_AddElement
  <2>3. Kinds = {"stocked"} \cup {"bare"}
    BY DEF Kinds
  <2>4. IsFiniteSet(Kinds)
    BY <2>2, <2>3
  <2> QED
    BY <2>4, OrderAssumption, FS_Product DEF Pieces
<1>2. Total(j.take) \in Nat /\ Total(j.pull) \in Nat
  BY <1>1, OrderAssumption, TotalNat DEF Jobs, PieceRows
<1>3. RefundAmount(j) \in Nat
  BY <1>2 DEF RefundAmount
<1>4. j.seen.captured \in Nat
  BY DEF Jobs
<1> QED
  BY <1>3, <1>4 DEF AmountAsked, Lesser

\* An agreed refund leaves captured_amount at once or goes under way; either
\* way what is captured still says what is left of the charge.
LEMMA AgreeKeeps ==
  ASSUME TypeOK, MoneyOK, NEW amount \in Nat, 0 < amount, amount <= captured,
         Agree(amount), UNCHANGED unbooked
  PROVE  MoneyType' /\ MoneyOK'
<1>1. /\ captured \in Nat /\ refunded \in Nat /\ ongoing \in Nat
      /\ ongoing <= refunded /\ Charge \in Nat
      /\ postponed \in BOOLEAN /\ unbooked \in BOOLEAN
  BY OrderAssumption DEF TypeOK
<1>2. unbooked \/ /\ captured = Charge - (refunded - ongoing)
                  /\ postponed \/ refunded <= Charge
  BY <1>1 DEF MoneyOK, RefundedWithinCharge, Positive
<1>3. postponed \/ ongoing = 0
  BY DEF MoneyOK
<1>4. CASE captured' = Positive(captured - amount) /\ refunded' = refunded + amount
           /\ UNCHANGED <<ongoing, postponed>>
  <2>1. captured' = captured - amount
    BY <1>1, <1>4 DEF Positive
  <2>2. MoneyType'
    BY <1>1, <1>4, <2>1 DEF MoneyType
  <2>3. unbooked \/ /\ captured' = Positive(Charge - (refunded' - ongoing'))
                    /\ postponed' \/ refunded' <= Charge
    BY <1>1, <1>2, <1>3, <1>4, <2>1 DEF Positive
  <2> QED
    BY <1>3, <1>4, <2>2, <2>3 DEF MoneyOK, RefundedWithinCharge
<1>5. CASE ongoing' = ongoing + amount /\ postponed' = TRUE
           /\ captured' = captured /\ refunded' = refunded + amount
  <2>1. MoneyType'
    BY <1>1, <1>5 DEF MoneyType
  <2>2. unbooked \/ captured' = Positive(Charge - (refunded' - ongoing'))
    BY <1>1, <1>2, <1>5 DEF Positive
  <2> QED
    BY <1>5, <2>1, <2>2 DEF MoneyOK, RefundedWithinCharge
<1> QED
  BY <1>4, <1>5 DEF Agree

\* What _process_refund does to the payment.
LEMMA RefundKeeps ==
  ASSUME TypeOK, MoneyOK, NEW j \in Jobs, ProcessRefund(j)
  PROVE  MoneyType' /\ MoneyOK'
<1>1. AmountAsked(j) \in Nat
  BY AskedType
<1>2. CASE AmountAsked(j) = 0
  BY <1>2, MoneyKept DEF ProcessRefund
<1>3. CASE AmountAsked(j) # 0
  <2>1. /\ 0 < AmountAsked(j) /\ AmountAsked(j) <= captured
        /\ Agree(AmountAsked(j)) /\ UNCHANGED unbooked
    BY <1>1, <1>3 DEF ProcessRefund
  <2> QED
    BY <1>1, <2>1, AgreeKeeps
<1> QED
  BY <1>2, <1>3

\* What the gateway says later of a refund it had put off.
LEMMA NotifiedKeeps ==
  ASSUME TypeOK, MoneyOK, RefundSettled \/ RefundFailed
  PROVE  MoneyType' /\ MoneyOK'
<1>1. /\ captured \in Nat /\ refunded \in Nat /\ ongoing \in Nat
      /\ ongoing <= refunded /\ Charge \in Nat
      /\ postponed \in BOOLEAN /\ unbooked \in BOOLEAN
  BY OrderAssumption DEF TypeOK
<1>2. UNCHANGED <<postponed, unbooked>>
  BY DEF RefundSettled, RefundFailed
<1>3. PICK amount \in 1 .. ongoing :
        \/ /\ captured' = Positive(captured - amount) /\ ongoing' = ongoing - amount
           /\ refunded' = refunded
        \/ /\ refunded' = refunded - amount /\ ongoing' = ongoing - amount
           /\ captured' = captured
  BY DEF RefundSettled, RefundFailed
<1>4. amount \in Nat /\ 0 < amount /\ amount <= ongoing
  BY <1>1, <1>3
<1>5. postponed
  BY <1>1, <1>4 DEF MoneyOK
<1>6. unbooked \/ captured = Positive(Charge - (refunded - ongoing))
  BY <1>1, <1>4 DEF MoneyOK, RefundedWithinCharge
<1>7. MoneyType'
  BY <1>1, <1>2, <1>3, <1>4 DEF MoneyType, Positive
<1>8. unbooked \/ captured' = Positive(Charge - (refunded' - ongoing'))
  BY <1>1, <1>3, <1>4, <1>6 DEF Positive
<1> QED
  BY <1>2, <1>5, <1>7, <1>8 DEF MoneyOK, RefundedWithinCharge

\* What a return leaves in a fulfillment.
LEMMA LeftInType ==
  ASSUME NEW j, JobOK(j), NEW pieces \in PieceRows
  PROVE  LeftIn(pieces, j) \in PieceRows
BY DEF LeftIn, PieceRows, JobOK, Jobs, Row

\* The row that MovePieces creates.
Moved(j, target) ==
  [status |-> target,
   pieces |-> [p \in Pieces |->
     j.pull[p] + IF p[2] = "bare" THEN j.take[p[1]] ELSE 0]]

\* The fulfillment a return or refund moves pieces to.
LEMMA MovedType ==
  ASSUME NEW j, JobOK(j), NEW target \in FulfillmentStatuses
  PROVE  Moved(j, target) \in Row
<1>1. \A p \in Pieces : /\ j.pull[p] \in Nat
                       /\ j.take[p[1]] \in Nat
  BY DEF JobOK, Jobs, PieceRows, Pieces
<1> QED
  BY <1>1 DEF Moved, Row, PieceRows

\* Moving pieces leaves rows, and takes nothing from what covers the stock.
LEMMA MoveKeeps ==
  ASSUME TypeOK, StockCovers, NEW j, JobOK(j), NEW target \in FulfillmentStatuses,
         MovePieces(j, target), UNCHANGED <<stock, exceeded>>
  PROVE  /\ fulfillments' \in [Slots -> Row]
         /\ lines' \in LineRows
         /\ allocation' \in [Lines -> Nat]
         /\ StockCovers'
<1>1. fulfillments' \in [Slots -> Row]
  <2>1. PICK f \in Slots : fulfillments' = Swept(
            [g \in Slots |->
               IF g = f THEN Moved(j, target)
               ELSE IF g = j.at
               THEN [fulfillments[g] EXCEPT !.pieces = LeftIn(@, j)]
               ELSE fulfillments[g]])
    BY DEF MovePieces, Moved
  <2> DEFINE fs == [g \in Slots |->
               IF g = f THEN Moved(j, target)
               ELSE IF g = j.at
               THEN [fulfillments[g] EXCEPT !.pieces = LeftIn(@, j)]
               ELSE fulfillments[g]]
  <2>2. ASSUME NEW g \in Slots
        PROVE  fs[g] \in Row
    <3>1. fulfillments[g] \in Row
      BY DEF TypeOK, Row, PieceRows
    <3>2. LeftIn(fulfillments[g].pieces, j) \in PieceRows
      BY <3>1, LeftInType DEF Row
    <3>3. [fulfillments[g] EXCEPT !.pieces = LeftIn(@, j)] \in Row
      BY <3>1, <3>2 DEF Row
    <3> QED
      BY <3>1, <3>3, MovedType
  <2> HIDE DEF fs
  <2>3. Swept(fs) \in [Slots -> Row]
    BY <2>2, NoRowType DEF Swept
  <2> QED
    BY <2>1, <2>3 DEF fs
<1>2. j.take \in [Lines -> Nat] /\ j.seen.lines \in LineRows
  BY DEF JobOK, Jobs
<1>3. lines' \in LineRows
  BY <1>2, IncreasedType DEF MovePieces
<1>4. /\ allocation' \in [Lines -> Nat]
      /\ \A l \in Lines : allocation'[l] <= allocation[l]
  BY <1>2, DeallocatedType DEF MovePieces
<1>5. StockCovers'
  BY <1>4, OrderAssumption DEF StockCovers, TypeOK
<1> QED
  BY <1>1, <1>3, <1>4, <1>5

-----------------------------------------------------------------------------
(* Every step keeps the types, a covered stock and a charge accounted for. *)

Covered == TypeInv /\ StockCovers /\ MoneyOK

\* The types of the rows, for the steps below.
LEMMA StatesType ==
  ASSUME TypeInv
  PROVE  /\ status \in Statuses /\ lines \in LineRows
         /\ fulfillments \in [Slots -> Row]
         /\ stock \in [Lines -> Int] /\ allocation \in [Lines -> Nat]
         /\ captured \in Nat /\ refunded \in Nat /\ MoneyType
         /\ raced \in BOOLEAN /\ released \in BOOLEAN
         /\ exceeded \subseteq Lines /\ calls \in Nat
BY DEF TypeInv, TypeOK, LineRows, Row, PieceRows, MoneyType

\* TypeOK again, from the sets named here.
LEMMA TypeOKFrom ==
  ASSUME status' \in Statuses, lines' \in LineRows, fulfillments' \in [Slots -> Row],
         stock' \in [Lines -> Int], allocation' \in [Lines -> Nat],
         MoneyType', raced' \in BOOLEAN,
         released' \in BOOLEAN, exceeded' \subseteq Lines, calls' \in Nat
  PROVE  TypeOK'
BY DEF TypeOK, LineRows, Row, PieceRows, MoneyType

\* A request for the update of the status is a job.
LEMMA CallbackOK ==
  ASSUME TypeInv, NEW st \in Statuses
  PROVE  JobOK(Callback(st))
BY StatesType, NoRowType, OrderAssumption
DEF Callback, JobOK, Jobs, Ops, NoRow, NoPull

\* order_fulfilled and create_fulfillments keep Covered.
LEMMA FulfillCovered ==
  ASSUME Covered, NEW w \in Workers, Fulfill(w)
  PROVE  Covered'
<1> DEFINE j == job[w]
           next == IF "approved" \in j.opts THEN Callback(status) ELSE Idle
<1>1. next = Idle \/ JobOK(next)
  BY CallbackOK, StatesType DEF Covered
<1>2. Commit(w, "fulfill", next)
  BY DEF Fulfill
<1> HIDE DEF next
<1>3. /\ JobOK(j) /\ JobsOK' /\ raced' \in BOOLEAN /\ calls' \in Nat
  BY <1>1, <1>2, CommitType DEF Covered
<1>4. j.take \in [Lines -> Nat] /\ j.seen.lines \in LineRows
  BY <1>3 DEF JobOK, Jobs
<1>5. lines' \in LineRows
  BY <1>4, IncreasedType DEF Fulfill, Covered, TypeInv
<1>6. fulfillments' \in [Slots -> Row]
  <2> DEFINE pieces == [p \in Pieces |-> IF p[2] = "stocked" THEN j.take[p[1]] ELSE 0]
             st == IF "approved" \in j.opts THEN "fulfilled"
                   ELSE "waiting_for_approval"
  <2>1. pieces \in PieceRows
    BY <1>4 DEF PieceRows, Pieces
  <2>2. st \in FulfillmentStatuses
    BY DEF FulfillmentStatuses
  <2>3. PICK f \in Slots :
          fulfillments' = [fulfillments EXCEPT ![f] = [status |-> st, pieces |-> pieces]]
    BY DEF Fulfill
  <2> HIDE DEF pieces, st
  <2> QED
    BY <2>1, <2>2, <2>3, StatesType DEF Covered, Row
<1>7. /\ stock' \in [Lines -> Int] /\ allocation' \in [Lines -> Nat]
      /\ exceeded' \subseteq Lines /\ StockCovers'
  <2>1. CASE "approved" \in j.opts
    BY <2>1, <1>4, DecreaseKeeps DEF Fulfill, Covered, TypeInv
  <2>2. CASE "approved" \notin j.opts
    BY <2>2, StatesType DEF Fulfill, Covered, StockCovers
  <2> QED
    BY <2>1, <2>2
<1>8. MoneyType' /\ MoneyOK'
  BY MoneyKept DEF Fulfill, Covered, TypeInv
<1>9. TypeOK'
  BY <1>8, <1>3, <1>5, <1>6, <1>7, StatesType, TypeOKFrom DEF Fulfill, Covered
<1> QED
  BY <1>3, <1>7, <1>8, <1>9 DEF Covered, TypeInv

\* approve_fulfillment keeps it.
LEMMA ApproveCovered ==
  ASSUME Covered, NEW w \in Workers, Approve(w)
  PROVE  Covered'
<1> DEFINE j == job[w]
           fs == [fulfillments EXCEPT ![j.at].status = "fulfilled"]
           take == ByLine(fulfillments[j.at].pieces)
<1>1. /\ JobOK(j) /\ j.op = "approve"
      /\ JobsOK' /\ raced' \in BOOLEAN /\ calls' \in Nat
  BY CommitType DEF Covered, Approve
<1>2. j.at \in Slots
  BY <1>1 DEF JobOK
<1>3. fulfillments[j.at] \in Row /\ take \in [Lines -> Nat]
  BY <1>2, StatesType, ByLineType DEF Covered, Row
<1>4. fs \in [Slots -> Row]
  BY <1>2, <1>3, StatesType DEF Covered, Row, FulfillmentStatuses
<1>5. DecreaseStocks(take, j.opts)
  BY DEF Approve
<1> HIDE DEF take
<1>6. /\ stock' \in [Lines -> Int] /\ allocation' \in [Lines -> Nat]
      /\ exceeded' \subseteq Lines /\ StockCovers'
  BY <1>3, <1>5, DecreaseKeeps DEF Covered, TypeInv
<1>7. status' \in Statuses
  BY DerivedType, StatesType DEF Approve, Covered
<1>8. MoneyType' /\ MoneyOK'
  BY MoneyKept DEF Approve, Covered, TypeInv
<1>9. TypeOK'
  BY <1>8, <1>1, <1>4, <1>6, <1>7, StatesType, TypeOKFrom DEF Approve, Covered
<1> QED
  BY <1>1, <1>6, <1>8, <1>9 DEF Covered, TypeInv

\* cancel_waiting_fulfillment keeps it.
LEMMA WithdrawCovered ==
  ASSUME Covered, NEW w \in Workers, Withdraw(w)
  PROVE  Covered'
<1> DEFINE j == job[w]
           back == ByLine(fulfillments[j.at].pieces)
<1>1. /\ JobOK(j) /\ j.op = "withdraw"
      /\ JobsOK' /\ raced' \in BOOLEAN /\ calls' \in Nat
  BY CommitType DEF Covered, Withdraw
<1>2. j.at \in Slots
  BY <1>1 DEF JobOK
<1>3. back \in [Lines -> Nat]
  BY <1>2, StatesType, ByLineType DEF Covered, Row
<1>4. lines' \in LineRows
  BY <1>3, DecreasedType DEF Withdraw, Covered, TypeInv
<1>5. fulfillments' \in [Slots -> Row]
  BY StatesType, NoRowType DEF Withdraw, Covered
<1>6. status' \in Statuses
  BY DerivedType, StatesType DEF Withdraw, Covered
<1>7. MoneyType' /\ MoneyOK'
  BY MoneyKept DEF Withdraw, Covered, TypeInv
<1>8. TypeOK' /\ StockCovers'
  BY <1>7, <1>1, <1>4, <1>5, <1>6, StatesType, TypeOKFrom DEF Withdraw, Covered, StockCovers
<1> QED
  BY <1>1, <1>7, <1>8 DEF Covered, TypeInv

\* cancel_fulfillment keeps it: what it allocates again it puts back first.
LEMMA RestockCovered ==
  ASSUME Covered, NEW w \in Workers, Restock(w)
  PROVE  Covered'
<1> DEFINE j == job[w]
           back == ByLine(fulfillments[j.at].pieces)
           fs == [fulfillments EXCEPT ![j.at].status = "canceled"]
<1>1. /\ JobOK(j) /\ j.op = "restock"
      /\ JobsOK' /\ raced' \in BOOLEAN /\ calls' \in Nat
  BY CommitType DEF Covered, Restock
<1>2. j.at \in Slots
  BY <1>1 DEF JobOK
<1>3. fulfillments[j.at] \in Row /\ back \in [Lines -> Nat]
  BY <1>2, StatesType, ByLineType DEF Covered, Row
<1>4. fs \in [Slots -> Row]
  BY <1>2, <1>3, StatesType DEF Covered, Row, FulfillmentStatuses
<1>5. lines' = Decreased(back) /\ IncreaseStocks(back) /\ fulfillments' = fs
  BY DEF Restock
<1>6. lines' \in LineRows
  BY <1>3, <1>5, DecreasedType DEF Covered, TypeInv
<1> HIDE DEF back, fs
<1>7. stock' \in [Lines -> Int] /\ allocation' \in [Lines -> Nat]
  BY <1>3, <1>5, StatesType DEF IncreaseStocks, Covered
<1>8. StockCovers'
  <2>1. exceeded' = exceeded
    BY DEF Restock
  <2> QED
    BY <2>1, <1>3, <1>5, StatesType, OrderAssumption
    DEF IncreaseStocks, Covered, StockCovers
<1>9. status' \in Statuses
  BY DerivedType, StatesType DEF Restock, Covered
<1>10. MoneyType' /\ MoneyOK'
  BY MoneyKept DEF Restock, Covered, TypeInv
<1>11. TypeOK'
  BY <1>10, <1>1, <1>4, <1>5, <1>6, <1>7, <1>9, StatesType, TypeOKFrom DEF Restock, Covered
<1> QED
  BY <1>1, <1>8, <1>10, <1>11 DEF Covered, TypeInv

\* create_refund_fulfillment keeps it.
LEMMA RefundCovered ==
  ASSUME Covered, NEW w \in Workers, Refund(w)
  PROVE  Covered'
<1> DEFINE j == job[w]
<1>1. /\ JobOK(j) /\ JobsOK' /\ raced' \in BOOLEAN /\ calls' \in Nat
  BY CommitType DEF Covered, Refund
<1>2. ProcessRefund(j) /\ MovePieces(j, "refunded") /\ j \in Jobs
  BY <1>1 DEF Refund, JobOK
<1>3. UNCHANGED <<status, stock, released, exceeded>>
  BY DEF Refund
<1>4. TypeOK /\ StockCovers /\ MoneyOK
  BY DEF Covered, TypeInv
<1> HIDE DEF j
<1>5. MoneyType' /\ MoneyOK'
  BY <1>2, <1>4, RefundKeeps
<1>6. /\ fulfillments' \in [Slots -> Row] /\ lines' \in LineRows
      /\ allocation' \in [Lines -> Nat] /\ StockCovers'
  BY <1>1, <1>2, <1>3, <1>4, MoveKeeps DEF FulfillmentStatuses
<1>7. TypeOK'
  BY <1>1, <1>3, <1>5, <1>6, StatesType, TypeOKFrom DEF Covered
<1> QED
  BY <1>1, <1>5, <1>6, <1>7 DEF Covered, TypeInv

\* create_fulfillments_for_returned_products keeps it.
LEMMA ReturnCovered ==
  ASSUME Covered, NEW w \in Workers, Return(w)
  PROVE  Covered'
<1> DEFINE j == job[w]
           target == IF "replace" \in j.opts THEN "replaced"
                     ELSE IF \/ "refund" \in j.opts
                             \/ /\ j.at # "none"
                                /\ fulfillments[j.at].status = "refunded"
                     THEN "refunded_and_returned" ELSE "returned"
           known == IF "replace" \in j.opts THEN status ELSE j.seen.status
<1>1. JobOK(j) /\ j.op = "return"
  BY DEF Return, Commit, Covered, TypeInv, JobsOK, Idle
<1>2. /\ JobOK(Callback(known))
      /\ Commit(w, "return", Callback(known))
  <2>1. known \in Statuses
    BY <1>1, StatesType DEF Covered, JobOK, Jobs
  <2> HIDE DEF known
  <2>2. JobOK(Callback(known))
    BY <2>1, CallbackOK DEF Covered
  <2> QED
    BY <2>2 DEF Return, known
<1> HIDE DEF known
<1>3. JobsOK' /\ raced' \in BOOLEAN /\ calls' \in Nat
  BY <1>2, CommitType DEF Covered
<1>4. ProcessRefund(j) /\ MovePieces(j, target) /\ j \in Jobs
  BY <1>1 DEF Return, JobOK
<1>5. UNCHANGED <<status, stock, released, exceeded>>
  BY DEF Return
<1>6. TypeOK /\ StockCovers /\ MoneyOK
  BY DEF Covered, TypeInv
<1>7. target \in FulfillmentStatuses
  BY DEF FulfillmentStatuses
<1> HIDE DEF j, target
<1>8. MoneyType' /\ MoneyOK'
  BY <1>4, <1>6, RefundKeeps
<1>9. /\ fulfillments' \in [Slots -> Row] /\ lines' \in LineRows
      /\ allocation' \in [Lines -> Nat] /\ StockCovers'
  BY <1>1, <1>4, <1>5, <1>6, <1>7, MoveKeeps
<1>10. TypeOK'
  BY <1>3, <1>5, <1>8, <1>9, StatesType, TypeOKFrom DEF Covered
<1> QED
  BY <1>3, <1>8, <1>9, <1>10 DEF Covered, TypeInv

\* update_order_status keeps it.
LEMMA UpdateStatusCovered ==
  ASSUME Covered, NEW w \in Workers, UpdateStatus(w)
  PROVE  Covered'
<1> DEFINE old == job[w].seen.status
<1>1. /\ JobOK(job[w]) /\ JobsOK' /\ raced' \in BOOLEAN /\ calls' \in Nat
  BY CommitType DEF Covered, UpdateStatus
<1>2. old \in Statuses
  BY <1>1 DEF JobOK, Jobs
<1>3. Derived(old, lines, fulfillments) \in Statuses
  BY <1>2, DerivedType
<1>4. status' \in Statuses
  BY <1>3, StatesType DEF UpdateStatus, Covered
<1>5. MoneyType' /\ MoneyOK'
  BY MoneyKept DEF UpdateStatus, Covered, TypeInv
<1>6. TypeOK'
  BY <1>1, <1>4, <1>5, StatesType, TypeOKFrom DEF UpdateStatus, Covered
<1> QED
  BY <1>1, <1>5, <1>6 DEF Covered, TypeInv, UpdateStatus, StockCovers

\* cancel_order and expire_orders keep it.
LEMMA ReleaseCovered ==
  ASSUME Covered, NEW w \in Workers, NEW op \in {"cancel", "expire"},
         NEW st \in Statuses, Release(w, op, st)
  PROVE  Covered'
<1>1. JobsOK' /\ raced' \in BOOLEAN /\ calls' \in Nat
  BY CommitType DEF Covered, Release
<1>2. MoneyType' /\ MoneyOK'
  BY MoneyKept DEF Release, Covered, TypeInv
<1>3. TypeOK'
  BY <1>1, <1>2, StatesType, TypeOKFrom DEF Release, Covered
<1>4. StockCovers'
  BY StatesType, OrderAssumption DEF Release, Covered, StockCovers
<1> QED
  BY <1>1, <1>2, <1>3, <1>4 DEF Covered, TypeInv

\* change_order_line_quantity keeps it.
LEMMA UpdateLineCovered ==
  ASSUME Covered, NEW w \in Workers, UpdateLine(w)
  PROVE  Covered'
<1> DEFINE j == job[w]
           more == [l \in Lines |-> j.take[l] - j.seen.lines[l].quantity]
<1>1. /\ JobOK(j) /\ JobsOK' /\ raced' \in BOOLEAN /\ calls' \in Nat
  BY CommitType DEF Covered, UpdateLine
<1>2. j.take \in [Lines -> Nat] /\ j.seen.lines \in LineRows
  BY <1>1 DEF JobOK, Jobs
<1>3. more \in [Lines -> Int]
  BY <1>2 DEF LineRows
<1>4. /\ \A l \in Lines :
           more[l] > 0 => allocation[l] + more[l] <= stock[l] - Promised
      /\ allocation' = [l \in Lines |-> IF more[l] = 0 THEN allocation[l]
                                        ELSE Positive(allocation[l] + more[l])]
      /\ lines' = [l \in Lines |->
           IF more[l] = 0 THEN lines[l]
           ELSE [lines[l] EXCEPT !.quantity = j.take[l]]]
      /\ UNCHANGED <<status, fulfillments, stock, money, released, exceeded>>
  BY DEF UpdateLine
<1> HIDE DEF more, j
<1>5. lines' \in LineRows
  BY <1>2, <1>4, StatesType DEF LineRows, Covered
<1>6. allocation' \in [Lines -> Nat]
  BY <1>3, <1>4, StatesType DEF Positive, Covered
<1>7. StockCovers'
  <2>1. ASSUME NEW l \in Lines \ exceeded
        PROVE  Promised + allocation'[l] <= stock[l]
    <3>1. /\ more[l] \in Int /\ allocation[l] \in Nat /\ stock[l] \in Int
          /\ Promised \in Nat /\ Promised + allocation[l] <= stock[l]
      BY <1>3, StatesType, OrderAssumption DEF Covered, StockCovers
    <3>2. /\ more[l] > 0 => allocation[l] + more[l] <= stock[l] - Promised
          /\ allocation'[l] = IF more[l] = 0 THEN allocation[l]
                              ELSE Positive(allocation[l] + more[l])
      BY <1>4
    <3> QED
      BY <3>1, <3>2 DEF Positive
  <2> QED
    BY <2>1, <1>4 DEF StockCovers
<1>8. MoneyType' /\ MoneyOK'
  BY <1>4, MoneyKept DEF Covered, TypeInv
<1>9. TypeOK'
  BY <1>1, <1>4, <1>5, <1>6, <1>8, StatesType, TypeOKFrom DEF Covered
<1> QED
  BY <1>1, <1>7, <1>8, <1>9 DEF Covered, TypeInv

\* Confirming the order keeps it.
LEMMA ConfirmCovered ==
  ASSUME Covered, NEW w \in Workers, Confirm(w)
  PROVE  Covered'
<1>1. JobsOK' /\ raced' \in BOOLEAN /\ calls' \in Nat
  BY CommitType DEF Confirm, Covered
<1>2. status' \in Statuses
  BY DEF Confirm, Statuses
<1>3. MoneyType' /\ MoneyOK'
  BY MoneyKept DEF Confirm, Covered, TypeInv
<1>4. TypeOK'
  BY <1>1, <1>2, <1>3, StatesType, TypeOKFrom DEF Confirm, Covered
<1> QED
  BY <1>1, <1>3, <1>4 DEF Covered, TypeInv, Confirm, StockCovers

\* A request that is rolled back leaves everything as it was.
LEMMA FailCovered ==
  ASSUME Covered, NEW w \in Workers, Fail(w)
  PROVE  Covered'
<1>1. JobsOK'
  BY DEF Fail, Covered, TypeInv, JobsOK, JobOK
<1>2. UNCHANGED rows /\ UNCHANGED <<raced, released, exceeded, calls>>
  BY DEF Fail
<1>3. MoneyType' /\ MoneyOK'
  BY <1>2, MoneyKept DEF rows, Covered, TypeInv
<1>4. TypeOK'
  BY <1>2, <1>3, StatesType, TypeOKFrom DEF rows, Covered
<1> QED
  BY <1>1, <1>2, <1>3, <1>4 DEF rows, Covered, TypeInv, StockCovers

\* When the gateway had agreed before, nothing is known of the payment but the
\* types.
LEMMA RefundLostCovered ==
  ASSUME Covered, NEW w \in Workers, RefundLost(w)
  PROVE  Covered'
<1> DEFINE amount == AmountAsked(job[w])
<1>1. /\ UNCHANGED <<status, lines, fulfillments, stock, allocation, captured,
                     ongoing, postponed, raced, released, exceeded>>
      /\ refunded' = refunded + amount /\ unbooked' = TRUE
      /\ job' = [job EXCEPT ![w] = Idle] /\ calls' = calls + 1
      /\ job[w].op \in {"refund", "return"}
  BY DEF RefundLost
<1>2. JobOK(job[w])
  BY <1>1 DEF Idle, Covered, TypeInv, JobsOK
<1>3. amount \in Nat
  BY <1>2, AskedType DEF JobOK
<1> HIDE DEF amount
<1>4. JobsOK'
  BY <1>1 DEF Covered, TypeInv, JobsOK, JobOK
<1>5. MoneyType' /\ calls' \in Nat
  BY <1>1, <1>3, StatesType DEF MoneyType, Covered
<1>6. MoneyOK'
  BY <1>1 DEF MoneyOK, RefundedWithinCharge, Covered
<1>7. TypeOK'
  BY <1>1, <1>5, StatesType, TypeOKFrom DEF Covered
<1> QED
  BY <1>1, <1>4, <1>6, <1>7 DEF Covered, TypeInv, StockCovers

\* Every step of a worker.
LEMMA StepCovered ==
  ASSUME Covered, [Next]_vars
  PROVE  Covered'
<1>1. CASE UNCHANGED vars
  BY <1>1, MoneyKept
  DEF vars, rows, money, Covered, TypeInv, TypeOK, JobsOK, StockCovers
<1>2. CASE Pay
  <2>1. captured' = Charge /\ status' \in Statuses
        /\ UNCHANGED <<lines, fulfillments, stock, allocation, refunded, ongoing,
                       postponed, unbooked, job, raced, released, exceeded, calls>>
    BY <1>2, StatesType, DerivedType DEF Pay, Covered
  <2>2. refunded = 0 /\ ongoing = 0
    BY <1>2, StatesType DEF Pay, Covered, MoneyType
  <2>3. MoneyType' /\ MoneyOK'
    BY <2>1, <2>2, StatesType, OrderAssumption
    DEF MoneyType, MoneyOK, RefundedWithinCharge, Positive, Covered
  <2>4. TypeOK'
    BY <2>1, <2>3, StatesType, TypeOKFrom DEF Covered
  <2>5. JobsOK' /\ StockCovers'
    BY <2>1 DEF Covered, TypeInv, JobsOK, StockCovers
  <2> QED
    BY <2>3, <2>4, <2>5 DEF Covered, TypeInv
<1>3. CASE RefundSettled \/ RefundFailed
  <2>1. UNCHANGED <<status, lines, fulfillments, stock, allocation, job, raced,
                    released, exceeded, calls>>
    BY <1>3 DEF RefundSettled, RefundFailed
  <2>2. MoneyType' /\ MoneyOK'
    BY <1>3, NotifiedKeeps DEF Covered, TypeInv
  <2>3. TypeOK'
    BY <2>1, <2>2, StatesType, TypeOKFrom DEF Covered
  <2>4. JobsOK' /\ StockCovers'
    BY <2>1 DEF Covered, TypeInv, JobsOK, StockCovers
  <2> QED
    BY <2>2, <2>3, <2>4 DEF Covered, TypeInv
<1>4. ASSUME NEW w \in Workers, Start(w)
      PROVE  Covered'
  <2>1. TypeInv'
    BY <1>4, StartType DEF Covered
  <2>2. UNCHANGED rows /\ UNCHANGED exceeded
    BY <1>4 DEF Start, StartFulfill, StartApprove, StartCancelFulfillment,
       StartRefund, StartReturn, ForPieces, StartCancel, StartConfirm,
       StartUpdateLine, StartExpire, Request
  <2>3. MoneyOK'
    BY <2>2, MoneyKept DEF rows, Covered, TypeInv
  <2> QED
    BY <2>1, <2>2, <2>3 DEF rows, Covered, StockCovers
<1>5. ASSUME NEW w \in Workers, Write(w)
      PROVE  Covered'
  <2>1. CASE Cancel(w)
    BY <2>1, ReleaseCovered DEF Cancel, Statuses
  <2>2. CASE Expire(w)
    BY <2>2, ReleaseCovered DEF Expire, Statuses
  <2>3. CASE Confirm(w)
    BY <2>3, ConfirmCovered
  <2>4. CASE Fail(w)
    BY <2>4, FailCovered
  <2>5. CASE RefundLost(w)
    BY <2>5, RefundLostCovered
  <2> QED
    BY <1>5, <2>1, <2>2, <2>3, <2>4, <2>5, FulfillCovered, ApproveCovered,
       WithdrawCovered, RestockCovered, RefundCovered, ReturnCovered,
       UpdateStatusCovered, UpdateLineCovered DEF Write
<1> QED
  BY <1>1, <1>2, <1>3, <1>4, <1>5 DEF Next

\* It holds of a new order.
LEMMA InitCovered ==
  ASSUME Init
  PROVE  Covered
<1>1. TypeOK
  <2>1. status \in Statuses
    BY DEF Init, Statuses
  <2>2. lines \in [Lines -> [quantity : Nat, quantity_fulfilled : Int]]
    BY OrderAssumption DEF Init
  <2>3. fulfillments \in [Slots -> [status : FulfillmentStatuses \cup {"none"},
                                   pieces : [Pieces -> Nat]]]
    BY NoRowType DEF Init, Row, PieceRows
  <2>4. /\ stock \in [Lines -> Int] /\ allocation \in [Lines -> Nat]
        /\ captured \in Nat /\ refunded \in Nat /\ calls \in Nat
        /\ ongoing \in 0 .. refunded
    BY OrderAssumption DEF Init
  <2>5. /\ raced \in BOOLEAN /\ released \in BOOLEAN /\ exceeded \subseteq Lines
        /\ postponed \in BOOLEAN /\ unbooked \in BOOLEAN
    BY DEF Init
  <2> QED
    BY <2>1, <2>2, <2>3, <2>4, <2>5 DEF TypeOK
<1>2. JobsOK
  BY DEF Init, JobsOK
<1>3. StockCovers /\ MoneyOK
  BY OrderAssumption DEF Init, StockCovers, MoneyOK, RefundedWithinCharge, Positive
<1> QED
  BY <1>1, <1>2, <1>3 DEF Covered, TypeInv

\* The inductive invariant of what holds however requests overlap.
THEOREM CoveredAlways == Spec => []Covered
BY InitCovered, StepCovered, PTL DEF Spec

\* A line's stock always has what is allocated to the order and to others,
\* unless it was allowed to be exceeded (the check in decrease_stock).
THEOREM StockCoversAlways == Spec => []StockCovers
<1>1. Covered => StockCovers
  BY DEF Covered
<1> QED
  BY <1>1, CoveredAlways, PTL

\* What is captured of a paid order is the charge without what was paid back,
\* and until a refund is put off no more is paid back than was paid (the check
\* in gateway.refund, under the lock on the payment).
THEOREM RefundedWithinChargeAlways == Spec => []RefundedWithinCharge
<1>1. Covered => RefundedWithinCharge
  BY DEF Covered, MoneyOK
<1> QED
  BY <1>1, CoveredAlways, PTL

-----------------------------------------------------------------------------
(* Counting pieces.                                                        *)

\* What one row adds to PiecesIn.
Share(row, ss, l) == IF row.status \in ss THEN ByLine(row.pieces)[l] ELSE 0

\* What a fulfillment holds of a line is a natural number.
LEMMA ShareNat ==
  ASSUME NEW row \in Row, NEW ss, NEW l \in Lines
  PROVE  Share(row, ss, l) \in Nat
BY ByLineType DEF Share, Row

\* So is what fulfillments in some statuses hold together.
LEMMA PiecesInNat ==
  ASSUME NEW fs \in [Slots -> Row], NEW ss, NEW l \in Lines
  PROVE  PiecesIn(fs, ss, l) \in Nat
<1>1. [f \in Slots |-> Share(fs[f], ss, l)] \in [Slots -> Nat]
  BY ShareNat
<1> QED
  BY <1>1, OrderAssumption, TotalNat DEF PiecesIn, Share

\* A row that changes changes the count by what it adds.
LEMMA OneRow ==
  ASSUME NEW fs \in [Slots -> Row], NEW gs \in [Slots -> Row], NEW f \in Slots,
         \A g \in Slots \ {f} : gs[g] = fs[g],
         NEW ss, NEW l \in Lines
  PROVE  PiecesIn(gs, ss, l) =
           PiecesIn(fs, ss, l) + Share(gs[f], ss, l) - Share(fs[f], ss, l)
<1> DEFINE old == [g \in Slots |-> Share(fs[g], ss, l)]
           new == [g \in Slots |-> Share(gs[g], ss, l)]
<1>1. old \in [Slots -> Nat] /\ new \in [Slots -> Nat]
  BY ShareNat
<1>2. \A g \in Slots \ {f} : new[g] = old[g]
  OBVIOUS
<1>3. new[f] = Share(gs[f], ss, l) /\ old[f] = Share(fs[f], ss, l)
  OBVIOUS
<1>4. PiecesIn(fs, ss, l) = Total(old) /\ PiecesIn(gs, ss, l) = Total(new)
  BY DEF PiecesIn, Share
<1> HIDE DEF old, new
<1>5. Total(new) - Total(old) = new[f] - old[f]
  BY <1>1, <1>2, OrderAssumption, TotalOfOneChange
<1>6. Total(new) \in Nat /\ Total(old) \in Nat /\ new[f] \in Nat /\ old[f] \in Nat
  BY <1>1, OrderAssumption, TotalNat
<1> QED
  BY <1>3, <1>4, <1>5, <1>6

\* Rows that are swept held nothing.
LEMMA SweptSame ==
  ASSUME NEW fs \in [Slots -> Row], NEW ss, NEW l \in Lines
  PROVE  PiecesIn(Swept(fs), ss, l) = PiecesIn(fs, ss, l)
<1>1. ByLine(NoPull)[l] = 0
  BY DEF ByLine, NoPull, Pieces, Kinds
<1>2. ASSUME NEW f \in Slots
      PROVE  Share(Swept(fs)[f], ss, l) = Share(fs[f], ss, l)
  BY <1>1 DEF Swept, Share, NoRow
<1>3. [f \in Slots |-> Share(Swept(fs)[f], ss, l)] =
      [f \in Slots |-> Share(fs[f], ss, l)]
  BY <1>2
<1> QED
  BY <1>3 DEF PiecesIn, Share

\* The row MovePieces creates has the pieces that were asked for.
LEMMA MovedPieces ==
  ASSUME NEW j, JobOK(j), NEW target, NEW l \in Lines
  PROVE  ByLine(Moved(j, target).pieces)[l] = ByLine(j.pull)[l] + j.take[l]
<1>1. <<l, "stocked">> \in Pieces /\ <<l, "bare">> \in Pieces
  BY DEF Pieces, Kinds
<1>2. /\ j.pull[<<l, "stocked">>] \in Nat /\ j.pull[<<l, "bare">>] \in Nat
      /\ j.take[l] \in Nat
  BY <1>1 DEF JobOK, Jobs, PieceRows
<1>3. /\ Moved(j, target).pieces[<<l, "stocked">>] = j.pull[<<l, "stocked">>]
      /\ Moved(j, target).pieces[<<l, "bare">>] = j.pull[<<l, "bare">>] + j.take[l]
  BY <1>1, <1>2 DEF Moved
<1> QED
  BY <1>2, <1>3 DEF ByLine

\* A row that is as it was loaded is left with the rest of its pieces.
LEMMA LeftPieces ==
  ASSUME NEW j, JobOK(j), NEW l \in Lines
  PROVE  ByLine(LeftIn(j.seen.row.pieces, j))[l] =
           ByLine(j.seen.row.pieces)[l] - ByLine(j.pull)[l]
<1>1. <<l, "stocked">> \in Pieces /\ <<l, "bare">> \in Pieces
  BY DEF Pieces, Kinds
<1>2. ASSUME NEW p \in Pieces
      PROVE  /\ j.pull[p] \in Nat /\ j.seen.row.pieces[p] \in Nat
             /\ LeftIn(j.seen.row.pieces, j)[p] = j.seen.row.pieces[p] - j.pull[p]
  BY DEF JobOK, Jobs, Row, PieceRows, LeftIn
<1> QED
  BY <1>1, <1>2 DEF ByLine

\* What MovePieces does to the count of some statuses.
LEMMA MoveCounts ==
  ASSUME TypeOK, NEW w \in Workers, job[w] # Idle,
         NEW j, j = job[w], JobOK(j), j.op \in {"refund", "return"},
         j.at \in Slots => j.seen.row = fulfillments[j.at],
         NEW target \in FulfillmentStatuses, MovePieces(j, target),
         NEW ss \in SUBSET FulfillmentStatuses, NEW l \in Lines
  PROVE  PiecesIn(fulfillments', ss, l) =
           PiecesIn(fulfillments, ss, l)
             + (IF target \in ss THEN ByLine(j.pull)[l] + j.take[l] ELSE 0)
             - (IF j.seen.row.status \in ss THEN ByLine(j.pull)[l] ELSE 0)
<1> DEFINE fs(f) == [g \in Slots |->
               IF g = f THEN Moved(j, target)
               ELSE IF g = j.at
               THEN [fulfillments[g] EXCEPT !.pieces = LeftIn(@, j)]
               ELSE fulfillments[g]]
<1>1. PICK f \in Slots : NewSlot(f) /\ fulfillments' = Swept(fs(f))
  BY DEF MovePieces, Moved
<1>2. fulfillments[f].status = "none" /\ j.at # f
  BY <1>1 DEF NewSlot, Busy
<1>3. fulfillments \in [Slots -> Row] /\ Moved(j, target) \in Row
  BY MovedType DEF TypeOK, Row, PieceRows
<1>4. /\ ByLine(j.pull)[l] \in Nat /\ j.take[l] \in Nat
      /\ ByLine(j.seen.row.pieces)[l] \in Nat
  BY ByLineType DEF JobOK, Jobs, Row
<1> DEFINE one == [fulfillments EXCEPT ![f] = Moved(j, target)]
<1>5. one \in [Slots -> Row]
  BY <1>3
<1>6. PiecesIn(one, ss, l) = PiecesIn(fulfillments, ss, l)
         + (IF target \in ss THEN ByLine(j.pull)[l] + j.take[l] ELSE 0)
  <2>1. PiecesIn(one, ss, l) = PiecesIn(fulfillments, ss, l)
           + Share(Moved(j, target), ss, l) - Share(fulfillments[f], ss, l)
    <3>1. one[f] = Moved(j, target)
          /\ \A g \in Slots \ {f} : one[g] = fulfillments[g]
      BY <1>3
    <3> HIDE DEF one
    <3> QED
      BY <1>3, <1>5, <3>1, OneRow
  <2>2. Share(fulfillments[f], ss, l) = 0
    BY <1>2 DEF Share, FulfillmentStatuses
  <2>3. Share(Moved(j, target), ss, l) =
          IF target \in ss THEN ByLine(j.pull)[l] + j.take[l] ELSE 0
    <3>1. Moved(j, target).status = target
      BY DEF Moved
    <3> QED
      BY <3>1, MovedPieces DEF Share
  <2>4. PiecesIn(fulfillments, ss, l) \in Nat
    BY <1>3, PiecesInNat
  <2> QED
    BY <2>1, <2>2, <2>3, <2>4, <1>4
<1>7. CASE j.at \notin Slots
  <2>1. fs(f) = one
    <3>1. \A g \in Slots : fs(f)[g] = one[g]
      BY <1>3, <1>7
    <3> QED
      BY <3>1, <1>3
  <2>2. j.pull = NoPull
    BY <1>7 DEF JobOK
  <2>3. ByLine(j.pull)[l] = 0
    BY <2>2 DEF ByLine, NoPull, Pieces, Kinds
  <2>4. PiecesIn(fulfillments', ss, l) = PiecesIn(one, ss, l)
    BY <1>1, <1>5, <2>1, SweptSame
  <2>5. PiecesIn(one, ss, l) \in Nat
    BY <1>5, PiecesInNat
  <2> HIDE DEF one, fs
  <2> QED
    BY <1>4, <1>6, <2>3, <2>4, <2>5
<1>8. CASE j.at \in Slots
  <2> DEFINE left == [fulfillments[j.at] EXCEPT !.pieces = LeftIn(@, j)]
             two == [one EXCEPT ![j.at] = left]
  <2>1. left \in Row /\ fulfillments[j.at] \in Row
    BY <1>3, <1>8, LeftInType DEF Row
  <2>2. one[j.at] = fulfillments[j.at]
    BY <1>2, <1>8
  <2>3. fs(f) = two
    BY <1>2, <1>3, <1>8
  <2>4. two \in [Slots -> Row]
    BY <1>5, <2>1
  <2>5. PiecesIn(two, ss, l) = PiecesIn(one, ss, l)
           + Share(left, ss, l) - Share(fulfillments[j.at], ss, l)
    <3> HIDE DEF one, left
    <3>1. two[j.at] = left /\ \A g \in Slots \ {j.at} : two[g] = one[g]
      BY <1>5, <1>8
    <3> HIDE DEF two
    <3>2. PiecesIn(two, ss, l) = PiecesIn(one, ss, l)
            + Share(two[j.at], ss, l) - Share(one[j.at], ss, l)
      BY <1>5, <1>8, <2>4, <3>1, OneRow
    <3> QED
      BY <2>2, <3>1, <3>2
  <2>6. /\ Share(left, ss, l) = (IF j.seen.row.status \in ss
                 THEN ByLine(j.seen.row.pieces)[l] - ByLine(j.pull)[l] ELSE 0)
        /\ Share(fulfillments[j.at], ss, l) = (IF j.seen.row.status \in ss
                 THEN ByLine(j.seen.row.pieces)[l] ELSE 0)
    <3>1. j.seen.row = fulfillments[j.at]
      BY <1>8
    <3>2. left.status = j.seen.row.status
          /\ left.pieces = LeftIn(j.seen.row.pieces, j)
      BY <2>1, <3>1 DEF Row
    <3> QED
      BY <3>1, <3>2, LeftPieces DEF Share
  <2>7. PiecesIn(fulfillments', ss, l) = PiecesIn(two, ss, l)
    BY <1>1, <2>3, <2>4, SweptSame
  <2>8. PiecesIn(one, ss, l) \in Nat /\ PiecesIn(fulfillments, ss, l) \in Nat
    BY <1>3, <1>5, PiecesInNat
  <2> HIDE DEF one, two, left, fs
  <2> DEFINE was == ByLine(j.seen.row.pieces)[l]
             gone == ByLine(j.pull)[l]
             come == IF target \in ss THEN ByLine(j.pull)[l] + j.take[l] ELSE 0
  <2>9. was \in Nat /\ gone \in Nat /\ come \in Nat
    BY <1>4
  <2> HIDE DEF was, gone, come
  <2>10. CASE j.seen.row.status \in ss
    <3>1. PiecesIn(two, ss, l) = PiecesIn(one, ss, l) + (was - gone) - was
      BY <2>5, <2>6, <2>10 DEF was, gone
    <3> QED
      BY <3>1, <1>6, <2>7, <2>8, <2>9, <2>10 DEF gone, come
  <2>11. CASE j.seen.row.status \notin ss
    <3>1. PiecesIn(two, ss, l) = PiecesIn(one, ss, l)
      BY <2>5, <2>6, <2>8, <2>11
    <3> QED
      BY <3>1, <1>6, <2>7, <2>8, <2>9, <2>11 DEF gone, come
  <2> QED
    BY <2>10, <2>11
<1> QED
  BY <1>7, <1>8

-----------------------------------------------------------------------------
(* As long as nothing is written from old rows, every piece is accounted   *)
(* for.                                                                    *)

HeldIn == FulfillmentStatuses \ {"canceled"}
WaitingIn == {"waiting_for_approval"}
ShippedIn == FulfillmentStatuses \ {"canceled", "waiting_for_approval"}

BalancedLine(l) ==
  /\ lines[l].quantity_fulfilled = PiecesIn(fulfillments, HeldIn, l)
  /\ ~released => Unfulfilled(lines[l]) + PiecesIn(fulfillments, WaitingIn, l)
                    <= allocation[l]
  /\ InStock - stock[l] <= PiecesIn(fulfillments, ShippedIn, l)

Balanced == ~raced => \A l \in Lines : BalancedLine(l)

\* What a request has in hand is what the database has, until another one
\* commits.
Fresh(j) ==
  /\ j.seen.lines = lines
  /\ j.at \in Slots => j.seen.row = fulfillments[j.at]

JobsFresh ==
  \A w \in Workers :
    job[w] # Idle /\ job[w].op # "callback" /\ ~job[w].stale => Fresh(job[w])

Accounted == Covered /\ JobsFresh /\ Balanced

\* A transaction that keeps the balance either starts from fresh rows or
\* makes the history raced.
LEMMA CommitFresh ==
  ASSUME Accounted, NEW w \in Workers, NEW op, op # "idle", NEW next,
         next = Idle \/ next.op = "callback", Commit(w, op, next)
  PROVE  /\ JobsFresh'
         /\ ~raced' /\ op # "callback" => /\ \A l \in Lines : BalancedLine(l)
                                         /\ Fresh(job[w])
<1>1. job[w] # Idle /\ job[w].op = op /\ JobOK(job[w])
  BY DEF Commit, Idle, Accounted, Covered, TypeInv, JobsOK
<1>2. raced' = (raced \/ job[w].stale) /\ raced \in BOOLEAN /\ job[w].stale \in BOOLEAN
  BY <1>1 DEF Commit, Accounted, Covered, TypeInv, TypeOK, JobOK, Jobs
<1>3. ASSUME NEW u \in Workers, job'[u] # Idle, job'[u].op # "callback",
             ~job'[u].stale
      PROVE  FALSE
  <2>1. CASE u = w
    BY <1>3, <2>1 DEF Commit
  <2>2. CASE u # w /\ job[u] = Idle
    BY <1>3, <2>2 DEF Commit
  <2>3. CASE u # w /\ job[u] # Idle
    <3> DEFINE j == job[u]
    <3>1. j \in Jobs /\ job'[u] = [j EXCEPT !.stale = TRUE]
      BY <2>3 DEF Commit, Accounted, Covered, TypeInv, JobsOK, JobOK
    <3> HIDE DEF j
    <3>2. job'[u].stale = TRUE
      BY <3>1 DEF Jobs
    <3> QED
      BY <3>2, <1>3
  <2> QED
    BY <2>1, <2>2, <2>3
<1>4. JobsFresh'
  BY <1>3 DEF JobsFresh
<1>5. ~raced' => ~raced /\ ~job[w].stale
  BY <1>2
<1> QED
  BY <1>1, <1>4, <1>5 DEF Accounted, Balanced, JobsFresh

\* The numbers a balance is about.
LEMMA BalanceTypes ==
  ASSUME Covered, NEW l \in Lines
  PROVE  /\ PiecesIn(fulfillments, HeldIn, l) \in Nat
         /\ PiecesIn(fulfillments, WaitingIn, l) \in Nat
         /\ PiecesIn(fulfillments, ShippedIn, l) \in Nat
         /\ stock[l] \in Int /\ allocation[l] \in Nat
         /\ lines[l] \in [quantity : Nat, quantity_fulfilled : Int]
         /\ InStock \in Nat
BY StatesType, PiecesInNat, OrderAssumption DEF Covered, LineRows

\* order_fulfilled keeps the balance of a line, unless it wrote a stale quantity.
LEMMA FulfillBalanced ==
  ASSUME Accounted, NEW w \in Workers, Fulfill(w), ~raced', NEW l \in Lines
  PROVE  BalancedLine(l)'
<1> DEFINE j == job[w]
           approved == "approved" \in j.opts
           pieces == [p \in Pieces |-> IF p[2] = "stocked" THEN j.take[p[1]] ELSE 0]
           row == [status |-> IF approved THEN "fulfilled"
                              ELSE "waiting_for_approval",
                   pieces |-> pieces]
           next == IF approved THEN Callback(status) ELSE Idle
<1>1. Commit(w, "fulfill", next) /\ (next = Idle \/ next.op = "callback")
  BY DEF Fulfill, Callback
<1>2. BalancedLine(l) /\ Fresh(j)
  <2> HIDE DEF next
  <2> QED
    BY <1>1, CommitFresh
<1>3. JobOK(j)
  BY <1>1 DEF Commit, Idle, Accounted, Covered, TypeInv, JobsOK
<1>4. j.take \in [Lines -> Nat]
  BY <1>3 DEF JobOK, Jobs
<1>5. PICK f \in Slots : NewSlot(f) /\ fulfillments' = [fulfillments EXCEPT ![f] = row]
  BY DEF Fulfill
<1>6. lines' = IncreasedFrom(lines, j.take)
  BY <1>2 DEF Fulfill, Fresh
<1>7. IF approved THEN DecreaseStocks(j.take, j.opts)
      ELSE UNCHANGED <<stock, allocation, exceeded>>
  BY DEF Fulfill
<1>8. released' = released
  BY DEF Fulfill
<1>9. ByLine(pieces)[l] = j.take[l] /\ pieces \in PieceRows
  <2>1. <<l, "stocked">> \in Pieces /\ <<l, "bare">> \in Pieces
    BY DEF Pieces, Kinds
  <2>2. \A p \in Pieces : p[1] \in Lines
    BY DEF Pieces
  <2> QED
    BY <1>4, <2>1, <2>2 DEF ByLine, PieceRows
<1>10. fulfillments \in [Slots -> Row] /\ row \in Row
  BY <1>9, StatesType DEF Accounted, Covered, Row, FulfillmentStatuses
<1> HIDE DEF pieces
<1>11. fulfillments' \in [Slots -> Row] /\ fulfillments'[f] = row
       /\ \A g \in Slots \ {f} : fulfillments'[g] = fulfillments[g]
  BY <1>5, <1>10
<1>12. ASSUME NEW ss \in SUBSET FulfillmentStatuses
       PROVE  PiecesIn(fulfillments', ss, l) =
                PiecesIn(fulfillments, ss, l)
                  + IF row.status \in ss THEN j.take[l] ELSE 0
  <2>1. PiecesIn(fulfillments', ss, l) = PiecesIn(fulfillments, ss, l)
          + Share(row, ss, l) - Share(fulfillments[f], ss, l)
    <3> HIDE DEF row
    <3> QED
      BY <1>10, <1>11, OneRow
  <2>2. Share(fulfillments[f], ss, l) = 0
    BY <1>5 DEF NewSlot, Share, FulfillmentStatuses
  <2>3. Share(row, ss, l) = IF row.status \in ss THEN j.take[l] ELSE 0
    BY <1>9 DEF Share
  <2>4. PiecesIn(fulfillments, ss, l) \in Nat
    BY <1>10, PiecesInNat
  <2> HIDE DEF row
  <2> QED
    BY <1>4, <2>1, <2>2, <2>3, <2>4
<1>13. HeldIn \in SUBSET FulfillmentStatuses /\ WaitingIn \in SUBSET FulfillmentStatuses
       /\ ShippedIn \in SUBSET FulfillmentStatuses
  BY DEF HeldIn, WaitingIn, ShippedIn, FulfillmentStatuses
<1>14. /\ PiecesIn(fulfillments', HeldIn, l) =
            PiecesIn(fulfillments, HeldIn, l) + j.take[l]
       /\ PiecesIn(fulfillments', WaitingIn, l) =
            PiecesIn(fulfillments, WaitingIn, l) + IF approved THEN 0 ELSE j.take[l]
       /\ PiecesIn(fulfillments', ShippedIn, l) =
            PiecesIn(fulfillments, ShippedIn, l) + IF approved THEN j.take[l] ELSE 0
  <2>1. /\ row.status \in HeldIn
        /\ row.status \in WaitingIn <=> ~approved
        /\ row.status \in ShippedIn <=> approved
    BY DEF HeldIn, WaitingIn, ShippedIn, FulfillmentStatuses
  <2> HIDE DEF row, approved
  <2> QED
    BY <1>12, <1>13, <2>1
<1>15. /\ lines'[l].quantity = lines[l].quantity
       /\ lines'[l].quantity_fulfilled = lines[l].quantity_fulfilled + j.take[l]
  BY <1>4, <1>6, BalanceTypes DEF IncreasedFrom, Accounted
<1>16. /\ stock'[l] = stock[l] - IF approved THEN j.take[l] ELSE 0
       /\ allocation'[l] >= allocation[l] - IF approved THEN j.take[l] ELSE 0
  <2>1. Deallocated(j.take)[l] >= allocation[l] - j.take[l]
    BY <1>4, DeallocatedType DEF Accounted, Covered, TypeInv
  <2> QED
    BY <1>4, <1>7, <2>1, BalanceTypes DEF DecreaseStocks, Accounted
<1>17. allocation'[l] \in Nat /\ j.take[l] \in Nat
  BY <1>4, FulfillCovered, StatesType DEF Accounted, Covered, TypeInv, TypeOK
<1> HIDE DEF j, row, approved, next
<1> QED
  BY <1>2, <1>8, <1>14, <1>15, <1>16, <1>17, BalanceTypes
  DEF BalancedLine, Unfulfilled, Accounted

\* What rewriting the row of the request does to the three counts; pieces is
\* the number it had.
LEMMA RowRewritten ==
  ASSUME Covered, NEW f \in Slots, NEW row \in Row, NEW l \in Lines,
         fulfillments' = [fulfillments EXCEPT ![f] = row], NEW ss
  PROVE  PiecesIn(fulfillments', ss, l) =
           PiecesIn(fulfillments, ss, l) + Share(row, ss, l)
             - Share(fulfillments[f], ss, l)
<1>1. fulfillments \in [Slots -> Row]
  BY StatesType DEF Covered
<1>2. /\ fulfillments' \in [Slots -> Row] /\ fulfillments'[f] = row
      /\ \A g \in Slots \ {f} : fulfillments'[g] = fulfillments[g]
  BY <1>1
<1>3. PiecesIn(fulfillments', ss, l) =
        PiecesIn(fulfillments, ss, l) + Share(fulfillments'[f], ss, l)
          - Share(fulfillments[f], ss, l)
  BY ONLY <1>1, <1>2, f \in Slots, l \in Lines, OneRow
<1> QED
  BY <1>2, <1>3

\* approve_fulfillment keeps it.
LEMMA ApproveBalanced ==
  ASSUME Accounted, NEW w \in Workers, Approve(w), ~raced', NEW l \in Lines
  PROVE  BalancedLine(l)'
<1> DEFINE j == job[w]
           old == fulfillments[j.at]
           row == [old EXCEPT !.status = "fulfilled"]
           take == ByLine(old.pieces)
<1>1. BalancedLine(l) /\ Fresh(j) /\ JobOK(j) /\ j.op = "approve"
  BY CommitFresh, CommitType DEF Approve, Accounted, Covered
<1>2. j.at \in Slots /\ old.status = "waiting_for_approval"
  BY <1>1 DEF Fresh, JobOK
<1>3. old \in Row /\ take \in [Lines -> Nat]
  BY <1>2, StatesType, ByLineType DEF Accounted, Covered, Row
<1>4. row \in Row /\ row.status = "fulfilled" /\ row.pieces = old.pieces
  BY <1>3 DEF Row, FulfillmentStatuses
<1>5. fulfillments' = [fulfillments EXCEPT ![j.at] = row]
  BY DEF Approve
<1>6. /\ DecreaseStocks(take, j.opts) /\ lines' = lines /\ released' = released
  BY DEF Approve
<1>7. /\ Share(row, HeldIn, l) = take[l] /\ Share(old, HeldIn, l) = take[l]
      /\ Share(row, WaitingIn, l) = 0 /\ Share(old, WaitingIn, l) = take[l]
      /\ Share(row, ShippedIn, l) = take[l] /\ Share(old, ShippedIn, l) = 0
  BY <1>2, <1>4 DEF Share, HeldIn, WaitingIn, ShippedIn, FulfillmentStatuses
<1> HIDE DEF take, row, old, j
<1>8. /\ PiecesIn(fulfillments', HeldIn, l) = PiecesIn(fulfillments, HeldIn, l)
      /\ PiecesIn(fulfillments', WaitingIn, l) =
           PiecesIn(fulfillments, WaitingIn, l) - take[l]
      /\ PiecesIn(fulfillments', ShippedIn, l) =
           PiecesIn(fulfillments, ShippedIn, l) + take[l]
  <2>1. Covered /\ fulfillments[j.at] = old
    BY DEF Accounted, old
  <2>2. \A ss : PiecesIn(fulfillments', ss, l) =
          PiecesIn(fulfillments, ss, l) + Share(row, ss, l) - Share(old, ss, l)
    BY <2>1, <1>2, <1>4, <1>5, RowRewritten
  <2>3. /\ PiecesIn(fulfillments, HeldIn, l) \in Nat
        /\ PiecesIn(fulfillments, WaitingIn, l) \in Nat
        /\ PiecesIn(fulfillments, ShippedIn, l) \in Nat
    BY <2>1, BalanceTypes
  <2> QED
    BY <2>2, <2>3, <1>3, <1>7
<1>9. stock'[l] = stock[l] - take[l] /\ allocation'[l] >= allocation[l] - take[l]
  BY <1>3, <1>6, DeallocatedType DEF DecreaseStocks, Accounted, Covered, TypeInv
<1>10. allocation'[l] \in Nat /\ take[l] \in Nat
  BY <1>3, ApproveCovered DEF Accounted, Covered, TypeInv, TypeOK
<1> QED
  BY <1>1, <1>6, <1>8, <1>9, <1>10, BalanceTypes
  DEF BalancedLine, Unfulfilled, Accounted

\* cancel_waiting_fulfillment keeps it.
LEMMA WithdrawBalanced ==
  ASSUME Accounted, NEW w \in Workers, Withdraw(w), ~raced', NEW l \in Lines
  PROVE  BalancedLine(l)'
<1> DEFINE j == job[w]
           old == fulfillments[j.at]
           back == ByLine(old.pieces)
<1>1. BalancedLine(l) /\ Fresh(j) /\ JobOK(j) /\ j.op = "withdraw"
  BY CommitFresh, CommitType DEF Withdraw, Accounted, Covered
<1>2. j.at \in Slots /\ old.status = "waiting_for_approval"
  BY <1>1 DEF Fresh, JobOK
<1>3. old \in Row /\ back \in [Lines -> Nat]
  BY <1>2, StatesType, ByLineType DEF Accounted, Covered, Row
<1>4. fulfillments' = [fulfillments EXCEPT ![j.at] = NoRow] /\ NoRow.status = "none"
      /\ NoRow \in Row
  BY NoRowType DEF Withdraw, NoRow
<1>5. /\ lines' = Decreased(back) /\ released' = released
      /\ UNCHANGED <<stock, allocation>>
  BY DEF Withdraw
<1>6. /\ Share(NoRow, HeldIn, l) = 0 /\ Share(old, HeldIn, l) = back[l]
      /\ Share(NoRow, WaitingIn, l) = 0 /\ Share(old, WaitingIn, l) = back[l]
      /\ Share(NoRow, ShippedIn, l) = 0 /\ Share(old, ShippedIn, l) = 0
  BY <1>2, <1>4 DEF Share, HeldIn, WaitingIn, ShippedIn, FulfillmentStatuses
<1> HIDE DEF back, old, j
<1>7. /\ PiecesIn(fulfillments', HeldIn, l) =
           PiecesIn(fulfillments, HeldIn, l) - back[l]
      /\ PiecesIn(fulfillments', WaitingIn, l) =
           PiecesIn(fulfillments, WaitingIn, l) - back[l]
      /\ PiecesIn(fulfillments', ShippedIn, l) = PiecesIn(fulfillments, ShippedIn, l)
  <2>1. Covered /\ fulfillments[j.at] = old
    BY DEF Accounted, old
  <2>2. \A ss : PiecesIn(fulfillments', ss, l) =
          PiecesIn(fulfillments, ss, l) + Share(NoRow, ss, l) - Share(old, ss, l)
    BY <2>1, <1>2, <1>4, RowRewritten
  <2>3. /\ PiecesIn(fulfillments, HeldIn, l) \in Nat
        /\ PiecesIn(fulfillments, WaitingIn, l) \in Nat
        /\ PiecesIn(fulfillments, ShippedIn, l) \in Nat
    BY <2>1, BalanceTypes
  <2> QED
    BY <2>2, <2>3, <1>3, <1>6
<1>8. /\ lines'[l].quantity = lines[l].quantity
      /\ lines'[l].quantity_fulfilled = lines[l].quantity_fulfilled - back[l]
  BY <1>3, <1>5, BalanceTypes DEF Decreased, Accounted
<1>9. back[l] \in Nat
  BY <1>3
<1> QED
  BY <1>1, <1>5, <1>7, <1>8, <1>9, BalanceTypes
  DEF BalancedLine, Unfulfilled, Accounted

\* cancel_fulfillment keeps it.
LEMMA RestockBalanced ==
  ASSUME Accounted, NEW w \in Workers, Restock(w), ~raced', NEW l \in Lines
  PROVE  BalancedLine(l)'
<1> DEFINE j == job[w]
           old == fulfillments[j.at]
           row == [old EXCEPT !.status = "canceled"]
           back == ByLine(old.pieces)
<1>1. BalancedLine(l) /\ Fresh(j) /\ JobOK(j) /\ j.op = "restock"
  BY CommitFresh, CommitType DEF Restock, Accounted, Covered
<1>2. j.at \in Slots /\ old.status \in FulfillmentStatuses
                                      \ {"canceled", "waiting_for_approval"}
  BY <1>1 DEF Fresh, JobOK
<1>3. old \in Row /\ back \in [Lines -> Nat]
  BY <1>2, StatesType, ByLineType DEF Accounted, Covered, Row
<1>4. row \in Row /\ row.status = "canceled" /\ row.pieces = old.pieces
  BY <1>3 DEF Row, FulfillmentStatuses
<1>5. /\ fulfillments' = [fulfillments EXCEPT ![j.at] = row]
      /\ lines' = Decreased(back) /\ released' = released /\ IncreaseStocks(back)
  BY DEF Restock
<1>6. /\ Share(row, HeldIn, l) = 0 /\ Share(old, HeldIn, l) = back[l]
      /\ Share(row, WaitingIn, l) = 0 /\ Share(old, WaitingIn, l) = 0
      /\ Share(row, ShippedIn, l) = 0 /\ Share(old, ShippedIn, l) = back[l]
  BY <1>2, <1>4 DEF Share, HeldIn, WaitingIn, ShippedIn, FulfillmentStatuses
<1> HIDE DEF back, old, row, j
<1>7. /\ PiecesIn(fulfillments', HeldIn, l) =
           PiecesIn(fulfillments, HeldIn, l) - back[l]
      /\ PiecesIn(fulfillments', WaitingIn, l) = PiecesIn(fulfillments, WaitingIn, l)
      /\ PiecesIn(fulfillments', ShippedIn, l) =
           PiecesIn(fulfillments, ShippedIn, l) - back[l]
  <2>1. Covered /\ fulfillments[j.at] = old
    BY DEF Accounted, old
  <2>2. \A ss : PiecesIn(fulfillments', ss, l) =
          PiecesIn(fulfillments, ss, l) + Share(row, ss, l) - Share(old, ss, l)
    BY <2>1, <1>2, <1>4, <1>5, RowRewritten
  <2>3. /\ PiecesIn(fulfillments, HeldIn, l) \in Nat
        /\ PiecesIn(fulfillments, WaitingIn, l) \in Nat
        /\ PiecesIn(fulfillments, ShippedIn, l) \in Nat
    BY <2>1, BalanceTypes
  <2> QED
    BY <2>2, <2>3, <1>3, <1>6
<1>8. /\ lines'[l].quantity = lines[l].quantity
      /\ lines'[l].quantity_fulfilled = lines[l].quantity_fulfilled - back[l]
  BY <1>3, <1>5, BalanceTypes DEF Decreased, Accounted
<1>9. stock'[l] = stock[l] + back[l] /\ allocation'[l] = allocation[l] + back[l]
  BY <1>5 DEF IncreaseStocks
<1>10. back[l] \in Nat
  BY <1>3
<1> QED
  BY <1>1, <1>5, <1>7, <1>8, <1>9, <1>10, BalanceTypes
  DEF BalancedLine, Unfulfilled, Accounted

\* Refunding, returning and replacing: pieces that wait or are unfulfilled
\* may become held, never the other way.
LEMMA MoveBalanced ==
  ASSUME Accounted, NEW w \in Workers, job[w] # Idle, JobOK(job[w]),
         job[w].op \in {"refund", "return"}, Fresh(job[w]),
         NEW target \in FulfillmentStatuses \ {"canceled", "waiting_for_approval"},
         MovePieces(job[w], target), UNCHANGED <<stock, released>>,
         NEW l \in Lines, BalancedLine(l), allocation' \in [Lines -> Nat]
  PROVE  BalancedLine(l)'
<1> DEFINE j == job[w]
           take == j.take[l]
           pull == ByLine(j.pull)[l]
           old == j.seen.row.status
<1>1. /\ j.take \in [Lines -> Nat] /\ take \in Nat /\ pull \in Nat
  BY ByLineType DEF JobOK, Jobs
<1>2. \A ss \in SUBSET FulfillmentStatuses :
        PiecesIn(fulfillments', ss, l) =
          PiecesIn(fulfillments, ss, l)
            + (IF target \in ss THEN pull + take ELSE 0)
            - (IF old \in ss THEN pull ELSE 0)
  BY MoveCounts DEF Accounted, Covered, TypeInv, Fresh
<1>3. HeldIn \in SUBSET FulfillmentStatuses /\ WaitingIn \in SUBSET FulfillmentStatuses
      /\ ShippedIn \in SUBSET FulfillmentStatuses
  BY DEF HeldIn, WaitingIn, ShippedIn, FulfillmentStatuses
<1>4. target \in HeldIn /\ target \notin WaitingIn /\ target \in ShippedIn
  BY DEF HeldIn, WaitingIn, ShippedIn
<1>5. \/ pull = 0 \/ old \in HeldIn
  <2>1. CASE j.at \in Slots
    BY <2>1 DEF JobOK, HeldIn, MovableIn, FulfillmentStatuses
  <2>2. CASE j.at \notin Slots
    <3>1. j.pull = NoPull
      BY <2>2 DEF JobOK
    <3> QED
      BY <3>1 DEF ByLine, NoPull, Pieces, Kinds
  <2> QED
    BY <2>1, <2>2
<1>6. /\ lines'[l].quantity = lines[l].quantity
      /\ lines'[l].quantity_fulfilled = lines[l].quantity_fulfilled + take
  BY <1>1, BalanceTypes DEF MovePieces, IncreasedFrom, Fresh, Accounted
<1>7. allocation'[l] >= allocation[l] - take /\ allocation'[l] \in Nat
  BY <1>1, DeallocatedType DEF MovePieces, Accounted, Covered, TypeInv
<1> HIDE DEF take, pull, old, j
<1>8. /\ PiecesIn(fulfillments, HeldIn, l) \in Nat
      /\ PiecesIn(fulfillments, WaitingIn, l) \in Nat
      /\ PiecesIn(fulfillments, ShippedIn, l) \in Nat
  BY BalanceTypes DEF Accounted
<1>9. /\ PiecesIn(fulfillments', HeldIn, l) = PiecesIn(fulfillments, HeldIn, l) + take
      /\ PiecesIn(fulfillments', WaitingIn, l) \in Int
      /\ PiecesIn(fulfillments', WaitingIn, l) <= PiecesIn(fulfillments, WaitingIn, l)
      /\ PiecesIn(fulfillments', ShippedIn, l) \in Int
      /\ PiecesIn(fulfillments', ShippedIn, l) >= PiecesIn(fulfillments, ShippedIn, l)
  BY <1>1, <1>2, <1>3, <1>4, <1>5, <1>8
<1> QED
  BY <1>1, <1>6, <1>7, <1>9, BalanceTypes DEF BalancedLine, Unfulfilled, Accounted

\* create_refund_fulfillment keeps it.
LEMMA RefundBalanced ==
  ASSUME Accounted, NEW w \in Workers, Refund(w), ~raced', NEW l \in Lines
  PROVE  BalancedLine(l)'
<1>1. /\ BalancedLine(l) /\ Fresh(job[w]) /\ JobOK(job[w]) /\ job[w].op = "refund"
      /\ job[w] # Idle
  BY CommitFresh, CommitType DEF Refund, Accounted, Covered, Idle
<1>2. allocation' \in [Lines -> Nat]
  BY RefundCovered DEF Accounted, Covered, TypeInv, TypeOK
<1>3. /\ MovePieces(job[w], "refunded") /\ UNCHANGED <<stock, released>>
      /\ "refunded" \in FulfillmentStatuses \ {"canceled", "waiting_for_approval"}
  BY DEF Refund, FulfillmentStatuses
<1> QED
  BY <1>1, <1>2, <1>3, MoveBalanced

\* create_fulfillments_for_returned_products keeps it.
LEMMA ReturnBalanced ==
  ASSUME Accounted, NEW w \in Workers, Return(w), ~raced', NEW l \in Lines
  PROVE  BalancedLine(l)'
<1> DEFINE j == job[w]
           target == IF "replace" \in j.opts THEN "replaced"
                     ELSE IF \/ "refund" \in j.opts
                             \/ /\ j.at # "none"
                                /\ fulfillments[j.at].status = "refunded"
                     THEN "refunded_and_returned" ELSE "returned"
           known == IF "replace" \in j.opts THEN status ELSE j.seen.status
<1>1. JobOK(j) /\ j.op = "return" /\ j # Idle
  BY DEF Return, Commit, Accounted, Covered, TypeInv, JobsOK, Idle
<1>2. /\ Commit(w, "return", Callback(known))
      /\ Callback(known).op = "callback"
  BY DEF Return, Callback
<1> HIDE DEF known
<1>3. BalancedLine(l) /\ Fresh(j)
  BY <1>2, CommitFresh
<1>4. allocation' \in [Lines -> Nat]
  BY ReturnCovered DEF Accounted, Covered, TypeInv, TypeOK
<1>5. MovePieces(j, target) /\ UNCHANGED <<stock, released>>
  BY DEF Return
<1>6. target \in FulfillmentStatuses \ {"canceled", "waiting_for_approval"}
  BY DEF FulfillmentStatuses
<1> HIDE DEF target
<1> QED
  BY <1>1, <1>3, <1>4, <1>5, <1>6, MoveBalanced

\* change_order_line_quantity keeps it.
LEMMA UpdateLineBalanced ==
  ASSUME Accounted, NEW w \in Workers, UpdateLine(w), ~raced', NEW l \in Lines
  PROVE  BalancedLine(l)'
<1> DEFINE j == job[w]
           more == [k \in Lines |-> j.take[k] - j.seen.lines[k].quantity]
<1>1. BalancedLine(l) /\ Fresh(j) /\ JobOK(j)
  BY CommitFresh, CommitType DEF UpdateLine, Accounted, Covered
<1>2. j.take[l] \in Nat /\ lines[l] \in [quantity : Nat, quantity_fulfilled : Int]
  BY <1>1, BalanceTypes DEF JobOK, Jobs, Accounted
<1>3. more[l] = j.take[l] - lines[l].quantity
  BY <1>1 DEF Fresh
<1>4. /\ allocation'[l] = IF more[l] = 0 THEN allocation[l]
                          ELSE Positive(allocation[l] + more[l])
      /\ lines'[l] = IF more[l] = 0 THEN lines[l]
                     ELSE [lines[l] EXCEPT !.quantity = j.take[l]]
      /\ UNCHANGED <<fulfillments, stock, released>>
  BY DEF UpdateLine
<1> HIDE DEF more, j
<1>5. /\ lines'[l].quantity = lines[l].quantity + more[l]
      /\ lines'[l].quantity_fulfilled = lines[l].quantity_fulfilled
  BY <1>2, <1>3, <1>4
<1>6. allocation'[l] >= allocation[l] + more[l] /\ allocation'[l] \in Nat
      /\ more[l] \in Int
  BY <1>2, <1>3, <1>4, BalanceTypes DEF Positive, Accounted
<1> QED
  BY <1>1, <1>2, <1>4, <1>5, <1>6, BalanceTypes
  DEF BalancedLine, Unfulfilled, Accounted

\* Loading a request reads what is there.
LEMMA StartFresh ==
  ASSUME Accounted, NEW w \in Workers, Start(w)
  PROVE  JobsFresh' /\ UNCHANGED <<rows, raced, released>>
<1>1. ASSUME NEW op, NEW at, NEW take, NEW pull, NEW opts,
             Request(w, op, at, take, pull, opts)
      PROVE  JobsFresh' /\ UNCHANGED <<rows, raced, released>>
  <2>1. /\ job' = [job EXCEPT ![w] = Loaded(op, at, take, pull, opts)]
        /\ UNCHANGED <<lines, fulfillments>>
        /\ UNCHANGED <<rows, raced, released>>
    BY <1>1 DEF Request, rows
  <2> DEFINE j == Loaded(op, at, take, pull, opts)
  <2>2. j.seen.lines = lines /\ (j.at \in Slots => j.seen.row = fulfillments[j.at])
    BY DEF Loaded
  <2> HIDE DEF j
  <2>3. ASSUME NEW u \in Workers, job'[u] # Idle, job'[u].op # "callback",
               ~job'[u].stale
        PROVE  /\ job'[u].seen.lines = lines
               /\ job'[u].at \in Slots => job'[u].seen.row = fulfillments[job'[u].at]
    <3>1. CASE u = w
      <4>1. job'[u] = j
        BY <2>1, <3>1 DEF j, Accounted, Covered, TypeInv, JobsOK
      <4> QED
        BY <2>2, <4>1
    <3>2. CASE u # w
      <4>1. job'[u] = job[u]
        BY <2>1, <3>2 DEF Accounted, Covered, TypeInv, JobsOK
      <4> QED
        BY <2>3, <4>1 DEF Accounted, JobsFresh, Fresh
    <3> QED
      BY <3>1, <3>2
  <2> QED
    BY <2>1, <2>3 DEF JobsFresh, Fresh
<1> QED
  BY <1>1 DEF Start, StartFulfill, StartApprove, StartCancelFulfillment,
     StartRefund, StartReturn, ForPieces, StartCancel, StartConfirm,
     StartUpdateLine, StartExpire

\* Steps that leave the lines, rows and stocks alone keep the balance.
LEMMA BalanceKept ==
  ASSUME Accounted, UNCHANGED <<lines, fulfillments, stock>>,
         ~raced' => ~raced,
         UNCHANGED <<allocation, released>> \/ released' = TRUE
  PROVE  Balanced'
BY DEF Accounted, Balanced, BalancedLine

\* Every step keeps the accounts.
LEMMA StepAccounted ==
  ASSUME Accounted, [Next]_vars
  PROVE  Accounted'
<1>1. Covered'
  BY StepCovered DEF Accounted
<1>2. CASE UNCHANGED vars
  BY <1>1, <1>2 DEF vars, rows, Accounted, JobsFresh, Fresh, Balanced, BalancedLine
<1>3. CASE Pay \/ RefundSettled \/ RefundFailed
  <2>1. UNCHANGED <<lines, fulfillments, stock, allocation, job, raced, released>>
    BY <1>3 DEF Pay, RefundSettled, RefundFailed
  <2>2. JobsFresh'
    BY <2>1 DEF Accounted, JobsFresh, Fresh
  <2>3. Balanced'
    BY <2>1, BalanceKept
  <2> QED
    BY <1>1, <2>2, <2>3 DEF Accounted
<1>4. ASSUME NEW w \in Workers, Start(w)
      PROVE  Accounted'
  <2>1. JobsFresh' /\ UNCHANGED <<rows, raced, released>>
    BY <1>4, StartFresh
  <2>2. Balanced'
    BY <2>1, BalanceKept DEF rows
  <2> QED
    BY <1>1, <2>1, <2>2 DEF Accounted
<1>5. ASSUME NEW w \in Workers, Fail(w) \/ RefundLost(w)
      PROVE  Accounted'
  <2>1. /\ job' = [job EXCEPT ![w] = Idle]
        /\ UNCHANGED <<lines, fulfillments, stock, allocation, raced, released>>
    BY <1>5 DEF Fail, RefundLost, rows
  <2>2. JobsFresh'
    BY <2>1 DEF Accounted, JobsFresh, Fresh, Idle, Covered, TypeInv, JobsOK
  <2>3. Balanced'
    BY <2>1, BalanceKept
  <2> QED
    BY <1>1, <2>2, <2>3 DEF Accounted
<1>6. ASSUME NEW w \in Workers, NEW op \in Ops, NEW next,
             next = Idle \/ next.op = "callback", Commit(w, op, next)
      PROVE  JobsFresh' /\ (~raced' => ~raced)
  <2>1. op # "idle"
    BY DEF Ops
  <2> QED
    BY <1>6, <2>1, CommitFresh DEF Commit
<1>7. ASSUME NEW w \in Workers, Write(w), ~Fail(w), ~RefundLost(w)
      PROVE  Accounted'
  <2>1. CASE Fulfill(w)
    <3> DEFINE next == IF "approved" \in job[w].opts THEN Callback(status) ELSE Idle
    <3>1. Commit(w, "fulfill", next) /\ (next = Idle \/ next.op = "callback")
      BY <2>1 DEF Fulfill, Callback
    <3> HIDE DEF next
    <3>2. JobsFresh'
      BY <3>1, <1>6 DEF Ops
    <3> QED
      BY <1>1, <2>1, <3>2, FulfillBalanced DEF Accounted, Balanced
  <2>2. CASE Return(w)
    <3>1. JobsFresh'
      BY <2>2, <1>6 DEF Return, Callback, Ops
    <3> QED
      BY <1>1, <2>2, <3>1, ReturnBalanced DEF Accounted, Balanced
  <2>3. CASE Approve(w)
    BY <1>1, <1>6, <2>3, ApproveBalanced DEF Approve, Ops, Accounted, Balanced
  <2>4. CASE Withdraw(w)
    BY <1>1, <1>6, <2>4, WithdrawBalanced DEF Withdraw, Ops, Accounted, Balanced
  <2>5. CASE Restock(w)
    BY <1>1, <1>6, <2>5, RestockBalanced DEF Restock, Ops, Accounted, Balanced
  <2>6. CASE Refund(w)
    BY <1>1, <1>6, <2>6, RefundBalanced DEF Refund, Ops, Accounted, Balanced
  <2>7. CASE UpdateLine(w)
    BY <1>1, <1>6, <2>7, UpdateLineBalanced DEF UpdateLine, Ops, Accounted, Balanced
  <2>8. CASE UpdateStatus(w)
    BY <1>1, <1>6, <2>8, BalanceKept DEF UpdateStatus, Ops, Accounted
  <2>9. CASE Cancel(w)
    BY <1>1, <1>6, <2>9, BalanceKept DEF Cancel, Release, Ops, Accounted
  <2>10. CASE Expire(w)
    BY <1>1, <1>6, <2>10, BalanceKept DEF Expire, Release, Ops, Accounted
  <2>11. CASE Confirm(w)
    BY <1>1, <1>6, <2>11, BalanceKept DEF Confirm, Ops, Accounted
  <2> QED
    BY <1>7, <2>1, <2>2, <2>3, <2>4, <2>5, <2>6, <2>7, <2>8, <2>9, <2>10, <2>11
    DEF Write
<1> QED
  BY <1>2, <1>3, <1>4, <1>5, <1>7 DEF Next

\* They hold of a new order.
LEMMA InitAccounted ==
  ASSUME Init
  PROVE  Accounted
<1>1. JobsFresh
  BY DEF Init, JobsFresh
<1>2. ASSUME NEW ss \in SUBSET FulfillmentStatuses, NEW l \in Lines
      PROVE  PiecesIn(fulfillments, ss, l) = 0
  <2>1. \A f \in Slots : fulfillments[f].status \notin ss
    BY DEF Init, NoRow, FulfillmentStatuses
  <2>2. PiecesIn(fulfillments, ss, l) = Total([f \in Slots |-> 0])
    BY <2>1 DEF PiecesIn
  <2>3. Units([f \in Slots |-> 0]) = {}
    BY DEF Units
  <2> QED
    BY <2>2, <2>3, FS_EmptySet DEF Total
<1>3. HeldIn \in SUBSET FulfillmentStatuses /\ WaitingIn \in SUBSET FulfillmentStatuses
      /\ ShippedIn \in SUBSET FulfillmentStatuses
  BY DEF HeldIn, WaitingIn, ShippedIn, FulfillmentStatuses
<1>4. ASSUME NEW l \in Lines
      PROVE  BalancedLine(l)
  <2>1. /\ PiecesIn(fulfillments, HeldIn, l) = 0
        /\ PiecesIn(fulfillments, WaitingIn, l) = 0
        /\ PiecesIn(fulfillments, ShippedIn, l) = 0
    BY <1>2, <1>3
  <2> QED
    BY <2>1, OrderAssumption DEF Init, BalancedLine, Unfulfilled
<1> QED
  BY <1>1, <1>4, InitCovered DEF Accounted, Balanced

\* The inductive invariant of histories in which nothing is written from old
\* rows.
THEOREM AccountedAlways == Spec => []Accounted
BY InitAccounted, StepAccounted, PTL DEF Spec

\* quantity_fulfilled is the number of pieces in fulfillments that count.
THEOREM PiecesAddUpAlways == Spec => []PiecesAddUp
<1>1. Accounted => PiecesAddUp
  BY DEF Accounted, Balanced, BalancedLine, PiecesAddUp, HeldIn
<1> QED
  BY <1>1, AccountedAlways, PTL

\* An open order has the pieces it still waits for allocated.
THEOREM OpenPiecesAllocatedAlways == Spec => []OpenPiecesAllocated
<1>1. Accounted => OpenPiecesAllocated
  BY DEF Accounted, Balanced, BalancedLine, OpenPiecesAllocated, WaitingIn
<1> QED
  BY <1>1, AccountedAlways, PTL

\* No piece leaves the stock without a fulfillment that has it.
THEOREM NothingLostAlways == Spec => []NothingLost
<1>1. Accounted => NothingLost
  BY DEF Accounted, Balanced, BalancedLine, NothingLost, ShippedIn
<1> QED
  BY <1>1, AccountedAlways, PTL

\* Every column holds what its type allows, however requests overlap.
THEOREM OrderTypeOKAlways == Spec => []TypeOK
<1>1. Covered => TypeOK
  BY DEF Covered, TypeInv
<1> QED
  BY <1>1, CoveredAlways, PTL

-----------------------------------------------------------------------------
(* Paying back.                                                            *)

\* Fulfillments whose pieces cannot be refunded any more.
SettledIn == FulfillmentStatuses \ {"fulfilled", "returned", "waiting_for_approval"}

\* The kinds of pieces of finitely many lines are finitely many.
LEMMA PiecesFinite == IsFiniteSet(Pieces)
<1>1. IsFiniteSet(Kinds)
  <2>1. IsFiniteSet({"stocked"})
    BY FS_Singleton
  <2>2. IsFiniteSet({"stocked"} \cup {"bare"})
    BY <2>1, FS_AddElement
  <2>3. Kinds = {"stocked"} \cup {"bare"}
    BY DEF Kinds
  <2> QED
    BY <2>2, <2>3
<1> QED
  BY <1>1, OrderAssumption, FS_Product DEF Pieces

\* Pieces are as many by order line as they are by row.
LEMMA PiecesTotal ==
  ASSUME NEW pieces \in PieceRows
  PROVE  Total(pieces) = Total(ByLine(pieces))
<1> DEFINE byRow(T) == [p \in T \X Kinds |-> pieces[p]]
           byLine(T) == [l \in T |-> ByLine(pieces)[l]]
           P == {T \in SUBSET Lines : Total(byRow(T)) = Total(byLine(T))}
<1>1. ASSUME NEW T \in SUBSET Lines
      PROVE  IsFiniteSet(T) /\ IsFiniteSet(T \X Kinds)
  <2>1. T \X Kinds \subseteq Pieces
    BY DEF Pieces
  <2> QED
    BY <2>1, PiecesFinite, OrderAssumption, FS_Subset
<1>2. {} \in P
  <2>1. Units(byRow({})) = {} /\ Units(byLine({})) = {}
    BY DEF Units
  <2>2. Total(byRow({})) = Total(byLine({}))
    BY <2>1 DEF Total
  <2> QED
    BY <2>2
<1>3. ASSUME NEW T \in SUBSET Lines, NEW l \in T, T \ {l} \in P
      PROVE  T \in P
  <2> DEFINE s == <<l, "stocked">>
             b == <<l, "bare">>
             f == byRow(T)
             D == T \X Kinds
             g == [p \in D \ {s} |-> f[p]]
  <2>1. s \in D /\ b \in D \ {s} /\ f \in [D -> Nat] /\ IsFiniteSet(D)
    BY <1>1 DEF Kinds, PieceRows, Pieces
  <2>2. f[s] = pieces[s] /\ g[b] = pieces[b] /\ g \in [D \ {s} -> Nat]
    BY <2>1
  <2>3. [p \in (D \ {s}) \ {b} |-> g[p]] = byRow(T \ {l})
    <3>1. (D \ {s}) \ {b} = (T \ {l}) \X Kinds
      BY DEF Kinds
    <3> QED
      BY <3>1
  <2>4. /\ byLine(T) \in [T -> Nat] /\ byLine(T)[l] = pieces[s] + pieces[b]
        /\ [k \in T \ {l} |-> byLine(T)[k]] = byLine(T \ {l})
    BY ByLineType DEF ByLine
  <2>5. IsFiniteSet(D \ {s}) /\ IsFiniteSet(T)
    BY <1>1, <2>1, FS_RemoveElement
  <2>6. pieces[s] \in Nat /\ pieces[b] \in Nat
    BY <2>1, <2>2
  <2> DEFINE h == byRow(T \ {l})
             u == byLine(T)
             v == byLine(T \ {l})
  <2>7. Total(h) = Total(v)
    BY <1>3
  <2> HIDE DEF s, b, f, g, D, h, u, v
  <2>8. Total(f) = f[s] + Total(g)
    BY <2>1, TotalSplit DEF g
  <2>9. Total(g) = g[b] + Total(h) /\ Total(h) \in Nat
    <3>1. Total([p \in (D \ {s}) \ {b} |-> g[p]]) = Total(h)
      BY <2>3 DEF h
    <3> QED
      BY <2>1, <2>2, <2>5, <3>1, TotalSplit
  <2>10. Total(u) = pieces[s] + pieces[b] + Total(v)
    <3>1. Total([k \in T \ {l} |-> u[k]]) = Total(v)
      BY <2>4 DEF u, v
    <3>2. u \in [T -> Nat] /\ u[l] = pieces[s] + pieces[b]
      BY <2>4 DEF u
    <3>3. Total(v) \in Nat /\ Total(u) = u[l] + Total(v)
      BY <2>5, <3>1, <3>2, TotalSplit
    <3> QED
      BY <2>6, <3>2, <3>3
  <2>11. Total(f) = Total(u)
    BY <2>2, <2>6, <2>7, <2>8, <2>9, <2>10
  <2> QED
    BY <2>11 DEF f, u
<1>4. Lines \in P
  <2>1. \A T \in SUBSET Lines : T # {} /\ (\A l \in T : T \ {l} \in P) => T \in P
    BY <1>3
  <2>2. IsFiniteSet(Lines)
    BY OrderAssumption
  <2> HIDE DEF P
  <2>3. \A T \in SUBSET Lines : T \in P
    BY <1>2, <2>1, <2>2, SubsetInduction
  <2> QED
    BY <2>3
<1>5. byRow(Lines) = pieces /\ byLine(Lines) = ByLine(pieces)
  BY DEF Pieces, PieceRows, ByLine
<1> HIDE DEF byRow, byLine
<1> QED
  BY <1>4, <1>5

\* When a count grows in each line, the count over all lines grows as much.
LEMMA CountGrows ==
  ASSUME NEW fs \in [Slots -> Row], NEW gs \in [Slots -> Row], NEW ss,
         NEW more \in [Lines -> Nat],
         \A l \in Lines : PiecesIn(gs, ss, l) = PiecesIn(fs, ss, l) + more[l]
  PROVE  /\ Count(fs, ss) \in Nat /\ Total(more) \in Nat
         /\ Count(gs, ss) = Count(fs, ss) + Total(more)
<1> DEFINE f == [l \in Lines |-> PiecesIn(fs, ss, l)]
           g == [l \in Lines |-> PiecesIn(gs, ss, l)]
<1>1. f \in [Lines -> Nat] /\ Count(fs, ss) = Total(f) /\ Count(gs, ss) = Total(g)
  BY PiecesInNat DEF Count
<1>2. g = [l \in Lines |-> f[l] + more[l]]
  OBVIOUS
<1> HIDE DEF f, g
<1>3. Total(g) = Total(f) + Total(more)
  BY <1>1, <1>2, OrderAssumption, TotalPlus
<1> QED
  BY <1>1, <1>3, OrderAssumption, TotalNat

\* A count is a natural number.
LEMMA CountNat ==
  ASSUME NEW fs \in [Slots -> Row], NEW ss
  PROVE  Count(fs, ss) \in Nat
<1>1. [l \in Lines |-> PiecesIn(fs, ss, l)] \in [Lines -> Nat]
  BY PiecesInNat
<1> QED
  BY <1>1, OrderAssumption, TotalNat DEF Count

\* Rewriting one row so that no settled piece is lost keeps what is settled.
LEMMA RowSettles ==
  ASSUME Covered, NEW f \in Slots, NEW row \in Row,
         fulfillments' = [fulfillments EXCEPT ![f] = row],
         \A l \in Lines :
           Share(row, SettledIn, l) >= Share(fulfillments[f], SettledIn, l)
  PROVE  Count(fulfillments, SettledIn) <= Count(fulfillments', SettledIn)
<1> DEFINE more == [l \in Lines |-> Share(row, SettledIn, l)
                                     - Share(fulfillments[f], SettledIn, l)]
<1>1. fulfillments \in [Slots -> Row]
  BY StatesType DEF Covered
<1>2. fulfillments' \in [Slots -> Row] /\ fulfillments[f] \in Row
  BY <1>1
<1>3. \A l \in Lines : /\ Share(row, SettledIn, l) \in Nat
                       /\ Share(fulfillments[f], SettledIn, l) \in Nat
                       /\ PiecesIn(fulfillments, SettledIn, l) \in Nat
  BY <1>1, <1>2, ShareNat, PiecesInNat
<1>4. more \in [Lines -> Nat]
  BY <1>3
<1>5. ASSUME NEW l \in Lines
      PROVE  PiecesIn(fulfillments', SettledIn, l) =
               PiecesIn(fulfillments, SettledIn, l) + more[l]
  BY <1>3, RowRewritten
<1>6. /\ Count(fulfillments, SettledIn) \in Nat /\ Total(more) \in Nat
      /\ Count(fulfillments', SettledIn) =
           Count(fulfillments, SettledIn) + Total(more)
  <2> HIDE DEF more
  <2> QED
    BY ONLY <1>1, <1>2, <1>4, <1>5, CountGrows
<1> QED
  BY <1>6

\* Moving pieces settles at least as many as are paid back, and unsettles none:
\* a row that is settled is refunded, and pieces of it stay so.
LEMMA MoveSettles ==
  ASSUME Covered, NEW w \in Workers, job[w] # Idle,
         NEW j, j = job[w], JobOK(j), j.op \in {"refund", "return"}, Fresh(j),
         NEW target \in FulfillmentStatuses, MovePieces(j, target),
         fulfillments' \in [Slots -> Row], ProcessRefund(j),
         "refund" \in j.opts => target \in SettledIn,
         j.at \in Slots /\ fulfillments[j.at].status = "refunded" =>
           target \in SettledIn,
         refunded <= Count(fulfillments, SettledIn)
  PROVE  refunded' <= Count(fulfillments', SettledIn)
<1> DEFINE pull == ByLine(j.pull)
           again == j.seen.row.status \in SettledIn
           more == [l \in Lines |->
                      IF target \notin SettledIn THEN 0
                      ELSE IF again THEN j.take[l] ELSE j.take[l] + pull[l]]
<1>1. /\ j.take \in [Lines -> Nat] /\ j.pull \in PieceRows
      /\ pull \in [Lines -> Nat] /\ j.seen.captured \in Nat
  BY ByLineType DEF JobOK, Jobs
<1>2. fulfillments \in [Slots -> Row] /\ TypeOK /\ refunded \in Nat
  BY StatesType DEF Covered, TypeInv
<1>3. more \in [Lines -> Nat]
  BY <1>1
<1>4. j.at \in Slots \/ j.pull = NoPull
  BY DEF JobOK
<1>5. again /\ j.at \in Slots => target \in SettledIn
                              /\ j.seen.row.status = "refunded"
  BY DEF JobOK, MovableIn, SettledIn, Fresh
<1>6. j.at \notin Slots => \A l \in Lines : pull[l] = 0
  BY <1>4 DEF ByLine, NoPull, Pieces, Kinds
<1>7. ASSUME NEW l \in Lines
      PROVE  PiecesIn(fulfillments', SettledIn, l) =
               PiecesIn(fulfillments, SettledIn, l) + more[l]
  <2>1. SettledIn \in SUBSET FulfillmentStatuses
    BY DEF SettledIn
  <2>2. PiecesIn(fulfillments', SettledIn, l) =
          PiecesIn(fulfillments, SettledIn, l)
            + (IF target \in SettledIn THEN pull[l] + j.take[l] ELSE 0)
            - (IF again THEN pull[l] ELSE 0)
    BY <1>2, <2>1, MoveCounts DEF Fresh
  <2>3. PiecesIn(fulfillments, SettledIn, l) \in Nat /\ pull[l] \in Nat
        /\ j.take[l] \in Nat
    BY <1>1, <1>2, PiecesInNat
  <2> HIDE DEF pull, again
  <2>4. more[l] = IF target \notin SettledIn THEN 0
                  ELSE IF again THEN j.take[l] ELSE j.take[l] + pull[l]
    OBVIOUS
  <2> HIDE DEF more
  <2> QED
    BY <1>5, <1>6, <2>2, <2>3, <2>4
<1>8. /\ Count(fulfillments, SettledIn) \in Nat /\ Total(more) \in Nat
      /\ Count(fulfillments', SettledIn) =
           Count(fulfillments, SettledIn) + Total(more)
  <2> HIDE DEF more
  <2> QED
    BY <1>2, <1>3, <1>7, CountGrows
<1>9. CASE refunded' = refunded
  BY <1>2, <1>8, <1>9
<1>10. CASE refunded' # refunded
  <2>1. "refund" \in j.opts /\ refunded' =
          refunded + Lesser(j.seen.captured, RefundAmount(j))
    BY <1>10 DEF ProcessRefund, AmountAsked, Agree, money
  <2>2. target \in SettledIn
    BY <2>1
  <2>3. Total(j.take) \in Nat /\ Total(j.pull) \in Nat
        /\ Total(j.pull) = Total(pull)
    BY <1>1, PiecesFinite, PiecesTotal, OrderAssumption, TotalNat DEF PieceRows
  <2>4. RefundAmount(j) \in Nat /\ RefundAmount(j) <= Total(more)
    <3>1. CASE again
      <4>1. more = j.take
        BY <1>1, <2>2, <3>1
      <4>2. j.at \in Slots => RefundAmount(j) = Total(j.take)
        BY <1>5, <2>3, <3>1 DEF RefundAmount
      <4>3. j.at \notin Slots => Total(j.pull) = 0
        <5>1. Units(NoPull) = {}
          BY DEF Units, NoPull
        <5>2. Total(NoPull) = 0
          BY <5>1, FS_EmptySet DEF Total
        <5> QED
          BY <1>4, <5>2
      <4> QED
        BY <2>3, <4>1, <4>2, <4>3 DEF RefundAmount
    <3>2. CASE ~again
      <4>1. more = [l \in Lines |-> j.take[l] + pull[l]]
        BY <2>2, <3>2
      <4>2. Total(more) = Total(j.take) + Total(pull)
        <5> HIDE DEF more, pull
        <5> QED
          BY <1>1, <4>1, OrderAssumption, TotalPlus
      <4> QED
        BY <2>3, <4>2 DEF RefundAmount
    <3> QED
      BY <3>1, <3>2
  <2> HIDE DEF more
  <2>5. Lesser(j.seen.captured, RefundAmount(j)) \in Nat
        /\ Lesser(j.seen.captured, RefundAmount(j)) <= RefundAmount(j)
    BY <1>1, <2>4 DEF Lesser
  <2> QED
    BY <1>2, <1>8, <2>1, <2>4, <2>5
<1> QED
  BY <1>9, <1>10

\* A transaction that leaves the history without races started without any,
\* from what is there.
LEMMA QuietCommit ==
  ASSUME Accounted, NEW w \in Workers, NEW op \in Ops, NEW next,
         next = Idle \/ next.op = "callback", Commit(w, op, next), ~raced'
  PROVE  /\ ~raced /\ JobOK(job[w]) /\ job[w].op = op /\ job[w] # Idle
         /\ ~job[w].stale
         /\ op # "callback" => Fresh(job[w])
<1>1. job[w] # Idle /\ job[w].op = op /\ JobOK(job[w])
  BY DEF Commit, Idle, Ops, Accounted, Covered, TypeInv, JobsOK
<1>2. raced' = (raced \/ job[w].stale) /\ raced \in BOOLEAN /\ job[w].stale \in BOOLEAN
  BY <1>1 DEF Commit, Accounted, Covered, TypeInv, TypeOK, JobOK, Jobs
<1>3. ~raced /\ ~job[w].stale
  BY <1>2
<1>4. op # "callback" => Fresh(job[w])
  BY <1>1, <1>3 DEF Accounted, JobsFresh
<1> QED
  BY <1>1, <1>3, <1>4

\* create_fulfillments settles nothing and unsettles nothing.
LEMMA FulfillSettled ==
  ASSUME Accounted, RefundedOnce, NEW w \in Workers, Fulfill(w), ~raced', ~unbooked'
  PROVE  refunded' <= Count(fulfillments', SettledIn)
<1> DEFINE j == job[w]
           st == IF "approved" \in j.opts THEN "fulfilled" ELSE "waiting_for_approval"
           pieces == [p \in Pieces |-> IF p[2] = "stocked" THEN j.take[p[1]] ELSE 0]
           row == [status |-> st, pieces |-> pieces]
           next == IF "approved" \in j.opts THEN Callback(status) ELSE Idle
<1>1. Commit(w, "fulfill", next) /\ (next = Idle \/ next.op = "callback")
      /\ "fulfill" \in Ops
  BY DEF Fulfill, Callback, Ops
<1>2. ~raced /\ JobOK(j)
  <2> HIDE DEF next
  <2> QED
    BY <1>1, QuietCommit
<1>3. PICK f \in Slots : NewSlot(f) /\ fulfillments' = [fulfillments EXCEPT ![f] = row]
  BY DEF Fulfill
<1>4. st \in FulfillmentStatuses /\ st \notin SettledIn
  BY DEF FulfillmentStatuses, SettledIn
<1>5. pieces \in PieceRows
  BY <1>2 DEF PieceRows, Pieces, JobOK, Jobs
<1> HIDE DEF st, pieces, next
<1>6. row \in Row
  BY <1>4, <1>5 DEF Row
<1>7. \A l \in Lines : Share(row, SettledIn, l) = 0
                       /\ Share(fulfillments[f], SettledIn, l) = 0
  BY <1>3, <1>4 DEF Share, NewSlot, SettledIn, FulfillmentStatuses
<1>8. fulfillments' \in [Slots -> Row] /\ fulfillments \in [Slots -> Row]
  BY <1>3, <1>6, StatesType DEF Accounted, Covered
<1> HIDE DEF row
<1>9. Count(fulfillments, SettledIn) <= Count(fulfillments', SettledIn)
  <2>1. \A l \in Lines : Share(row, SettledIn, l) >=
                        Share(fulfillments[f], SettledIn, l)
    BY <1>7
  <2> QED
    BY <1>3, <1>6, <2>1, RowSettles DEF Accounted
<1>10. Count(fulfillments, SettledIn) \in Nat /\ Count(fulfillments', SettledIn) \in Nat
  BY <1>8, CountNat
<1>11. refunded' = refunded /\ refunded \in Nat /\ ~unbooked
  BY StatesType DEF Fulfill, Accounted, Covered, money
<1> QED
  BY <1>2, <1>9, <1>10, <1>11 DEF RefundedOnce, SettledIn

\* Approving, withdrawing and restocking unsettle nothing.
LEMMA RowsSettled ==
  ASSUME Accounted, RefundedOnce, NEW w \in Workers,
         Approve(w) \/ Withdraw(w) \/ Restock(w), ~raced', ~unbooked'
  PROVE  refunded' <= Count(fulfillments', SettledIn)
<1> DEFINE j == job[w]
           old == fulfillments[j.at]
<1>1. ~raced /\ JobOK(j) /\ Fresh(j) /\ j.op \in {"approve", "withdraw", "restock"}
      /\ (Approve(w) => j.op = "approve") /\ (Withdraw(w) => j.op = "withdraw")
      /\ (Restock(w) => j.op = "restock")
  BY QuietCommit DEF Approve, Withdraw, Restock, Ops
<1>2. j.at \in Slots /\ old = j.seen.row
  BY <1>1 DEF JobOK, Fresh
<1>3. old \in Row
  BY <1>2, StatesType DEF Accounted, Covered
<1>4. \E row \in Row : /\ fulfillments' = [fulfillments EXCEPT ![j.at] = row]
                       /\ \A l \in Lines : Share(row, SettledIn, l) >=
                                             Share(old, SettledIn, l)
  <2>1. CASE Approve(w)
    <3> DEFINE row == [old EXCEPT !.status = "fulfilled"]
    <3>1. fulfillments' = [fulfillments EXCEPT ![j.at] = row]
      BY <2>1 DEF Approve
    <3>2. row \in Row /\ row.status = "fulfilled"
      BY <1>3 DEF Row, FulfillmentStatuses
    <3>3. old.status = "waiting_for_approval"
      BY <1>1, <1>2, <2>1 DEF JobOK
    <3>4. \A l \in Lines : Share(row, SettledIn, l) = 0 /\ Share(old, SettledIn, l) = 0
      BY <3>2, <3>3 DEF Share, SettledIn
    <3> HIDE DEF row, old
    <3>5. \A l \in Lines : Share(row, SettledIn, l) >= Share(old, SettledIn, l)
      BY <3>4
    <3> QED
      BY <3>1, <3>2, <3>5
  <2>2. CASE Withdraw(w)
    <3>1. fulfillments' = [fulfillments EXCEPT ![j.at] = NoRow]
      BY <2>2 DEF Withdraw
    <3>2. NoRow \in Row /\ NoRow.status = "none"
      BY NoRowType DEF NoRow
    <3>3. old.status = "waiting_for_approval"
      BY <1>1, <1>2, <2>2 DEF JobOK
    <3>4. \A l \in Lines : Share(NoRow, SettledIn, l) = 0 /\ Share(old, SettledIn, l) = 0
      BY <3>2, <3>3 DEF Share, SettledIn, FulfillmentStatuses
    <3> HIDE DEF old
    <3>5. \A l \in Lines : Share(NoRow, SettledIn, l) >= Share(old, SettledIn, l)
      BY <3>4
    <3> QED
      BY <3>1, <3>2, <3>5
  <2>3. CASE Restock(w)
    <3> DEFINE row == [old EXCEPT !.status = "canceled"]
    <3>1. fulfillments' = [fulfillments EXCEPT ![j.at] = row]
      BY <2>3 DEF Restock
    <3>2. row \in Row /\ row.status = "canceled" /\ row.pieces = old.pieces
      BY <1>3 DEF Row, FulfillmentStatuses
    <3>3. \A l \in Lines : ByLine(old.pieces)[l] \in Nat
      BY <1>3, ByLineType DEF Row
    <3>4. \A l \in Lines : /\ Share(row, SettledIn, l) = ByLine(old.pieces)[l]
                           /\ Share(old, SettledIn, l) \in {0, ByLine(old.pieces)[l]}
      BY <3>2 DEF Share, SettledIn, FulfillmentStatuses
    <3> HIDE DEF row, old
    <3>5. \A l \in Lines : Share(row, SettledIn, l) >= Share(old, SettledIn, l)
      BY <3>3, <3>4
    <3> QED
      BY <3>1, <3>2, <3>5
  <2> QED
    BY <2>1, <2>2, <2>3
<1>5. Count(fulfillments, SettledIn) <= Count(fulfillments', SettledIn)
  BY <1>2, <1>4, RowSettles DEF Accounted
<1>6. fulfillments' \in [Slots -> Row] /\ fulfillments \in [Slots -> Row]
  BY <1>2, <1>4, StatesType DEF Accounted, Covered
<1>7. Count(fulfillments, SettledIn) \in Nat /\ Count(fulfillments', SettledIn) \in Nat
  BY <1>6, CountNat
<1>8. refunded' = refunded /\ refunded \in Nat /\ ~unbooked
  BY StatesType DEF Approve, Withdraw, Restock, Accounted, Covered, money
<1> QED
  BY <1>1, <1>5, <1>7, <1>8 DEF RefundedOnce, SettledIn

\* Refunds and returns settle what they pay back.
LEMMA MovesSettled ==
  ASSUME Accounted, RefundedOnce, NEW w \in Workers, Refund(w) \/ Return(w), ~raced', ~unbooked'
  PROVE  refunded' <= Count(fulfillments', SettledIn)
<1> DEFINE j == job[w]
           target == IF "replace" \in j.opts THEN "replaced"
                     ELSE IF \/ "refund" \in j.opts
                             \/ /\ j.at # "none"
                                /\ fulfillments[j.at].status = "refunded"
                     THEN "refunded_and_returned" ELSE "returned"
<1>1. /\ ~raced /\ JobOK(j) /\ Fresh(j) /\ j # Idle
      /\ j.op \in {"refund", "return"}
  BY QuietCommit DEF Refund, Return, Callback, Ops
<1>2. Covered' /\ Covered
  BY RefundCovered, ReturnCovered DEF Accounted
<1>3. fulfillments' \in [Slots -> Row]
  BY <1>2 DEF Covered, TypeInv, TypeOK, Row, PieceRows
<1>4. refunded <= Count(fulfillments, SettledIn)
  <2>1. ~unbooked
    BY DEF Refund, Return, ProcessRefund, money
  <2> QED
    BY <1>1, <2>1 DEF RefundedOnce, SettledIn
<1>5. CASE Refund(w)
  <2>1. /\ ProcessRefund(j) /\ MovePieces(j, "refunded")
        /\ "refunded" \in SettledIn /\ "refunded" \in FulfillmentStatuses
    BY <1>5 DEF Refund, SettledIn, FulfillmentStatuses
  <2> QED
    BY <1>1, <1>2, <1>3, <1>4, <2>1, MoveSettles
<1>6. CASE Return(w)
  <2>1. ProcessRefund(j) /\ MovePieces(j, target)
    BY <1>6 DEF Return
  <2>2. /\ target \in FulfillmentStatuses
        /\ "refund" \in j.opts => target \in SettledIn
        /\ j.at \in Slots /\ fulfillments[j.at].status = "refunded" =>
             target \in SettledIn
    BY OrderAssumption DEF SettledIn, FulfillmentStatuses
  <2> HIDE DEF target
  <2> QED
    BY <1>1, <1>2, <1>3, <1>4, <2>1, <2>2, MoveSettles
<1> QED
  BY <1>5, <1>6

\* Every step pays back at most what it settles.
LEMMA StepSettled ==
  ASSUME Accounted, RefundedOnce, [Next]_vars
  PROVE  RefundedOnce'
<1>1. ASSUME UNCHANGED <<fulfillments, refunded, unbooked>>, ~raced' => ~raced
      PROVE  RefundedOnce'
  BY <1>1 DEF RefundedOnce
<1>2. CASE UNCHANGED vars
  BY <1>1, <1>2 DEF vars, rows, money
<1>3. CASE Pay \/ RefundSettled
  BY <1>1, <1>3 DEF Pay, RefundSettled
<1>4. CASE RefundFailed
  <2>1. PICK amount \in 1 .. ongoing : refunded' = refunded - amount
    BY <1>4 DEF RefundFailed
  <2>2. UNCHANGED <<fulfillments, raced, unbooked>>
    BY <1>4 DEF RefundFailed
  <2>3. fulfillments \in [Slots -> Row] /\ refunded \in Nat /\ ongoing \in Nat
    BY StatesType DEF Accounted, Covered, MoneyType
  <2>4. Count(fulfillments, SettledIn) \in Nat
    BY <2>3, CountNat DEF SettledIn
  <2> QED
    BY <2>1, <2>2, <2>3, <2>4 DEF RefundedOnce, SettledIn
<1>5. ASSUME NEW w \in Workers, Start(w)
      PROVE  RefundedOnce'
  BY <1>1, <1>5, StartFresh DEF rows, money
<1>6. ASSUME NEW w \in Workers, Write(w)
      PROVE  RefundedOnce'
  <2>1. ASSUME refunded' <= Count(fulfillments', SettledIn)
        PROVE  RefundedOnce'
    BY <2>1 DEF RefundedOnce, SettledIn
  <2>2. CASE raced' \/ unbooked'
    BY <2>2 DEF RefundedOnce
  <2>3. CASE ~raced' /\ ~unbooked' /\ Fulfill(w)
    BY <2>1, <2>3, FulfillSettled
  <2>4. CASE ~raced' /\ ~unbooked' /\ (Approve(w) \/ Withdraw(w) \/ Restock(w))
    BY <2>1, <2>4, RowsSettled
  <2>5. CASE ~raced' /\ ~unbooked' /\ (Refund(w) \/ Return(w))
    BY <2>1, <2>5, MovesSettled
  <2>6. CASE Fail(w)
    BY <1>1, <2>6 DEF Fail, rows, money
  <2>7. CASE ~raced' /\ (UpdateStatus(w) \/ Cancel(w) \/ Expire(w) \/ Confirm(w)
                         \/ UpdateLine(w))
    <3>1. /\ UNCHANGED <<fulfillments, refunded, unbooked>>
          /\ raced' = (raced \/ job[w].stale)
      BY <2>7
      DEF UpdateStatus, Cancel, Expire, Release, Confirm, UpdateLine, Commit, money
    <3>2. ~raced' => ~raced
      BY <3>1
    <3> QED
      BY <1>1, <3>1, <3>2
  <2>8. CASE RefundLost(w)
    BY <2>2, <2>8 DEF RefundLost
  <2> QED
    BY <1>6, <2>2, <2>3, <2>4, <2>5, <2>6, <2>7, <2>8 DEF Write
<1> QED
  BY <1>2, <1>3, <1>4, <1>5, <1>6 DEF Next

\* No piece is paid back twice (_calculate_refund_amount skips the lines of
\* fulfillments that are refunded already).
THEOREM RefundedOnceAlways == Spec => []RefundedOnce
<1>1. Init => RefundedOnce
  <2>1. ASSUME Init
        PROVE  RefundedOnce
    <3>1. Count(fulfillments, SettledIn) \in Nat
      BY <2>1, InitAccounted, StatesType, CountNat DEF Accounted, Covered
    <3> QED
      BY <2>1, <3>1 DEF Init, RefundedOnce, SettledIn
  <2> QED
    BY <2>1
<1>2. Accounted /\ RefundedOnce /\ [Next]_vars => RefundedOnce'
  BY StepSettled
<1> QED
  BY <1>1, <1>2, AccountedAlways, PTL DEF Spec

-----------------------------------------------------------------------------
(* A fulfilled order is done.                                              *)

HasPieces(row) == \E l \in Lines : ByLine(row.pieces)[l] > 0

\* No line counts more pieces as fulfilled than it has; then all are, and no
\* fulfillment waits.
AllDone(ls, fs) ==
  (\A l \in Lines : Unfulfilled(ls[l]) >= 0) =>
    (\A l \in Lines : Unfulfilled(ls[l]) = 0) /\ ~AwaitsApproval(fs)

\* The totals that update_order_status compares.
LEMMA OrderedSum ==
  ASSUME NEW ls \in LineRows
  PROVE  /\ MapThenSumSet(LAMBDA l : ls[l].quantity, Lines) =
              SumOf([l \in Lines |-> ls[l].quantity], Lines)
         /\ MapThenSumSet(LAMBDA l : ls[l].quantity_fulfilled, Lines) =
              SumOf([l \in Lines |-> ls[l].quantity_fulfilled], Lines)
<1> DEFINE Any(T) == CHOOSE x \in T : TRUE
<1>1. IsFiniteSet(Lines)
  BY OrderAssumption
<1>2. MapThenSumSet(LAMBDA l : ls[l].quantity, Lines) =
        SumOf([l \in Lines |-> ls[l].quantity], Lines)
  <2> DEFINE q == [l \in Lines |-> ls[l].quantity]
             Fold(g) == g = [T \in SUBSET Lines |->
                               IF T = {} THEN 0
                               ELSE ls[Any(T)].quantity + g[T \ {Any(T)}]]
             h == CHOOSE g : Fold(g)
  <2>1. MapThenSumSet(LAMBDA l : ls[l].quantity, Lines) = h[Lines]
    BY DEF MapThenSumSet, MapThenFoldSet
  <2>2. ASSUME NEW g
        PROVE  Fold(g) <=> IsFold(g, q, Lines)
    <3>1. \A T \in SUBSET Lines : T # {} => q[Any(T)] = ls[Any(T)].quantity
      OBVIOUS
    <3> HIDE DEF q
    <3> QED
      BY <3>1 DEF IsFold
  <2>3. \A l \in Lines : q[l] \in Int
    BY DEF LineRows
  <2> HIDE DEF Fold, q
  <2>4. /\ \E g : IsFold(g, q, Lines)
        /\ \A g : IsFold(g, q, Lines) => g[Lines] = SumOf(q, Lines)
    BY <1>1, <2>3, FoldIsSum
  <2>5. Fold(h)
    BY <2>2, <2>4
  <2> QED
    BY <2>1, <2>2, <2>4, <2>5 DEF q
<1>3. MapThenSumSet(LAMBDA l : ls[l].quantity_fulfilled, Lines) =
        SumOf([l \in Lines |-> ls[l].quantity_fulfilled], Lines)
  <2> DEFINE q == [l \in Lines |-> ls[l].quantity_fulfilled]
             Fold(g) == g = [T \in SUBSET Lines |->
                               IF T = {} THEN 0
                               ELSE ls[Any(T)].quantity_fulfilled + g[T \ {Any(T)}]]
             h == CHOOSE g : Fold(g)
  <2>1. MapThenSumSet(LAMBDA l : ls[l].quantity_fulfilled, Lines) = h[Lines]
    BY DEF MapThenSumSet, MapThenFoldSet
  <2>2. ASSUME NEW g
        PROVE  Fold(g) <=> IsFold(g, q, Lines)
    <3>1. \A T \in SUBSET Lines : T # {} => q[Any(T)] = ls[Any(T)].quantity_fulfilled
      OBVIOUS
    <3> HIDE DEF q
    <3> QED
      BY <3>1 DEF IsFold
  <2>3. \A l \in Lines : q[l] \in Int
    BY DEF LineRows
  <2> HIDE DEF Fold, q
  <2>4. /\ \E g : IsFold(g, q, Lines)
        /\ \A g : IsFold(g, q, Lines) => g[Lines] = SumOf(q, Lines)
    BY <1>1, <2>3, FoldIsSum
  <2>5. Fold(h)
    BY <2>2, <2>4
  <2> QED
    BY <2>1, <2>2, <2>4, <2>5 DEF q
<1> QED
  BY <1>2, <1>3

\* Pieces that were replaced and pieces that wait are pieces held.
LEMMA HeldSplit ==
  ASSUME NEW fs \in [Slots -> Row], NEW l \in Lines
  PROVE  /\ PiecesIn(fs, {"replaced"}, l) + PiecesIn(fs, WaitingIn, l)
              <= PiecesIn(fs, HeldIn, l)
         /\ \A f \in Slots : fs[f].status = "waiting_for_approval" =>
              ByLine(fs[f].pieces)[l] <= PiecesIn(fs, WaitingIn, l)
<1> DEFINE in(ss) == [f \in Slots |-> Share(fs[f], ss, l)]
           both == [f \in Slots |-> in({"replaced"})[f] + in(WaitingIn)[f]]
<1>1. \A ss : in(ss) \in [Slots -> Nat] /\ PiecesIn(fs, ss, l) = Total(in(ss))
  BY ShareNat DEF PiecesIn, Share
<1>2. IsFiniteSet(Slots)
  BY OrderAssumption
<1>3. both \in [Slots -> Nat] /\ \A f \in Slots : both[f] <= in(HeldIn)[f]
  <2>1. ASSUME NEW f \in Slots
        PROVE  both[f] \in Nat /\ both[f] <= in(HeldIn)[f]
    <3>1. ByLine(fs[f].pieces)[l] \in Nat
      BY ByLineType DEF Row
    <3> QED
      BY <3>1 DEF Share, WaitingIn, HeldIn, FulfillmentStatuses
  <2> HIDE DEF in
  <2> QED
    BY <1>1, <2>1
<1>4. Total(both) = Total(in({"replaced"})) + Total(in(WaitingIn))
  <2> HIDE DEF in
  <2> QED
    BY <1>1, <1>2, TotalPlus
<1>5. Total(both) <= Total(in(HeldIn))
  <2> HIDE DEF in, both
  <2> QED
    BY <1>1, <1>2, <1>3, TotalMonotone
<1>6. ASSUME NEW f \in Slots, fs[f].status = "waiting_for_approval"
      PROVE  ByLine(fs[f].pieces)[l] <= PiecesIn(fs, WaitingIn, l)
  <2>1. in(WaitingIn)[f] = ByLine(fs[f].pieces)[l]
    BY <1>6 DEF Share, WaitingIn
  <2> DEFINE t == in(WaitingIn)
  <2>2. t \in [Slots -> Nat] /\ t[f] \in Nat /\ Total(t) = PiecesIn(fs, WaitingIn, l)
    BY <1>1
  <2> HIDE DEF t, in
  <2>3. /\ Total([g \in Slots \ {f} |-> t[g]]) \in Nat
        /\ Total(t) = t[f] + Total([g \in Slots \ {f} |-> t[g]])
    BY <1>2, <2>2, TotalSplit
  <2> QED
    BY <2>1, <2>2, <2>3 DEF t
<1> QED
  BY <1>1, <1>4, <1>5, <1>6

\* An order that update_order_status calls fulfilled is done.
LEMMA DerivedDone ==
  ASSUME NEW ls \in LineRows, NEW fs \in [Slots -> Row], NEW old,
         Derived(old, ls, fs) = "fulfilled",
         \A l \in Lines : ls[l].quantity_fulfilled = PiecesIn(fs, HeldIn, l),
         \A f \in Slots : fs[f].status = "waiting_for_approval" => HasPieces(fs[f])
  PROVE  AllDone(ls, fs)
<1> DEFINE q == [l \in Lines |-> ls[l].quantity]
           done == [l \in Lines |-> ls[l].quantity_fulfilled]
           rep == [l \in Lines |-> PiecesIn(fs, {"replaced"}, l)]
<1>1. SUFFICES ASSUME \A l \in Lines : Unfulfilled(ls[l]) >= 0
               PROVE  (\A l \in Lines : Unfulfilled(ls[l]) = 0) /\ ~AwaitsApproval(fs)
  BY DEF AllDone
<1>2. \A l \in Lines : /\ q[l] \in Int /\ done[l] \in Int /\ done[l] <= q[l]
                       /\ Unfulfilled(ls[l]) = q[l] - done[l]
  BY <1>1 DEF LineRows, Unfulfilled
<1>3. ASSUME NEW l \in Lines
      PROVE  /\ rep[l] \in Nat /\ PiecesIn(fs, WaitingIn, l) \in Nat
             /\ rep[l] + PiecesIn(fs, WaitingIn, l) <= done[l]
  BY PiecesInNat, HeldSplit
<1>4. rep \in [Lines -> Nat] /\ IsFiniteSet(Lines)
  BY <1>3, OrderAssumption
<1>5. Count(fs, {"replaced"}) = SumOf(rep, Lines)
  <2>1. Count(fs, {"replaced"}) = Total(rep)
    BY DEF Count
  <2> HIDE DEF rep
  <2> QED
    BY <1>4, <2>1, TotalIsSum
<1>6. /\ MapThenSumSet(LAMBDA l : ls[l].quantity, Lines) = SumOf(q, Lines)
      /\ MapThenSumSet(LAMBDA l : ls[l].quantity_fulfilled, Lines) = SumOf(done, Lines)
  BY OrderedSum
<1> DEFINE R == SumOf(rep, Lines)
           Q == SumOf(q, Lines)
           D == SumOf(done, Lines)
<1>7. \/ Q - R = 0
      \/ ~(D - R < Q - R) /\ ~AwaitsApproval(fs)
  <2> DEFINE returned == Count(fs, {"returned", "refunded_and_returned"})
             total == Q - R
             gone == D - R
  <2>1. Derived(old, ls, fs) =
          CASE total = 0 -> old
            [] total # 0 /\ gone <= 0 -> "unfulfilled"
            [] total # 0 /\ gone > 0 /\ 0 < returned /\ returned < total ->
                 "partially_returned"
            [] total # 0 /\ gone > 0 /\ returned = total -> "returned"
            [] OTHER -> IF gone < total \/ AwaitsApproval(fs)
                        THEN "partially fulfilled" ELSE "fulfilled"
    BY <1>5, <1>6 DEF Derived
  <2> HIDE DEF total, gone, returned
  <2>2. total = 0 \/ (~(gone < total) /\ ~AwaitsApproval(fs))
    BY <2>1
  <2> QED
    BY <2>2 DEF total, gone
<1>8. R \in Int /\ Q \in Int /\ D \in Int
  <2> HIDE DEF rep, q, done
  <2> QED
    BY <1>2, <1>4, SumSplit
<1>9. CASE ~(D - R < Q - R) /\ ~AwaitsApproval(fs)
  <2>1. Q <= D
    BY <1>8, <1>9
  <2>2. \A l \in Lines : done[l] = q[l]
    <3> HIDE DEF q, done
    <3> QED
      BY <1>2, <1>4, <2>1, SumsOrdered
  <2> QED
    BY <1>2, <1>9, <2>2
<1>10. CASE Q - R = 0
  <2>1. Q <= R
    BY <1>8, <1>10
  <2>2. \A l \in Lines : rep[l] <= q[l] /\ rep[l] \in Int
    BY <1>2, <1>3
  <2>3. \A l \in Lines : rep[l] = q[l]
    <3> HIDE DEF q, rep
    <3> QED
      BY <1>2, <1>4, <2>1, <2>2, SumsOrdered
  <2>4. \A l \in Lines : done[l] = q[l] /\ PiecesIn(fs, WaitingIn, l) = 0
    BY <1>2, <1>3, <2>3
  <2>5. ~AwaitsApproval(fs)
    <3>1. ASSUME NEW f \in Slots, fs[f].status = "waiting_for_approval"
          PROVE  FALSE
      <4>1. PICK l \in Lines : ByLine(fs[f].pieces)[l] > 0
        BY <3>1 DEF HasPieces
      <4>2. ByLine(fs[f].pieces)[l] <= PiecesIn(fs, WaitingIn, l)
        BY <3>1, HeldSplit
      <4>3. ByLine(fs[f].pieces)[l] \in Nat
        BY ByLineType DEF Row
      <4> QED
        BY <2>4, <4>1, <4>2, <4>3
    <3> QED
      BY <3>1 DEF AwaitsApproval
  <2> QED
    BY <1>2, <2>4, <2>5
<1> QED
  BY <1>7, <1>9, <1>10

\* The order is edited only while it is unconfirmed, which it never is when the
\* channel confirms orders by itself; a fulfillment that waits has pieces.
Unconfirmed ==
  /\ AutoConfirm => status # "unconfirmed"
  /\ \A w \in Workers :
       job[w] # Idle /\ job[w].op = "update" /\ ~job[w].stale =>
         status = "unconfirmed"

WaitingHeld ==
  \A f \in Slots :
    fulfillments[f].status = "waiting_for_approval" => HasPieces(fulfillments[f])

Finished == Accounted /\ Unconfirmed /\ WaitingHeld /\ FulfilledIsDone

\* update_order_status never makes an order unconfirmed.
LEMMA DerivedConfirmed ==
  ASSUME NEW old, NEW ls, NEW fs
  PROVE  Derived(old, ls, fs) = old \/ Derived(old, ls, fs) # "unconfirmed"
<1> DEFINE replaced == Count(fs, {"replaced"})
           returned == Count(fs, {"returned", "refunded_and_returned"})
           total == MapThenSumSet(LAMBDA l : ls[l].quantity, Lines) - replaced
           done == MapThenSumSet(LAMBDA l : ls[l].quantity_fulfilled, Lines)
                     - replaced
<1>1. Derived(old, ls, fs) =
        CASE total = 0 -> old
          [] total # 0 /\ done <= 0 -> "unfulfilled"
          [] total # 0 /\ done > 0 /\ 0 < returned /\ returned < total ->
               "partially_returned"
          [] total # 0 /\ done > 0 /\ returned = total -> "returned"
          [] OTHER -> IF done < total \/ AwaitsApproval(fs)
                      THEN "partially fulfilled" ELSE "fulfilled"
  BY DEF Derived
<1> HIDE DEF replaced, returned, total, done
<1> QED
  BY <1>1

\* What a transaction leaves of the other requests is old.
LEMMA CommitStale ==
  ASSUME Accounted, NEW w \in Workers, NEW op, op # "idle", NEW next,
         next = Idle \/ next.op = "callback", Commit(w, op, next)
  PROVE  \A u \in Workers : job'[u] # Idle /\ job'[u].op = "update" => job'[u].stale
<1>1. ASSUME NEW u \in Workers, job'[u] # Idle, job'[u].op = "update", ~job'[u].stale
      PROVE  FALSE
  <2>1. CASE u = w
    BY <1>1, <2>1 DEF Commit
  <2>2. CASE u # w /\ job[u] = Idle
    BY <1>1, <2>2 DEF Commit
  <2>3. CASE u # w /\ job[u] # Idle
    <3> DEFINE j == job[u]
    <3>1. j \in Jobs /\ job'[u] = [j EXCEPT !.stale = TRUE]
      BY <2>3 DEF Commit, Accounted, Covered, TypeInv, JobsOK, JobOK
    <3> HIDE DEF j
    <3>2. job'[u].stale = TRUE
      BY <3>1 DEF Jobs
    <3> QED
      BY <3>2, <1>1
  <2> QED
    BY <2>1, <2>2, <2>3
<1> QED
  BY <1>1

\* Every step keeps the first of them.
LEMMA StepUnconfirmed ==
  ASSUME Accounted, Unconfirmed, [Next]_vars
  PROVE  Unconfirmed'
<1>1. CASE UNCHANGED vars
  BY <1>1 DEF vars, rows, Unconfirmed
<1>2. CASE Pay
  <2>1. UNCHANGED job /\ status' = IF AutoConfirm
          THEN Derived(status, lines, fulfillments) ELSE status
    BY <1>2 DEF Pay
  <2>2. CASE AutoConfirm
    <3>1. status' # "unconfirmed"
      BY <2>1, <2>2, DerivedConfirmed DEF Unconfirmed
    <3>2. \A w \in Workers : ~(job[w] # Idle /\ job[w].op = "update" /\ ~job[w].stale)
      BY <2>2 DEF Unconfirmed
    <3> QED
      BY <2>1, <3>1, <3>2 DEF Unconfirmed
  <2>3. CASE ~AutoConfirm
    BY <2>1, <2>3 DEF Unconfirmed
  <2> QED
    BY <2>2, <2>3
<1>3. CASE RefundSettled \/ RefundFailed
  BY <1>3 DEF RefundSettled, RefundFailed, Unconfirmed
<1>4. ASSUME NEW w \in Workers, Start(w)
      PROVE  Unconfirmed'
  <2>1. ASSUME NEW op, NEW at, NEW take, NEW pull, NEW opts,
               op = "update" => status = "unconfirmed",
               Request(w, op, at, take, pull, opts)
        PROVE  Unconfirmed'
    <3> DEFINE j == Loaded(op, at, take, pull, opts)
    <3>1. job' = [job EXCEPT ![w] = j] /\ UNCHANGED status
      BY <2>1 DEF Request, rows
    <3>2. j.op = op
      BY DEF Loaded
    <3> HIDE DEF j
    <3>3. ASSUME NEW u \in Workers, job'[u] # Idle, job'[u].op = "update",
                 ~job'[u].stale
          PROVE  status = "unconfirmed"
      <4>1. job'[u] = IF u = w THEN j ELSE job[u]
        BY <3>1 DEF Accounted, Covered, TypeInv, JobsOK
      <4> QED
        BY <2>1, <3>2, <3>3, <4>1 DEF Unconfirmed
    <3> QED
      BY <3>1, <3>3 DEF Unconfirmed
  <2> QED
    BY <1>4, <2>1 DEF Start, StartFulfill, StartApprove, StartCancelFulfillment,
       StartRefund, StartReturn, ForPieces, StartCancel, StartConfirm,
       StartUpdateLine, StartExpire
<1>5. ASSUME NEW w \in Workers, Write(w)
      PROVE  Unconfirmed'
  <2>1. CASE Fail(w) \/ RefundLost(w)
    <3>1. UNCHANGED status /\ \A u \in Workers : job'[u] = Idle \/ job'[u] = job[u]
      BY <2>1 DEF Fail, RefundLost, rows, Accounted, Covered, TypeInv, JobsOK
    <3> QED
      BY <3>1 DEF Unconfirmed
  <2>2. ASSUME NEW op \in Ops, NEW next, next = Idle \/ next.op = "callback",
               Commit(w, op, next), AutoConfirm => status' # "unconfirmed"
        PROVE  Unconfirmed'
    <3>1. op # "idle"
      BY DEF Ops
    <3>2. \A u \in Workers : job'[u] # Idle /\ job'[u].op = "update" => job'[u].stale
      BY <2>2, <3>1, CommitStale
    <3> QED
      BY <2>2, <3>2 DEF Unconfirmed
  <2>3. CASE Fulfill(w)
    <3> DEFINE next == IF "approved" \in job[w].opts THEN Callback(status) ELSE Idle
    <3>1. Commit(w, "fulfill", next) /\ (next = Idle \/ next.op = "callback")
          /\ "fulfill" \in Ops /\ UNCHANGED status
      BY <2>3 DEF Fulfill, Callback, Ops
    <3> HIDE DEF next
    <3> QED
      BY <2>2, <3>1 DEF Unconfirmed
  <2>4. CASE Return(w)
    BY <2>2, <2>4 DEF Return, Callback, Ops, Unconfirmed
  <2>5. CASE Refund(w)
    BY <2>2, <2>5 DEF Refund, Ops, Unconfirmed
  <2>6. CASE UpdateLine(w)
    BY <2>2, <2>6 DEF UpdateLine, Ops, Unconfirmed
  <2>7. CASE Cancel(w) \/ Expire(w) \/ Confirm(w)
    BY <2>2, <2>7 DEF Cancel, Expire, Release, Confirm, Ops
  <2>8. CASE Approve(w)
    <3>1. PICK fs : status' = Derived(status, lines, fs)
      BY <2>8 DEF Approve
    <3>2. AutoConfirm => status' # "unconfirmed"
      BY <3>1, DerivedConfirmed DEF Unconfirmed
    <3> QED
      BY <2>2, <2>8, <3>2 DEF Approve, Ops
  <2>9. CASE Withdraw(w) \/ Restock(w)
    <3>1. \E ls, fs : status' = Derived(status, ls, fs)
      BY <2>9 DEF Withdraw, Restock
    <3>2. AutoConfirm => status' # "unconfirmed"
      BY <3>1, DerivedConfirmed DEF Unconfirmed
    <3> QED
      BY <2>2, <2>9, <3>2 DEF Withdraw, Restock, Ops
  <2>10. CASE UpdateStatus(w)
    <3> DEFINE old == job[w].seen.status
               new == Derived(old, lines, fulfillments)
    <3>1. status' = IF new # old THEN new ELSE status
      BY <2>10 DEF UpdateStatus
    <3>2. new = old \/ new # "unconfirmed"
      BY DerivedConfirmed
    <3> HIDE DEF old, new
    <3>3. AutoConfirm => status' # "unconfirmed"
      BY <3>1, <3>2 DEF Unconfirmed
    <3> QED
      BY <2>2, <2>10, <3>3 DEF UpdateStatus, Ops
  <2> QED
    BY <1>5, <2>1, <2>3, <2>4, <2>5, <2>6, <2>7, <2>8, <2>9, <2>10 DEF Write
<1> QED
  BY <1>1, <1>2, <1>3, <1>4, <1>5 DEF Next

\* A row that holds something holds it of a line.
LEMMA PiecesOfLines ==
  ASSUME NEW row \in Row, row.pieces # NoPull
  PROVE  HasPieces(row)
<1>1. row.pieces \in PieceRows
  BY DEF Row
<1>2. PICK p \in Pieces : row.pieces[p] # 0
  BY <1>1 DEF PieceRows, NoPull
<1>3. PICK l \in Lines : p = <<l, "stocked">> \/ p = <<l, "bare">>
  BY DEF Pieces, Kinds
<1>4. <<l, "stocked">> \in Pieces /\ <<l, "bare">> \in Pieces
  BY DEF Pieces, Kinds
<1>5. row.pieces[<<l, "stocked">>] \in Nat /\ row.pieces[<<l, "bare">>] \in Nat
  BY <1>1, <1>4 DEF PieceRows
<1>6. ByLine(row.pieces)[l] > 0
  BY <1>2, <1>3, <1>5 DEF ByLine
<1> QED
  BY <1>6 DEF HasPieces

\* After pieces were moved, what waits did so before, and still holds some.
LEMMA MovedWaits ==
  ASSUME TypeOK, NEW j, JobOK(j),
         NEW target \in FulfillmentStatuses \ {"waiting_for_approval"},
         MovePieces(j, target), NEW g \in Slots,
         fulfillments'[g].status = "waiting_for_approval"
  PROVE  HasPieces(fulfillments'[g]) /\ fulfillments[g].status = "waiting_for_approval"
<1> DEFINE fs(f) == [h \in Slots |->
               IF h = f THEN Moved(j, target)
               ELSE IF h = j.at
               THEN [fulfillments[h] EXCEPT !.pieces = LeftIn(@, j)]
               ELSE fulfillments[h]]
<1>1. PICK f \in Slots : fulfillments' = Swept(fs(f))
  BY DEF MovePieces, Moved
<1>2. fulfillments[g] \in Row /\ Moved(j, target) \in Row
  BY MovedType DEF TypeOK, Row, PieceRows
<1>3. LeftIn(fulfillments[g].pieces, j) \in PieceRows
  BY <1>2, LeftInType DEF Row
<1> DEFINE row == fs(f)[g]
<1>4. row \in Row /\ (row.status = fulfillments[g].status \/ row.status = target)
  <2>1. Moved(j, target).status = target
    BY DEF Moved
  <2>2. /\ [fulfillments[g] EXCEPT !.pieces = LeftIn(@, j)] \in Row
        /\ [fulfillments[g] EXCEPT !.pieces = LeftIn(@, j)].status = fulfillments[g].status
    BY <1>2, <1>3 DEF Row
  <2> QED
    BY <1>2, <2>1, <2>2
<1> HIDE DEF fs
<1>5. fulfillments'[g] = IF /\ row.status \in {"fulfilled", "waiting_for_approval"}
                            /\ row.pieces = NoPull THEN NoRow ELSE row
  BY <1>1 DEF Swept
<1> HIDE DEF row
<1>6. fulfillments'[g] = row /\ row.pieces # NoPull /\ row.status = "waiting_for_approval"
  BY <1>5 DEF NoRow
<1> QED
  BY <1>4, <1>6, PiecesOfLines

\* Pieces are never moved to a fulfillment that waits for approval.
LEMMA MoveTarget ==
  ASSUME NEW w, Refund(w) \/ Return(w)
  PROVE  \E target \in FulfillmentStatuses \ {"waiting_for_approval"} :
           MovePieces(job[w], target)
<1> DEFINE target == IF "replace" \in job[w].opts THEN "replaced"
                     ELSE IF \/ "refund" \in job[w].opts
                             \/ /\ job[w].at # "none"
                                /\ fulfillments[job[w].at].status = "refunded"
                     THEN "refunded_and_returned" ELSE "returned"
<1>1. Refund(w) => MovePieces(job[w], "refunded")
  BY DEF Refund
<1>2. Return(w) => MovePieces(job[w], target)
  BY DEF Return
<1>3. /\ target \in FulfillmentStatuses \ {"waiting_for_approval"}
      /\ "refunded" \in FulfillmentStatuses \ {"waiting_for_approval"}
  BY DEF FulfillmentStatuses
<1> HIDE DEF target
<1> QED
  BY <1>1, <1>2, <1>3

\* Every step keeps pieces in what waits.
LEMMA StepHeld ==
  ASSUME Accounted, WaitingHeld, [Next]_vars
  PROVE  WaitingHeld'
<1>1. CASE UNCHANGED fulfillments
  BY <1>1 DEF WaitingHeld, HasPieces
<1>2. ASSUME NEW f, NEW row, fulfillments' = [fulfillments EXCEPT ![f] = row],
             row.status = "waiting_for_approval" => HasPieces(row)
      PROVE  WaitingHeld'
  <2>1. fulfillments \in [Slots -> Row]
    BY StatesType DEF Accounted, Covered
  <2> QED
    BY <1>2, <2>1 DEF WaitingHeld, HasPieces
<1>3. ASSUME NEW w \in Workers, Fulfill(w)
      PROVE  WaitingHeld'
  <2> DEFINE j == job[w]
             pieces == [p \in Pieces |-> IF p[2] = "stocked" THEN j.take[p[1]] ELSE 0]
             row == [status |-> IF "approved" \in j.opts THEN "fulfilled"
                                ELSE "waiting_for_approval",
                     pieces |-> pieces]
  <2>1. JobOK(j) /\ j.op = "fulfill"
    BY <1>3 DEF Fulfill, Commit, Idle, Accounted, Covered, TypeInv, JobsOK
  <2>2. j.take \in [Lines -> Nat] /\ j.take # NoTake
    BY <2>1 DEF JobOK, Jobs
  <2>3. PICK l \in Lines : j.take[l] > 0
    BY <2>2 DEF NoTake
  <2>4. PICK f \in Slots : fulfillments' = [fulfillments EXCEPT ![f] = row]
    BY <1>3 DEF Fulfill
  <2>5. ByLine(pieces)[l] = j.take[l]
    <3>1. <<l, "stocked">> \in Pieces /\ <<l, "bare">> \in Pieces
      BY DEF Pieces, Kinds
    <3>2. j.take[l] \in Nat
      BY <2>2
    <3> QED
      BY <3>1, <3>2 DEF ByLine
  <2>6. HasPieces(row)
    BY <2>3, <2>5 DEF HasPieces
  <2> HIDE DEF row
  <2> QED
    BY <1>2, <2>4, <2>6
<1>4. ASSUME NEW w \in Workers, Approve(w)
      PROVE  WaitingHeld'
  <2> DEFINE at == job[w].at
             row == [fulfillments[at] EXCEPT !.status = "fulfilled"]
  <2>1. fulfillments' = [fulfillments EXCEPT ![at] = row]
    BY <1>4 DEF Approve
  <2>2. JobOK(job[w]) /\ job[w].op = "approve"
    BY <1>4 DEF Approve, Commit, Idle, Accounted, Covered, TypeInv, JobsOK
  <2>3. fulfillments[at] \in Row
    BY <2>2, StatesType DEF JobOK, Accounted, Covered
  <2>4. row.status = "fulfilled"
    BY <2>3 DEF Row
  <2> HIDE DEF row, at
  <2> QED
    BY <1>2, <2>1, <2>4
<1>5. ASSUME NEW w \in Workers, Restock(w)
      PROVE  WaitingHeld'
  <2> DEFINE at == job[w].at
             row == [fulfillments[at] EXCEPT !.status = "canceled"]
  <2>1. fulfillments' = [fulfillments EXCEPT ![at] = row]
    BY <1>5 DEF Restock
  <2>2. JobOK(job[w]) /\ job[w].op = "restock"
    BY <1>5 DEF Restock, Commit, Idle, Accounted, Covered, TypeInv, JobsOK
  <2>3. fulfillments[at] \in Row
    BY <2>2, StatesType DEF JobOK, Accounted, Covered
  <2>4. row.status = "canceled"
    BY <2>3 DEF Row
  <2> HIDE DEF row, at
  <2> QED
    BY <1>2, <2>1, <2>4
<1>6. ASSUME NEW w \in Workers, Withdraw(w)
      PROVE  WaitingHeld'
  <2>1. /\ fulfillments' = [fulfillments EXCEPT ![job[w].at] = NoRow]
        /\ NoRow.status # "waiting_for_approval"
    BY <1>6 DEF Withdraw, NoRow
  <2> QED
    BY <1>2, <2>1
<1>7. ASSUME NEW w \in Workers, Refund(w) \/ Return(w)
      PROVE  WaitingHeld'
  <2>1. JobOK(job[w])
    BY <1>7 DEF Refund, Return, Commit, Idle, Accounted, Covered, TypeInv, JobsOK
  <2>2. \E target \in FulfillmentStatuses \ {"waiting_for_approval"} :
          MovePieces(job[w], target)
    BY <1>7, MoveTarget
  <2>3. TypeOK
    BY DEF Accounted, Covered, TypeInv
  <2> QED
    BY <2>1, <2>2, <2>3, MovedWaits DEF WaitingHeld
<1>8. CASE UNCHANGED vars
  BY <1>1, <1>8 DEF vars, rows
<1>9. CASE Pay \/ RefundSettled \/ RefundFailed
  BY <1>1, <1>9 DEF Pay, RefundSettled, RefundFailed
<1>10. ASSUME NEW w \in Workers, Start(w)
       PROVE  WaitingHeld'
  BY <1>1, <1>10, StartFresh DEF rows
<1>11. ASSUME NEW w \in Workers,
              Fail(w) \/ RefundLost(w) \/ UpdateStatus(w) \/ Cancel(w) \/ Expire(w)
                \/ Confirm(w) \/ UpdateLine(w)
       PROVE  WaitingHeld'
  BY <1>1, <1>11 DEF Fail, RefundLost, rows, UpdateStatus, Cancel, Expire, Release,
                    Confirm, UpdateLine
<1> QED
  BY <1>3, <1>4, <1>5, <1>6, <1>7, <1>8, <1>9, <1>10, <1>11 DEF Next, Write

\* What FulfilledIsDone says of a state, and that a step may not break.
LEMMA DoneIs ==
  FulfilledIsDone <=>
    (~raced /\ status = "fulfilled" => AllDone(lines, fulfillments))
BY DEF FulfilledIsDone, AllDone, AwaitsApproval

\* Unfulfilled pieces that a request takes are unfulfilled no more.
LEMMA TakenFromOpen ==
  ASSUME TypeInv, NEW w \in Workers, job[w] # Idle, JobOK(job[w]), Fresh(job[w]),
         job[w].op \in {"fulfill", "refund", "return"},
         lines' = IncreasedFrom(job[w].seen.lines, job[w].take),
         \A l \in Lines : Unfulfilled(lines'[l]) >= 0,
         AllDone(lines, fulfillments)
  PROVE  /\ job[w].take = NoTake /\ ~AwaitsApproval(fulfillments)
         /\ \A l \in Lines : Unfulfilled(lines'[l]) = 0
<1> DEFINE take == job[w].take
<1>1. /\ take \in [Lines -> Nat] /\ lines \in LineRows
      /\ \A l \in Lines : take[l] <= Positive(Unfulfilled(lines[l]))
  BY DEF JobOK, Jobs, Fresh, TypeInv, TypeOK, LineRows
<1>2. lines' = IncreasedFrom(lines, take)
  BY DEF Fresh
<1> HIDE DEF take
<1>3. ASSUME NEW l \in Lines
      PROVE  /\ Unfulfilled(lines'[l]) = Unfulfilled(lines[l]) - take[l]
             /\ Unfulfilled(lines[l]) \in Int /\ take[l] \in Nat
             /\ Unfulfilled(lines[l]) >= 0
  <2> DEFINE line == lines[l]
             raised == [line EXCEPT !.quantity_fulfilled =
                                      line.quantity_fulfilled + take[l]]
  <2>1. line \in [quantity : Nat, quantity_fulfilled : Int] /\ take[l] \in Nat
    BY <1>1 DEF LineRows
  <2>2. lines'[l] = IF take[l] = 0 THEN line ELSE raised
    BY <1>2 DEF IncreasedFrom
  <2> HIDE DEF line
  <2>3. /\ Unfulfilled(line) = line.quantity - line.quantity_fulfilled
        /\ Unfulfilled(raised) = line.quantity - (line.quantity_fulfilled + take[l])
    BY <2>1 DEF Unfulfilled
  <2>4. /\ Unfulfilled(lines'[l]) = Unfulfilled(line) - take[l]
        /\ Unfulfilled(line) \in Int
    <3> HIDE DEF raised
    <3>1. Unfulfilled(line) \in Int
      BY <2>1, <2>3
    <3>2. CASE take[l] = 0
      BY <2>2, <3>1, <3>2
    <3>3. CASE take[l] # 0
      BY <2>1, <2>2, <2>3, <3>3
    <3> QED
      BY <3>1, <3>2, <3>3
  <2>5. Unfulfilled(line) >= 0
    BY <2>1, <2>4
  <2> QED
    BY <2>1, <2>4, <2>5 DEF line
<1>4. (\A l \in Lines : Unfulfilled(lines[l]) = 0) /\ ~AwaitsApproval(fulfillments)
  BY <1>3 DEF AllDone
<1>5. \A l \in Lines : take[l] = 0
  BY <1>1, <1>3, <1>4 DEF Positive
<1>6. take = NoTake
  BY <1>1, <1>5 DEF NoTake
<1> QED
  BY <1>3, <1>4, <1>5, <1>6 DEF take

\* Every step keeps fulfilled orders done.
LEMMA StepFinished ==
  ASSUME Finished, [Next]_vars
  PROVE  FulfilledIsDone'
<1>1. Accounted /\ Accounted' /\ WaitingHeld' /\ FulfilledIsDone
  BY StepAccounted, StepHeld DEF Finished
<1>2. /\ lines \in LineRows /\ fulfillments \in [Slots -> Row]
      /\ lines' \in LineRows /\ fulfillments' \in [Slots -> Row]
  BY <1>1 DEF Accounted, Covered, TypeInv, TypeOK, LineRows, Row, PieceRows
<1>3. SUFFICES ASSUME ~raced', status' = "fulfilled"
               PROVE  AllDone(lines', fulfillments')
  BY DEF FulfilledIsDone, AllDone, AwaitsApproval
<1>4. ~raced /\ status = "fulfilled" => AllDone(lines, fulfillments)
  BY <1>1, DoneIs
<1>5. ASSUME UNCHANGED <<status, lines, fulfillments>>, ~raced
      PROVE  AllDone(lines', fulfillments')
  BY <1>3, <1>4, <1>5
<1>6. ASSUME NEW old, Derived(old, lines', fulfillments') = "fulfilled"
      PROVE  AllDone(lines', fulfillments')
  <2>1. \A l \in Lines :
          lines'[l].quantity_fulfilled = PiecesIn(fulfillments', HeldIn, l)
    BY <1>1, <1>3 DEF Accounted, Balanced, BalancedLine
  <2>2. \A f \in Slots : fulfillments'[f].status = "waiting_for_approval" =>
          HasPieces(fulfillments'[f])
    BY <1>1 DEF WaitingHeld
  <2> QED
    BY <1>2, <1>6, <2>1, <2>2, DerivedDone
<1>7. CASE UNCHANGED vars
  BY <1>3, <1>5, <1>7 DEF vars, rows
<1>8. CASE Pay
  <2>1. /\ UNCHANGED <<lines, fulfillments, raced>>
        /\ status' = IF AutoConfirm THEN Derived(status, lines, fulfillments)
                     ELSE status
    BY <1>8 DEF Pay
  <2>2. CASE AutoConfirm
    <3>1. Derived(status, lines', fulfillments') = "fulfilled"
      BY <1>3, <2>1, <2>2
    <3> QED
      BY <1>6, <3>1
  <2>3. CASE ~AutoConfirm
    BY <1>3, <1>5, <2>1, <2>3
  <2> QED
    BY <2>2, <2>3
<1>9. ASSUME NEW w \in Workers, Start(w)
      PROVE  AllDone(lines', fulfillments')
  BY <1>1, <1>3, <1>5, <1>9, StartFresh DEF rows
<1>10. ASSUME NEW w \in Workers, Fail(w) \/ RefundLost(w)
       PROVE  AllDone(lines', fulfillments')
  BY <1>3, <1>5, <1>10 DEF Fail, RefundLost, rows
<1>17. CASE RefundSettled \/ RefundFailed
  BY <1>3, <1>5, <1>17 DEF RefundSettled, RefundFailed
<1>11. ASSUME NEW w \in Workers, Approve(w) \/ Withdraw(w) \/ Restock(w)
       PROVE  AllDone(lines', fulfillments')
  <2>1. status' = Derived(status, lines', fulfillments')
    BY <1>11 DEF Approve, Withdraw, Restock
  <2> QED
    BY <1>3, <1>6, <2>1
<1>12. ASSUME NEW w \in Workers, UpdateStatus(w)
       PROVE  AllDone(lines', fulfillments')
  <2> DEFINE old == job[w].seen.status
             new == Derived(old, lines, fulfillments)
  <2>1. /\ UNCHANGED <<lines, fulfillments>>
        /\ status' = IF new # old THEN new ELSE status
    BY <1>12 DEF UpdateStatus
  <2>2. ~raced
    BY <1>1, <1>3, <1>12, QuietCommit DEF UpdateStatus, Ops
  <2>3. CASE new # old
    <3>1. Derived(old, lines', fulfillments') = "fulfilled"
      BY <1>3, <2>1, <2>3
    <3> QED
      BY <1>6, <3>1
  <2>4. CASE new = old
    <3> HIDE DEF new, old
    <3> QED
      BY <1>5, <2>1, <2>2, <2>4
  <2> QED
    BY <2>3, <2>4
<1>13. ASSUME NEW w \in Workers, Cancel(w) \/ Expire(w) \/ Confirm(w)
       PROVE  AllDone(lines', fulfillments')
  BY <1>3, <1>13 DEF Cancel, Expire, Release, Confirm
<1>14. ASSUME NEW w \in Workers, UpdateLine(w)
       PROVE  AllDone(lines', fulfillments')
  <2>1. job[w] # Idle /\ job[w].op = "update" /\ ~job[w].stale
    BY <1>1, <1>3, <1>14, QuietCommit DEF UpdateLine, Ops
  <2>2. status = "unconfirmed" /\ UNCHANGED status
    BY <1>14, <2>1 DEF UpdateLine, Finished, Unconfirmed
  <2> QED
    BY <1>3, <2>2
<1>15. ASSUME NEW w \in Workers, Fulfill(w)
       PROVE  AllDone(lines', fulfillments')
  <2> DEFINE next == IF "approved" \in job[w].opts THEN Callback(status) ELSE Idle
  <2>1. /\ Commit(w, "fulfill", next) /\ (next = Idle \/ next.op = "callback")
        /\ lines' = IncreasedFrom(job[w].seen.lines, job[w].take)
        /\ UNCHANGED status
    BY <1>15 DEF Fulfill, Callback
  <2> HIDE DEF next
  <2>2. /\ ~raced /\ JobOK(job[w]) /\ Fresh(job[w]) /\ job[w] # Idle
        /\ job[w].op = "fulfill"
    BY <1>1, <1>3, <2>1, QuietCommit DEF Ops
  <2>3. job[w].take # NoTake
    BY <2>2 DEF JobOK
  <2>4. ~(\A l \in Lines : Unfulfilled(lines'[l]) >= 0)
    <3>1. AllDone(lines, fulfillments) /\ TypeInv
      BY <1>1, <1>3, <1>4, <2>1, <2>2 DEF Accounted, Covered
    <3> QED
      BY <2>1, <2>2, <2>3, <3>1, TakenFromOpen
  <2> QED
    BY <2>4 DEF AllDone
<1>16. ASSUME NEW w \in Workers, Refund(w) \/ Return(w)
       PROVE  AllDone(lines', fulfillments')
  <2>1. /\ ~raced /\ JobOK(job[w]) /\ Fresh(job[w]) /\ job[w] # Idle
        /\ job[w].op \in {"refund", "return"}
    BY <1>1, <1>3, <1>16, QuietCommit DEF Refund, Return, Callback, Ops
  <2>2. \E target \in FulfillmentStatuses \ {"waiting_for_approval"} :
          MovePieces(job[w], target)
    BY <1>16, MoveTarget
  <2>3. UNCHANGED status /\ lines' = IncreasedFrom(job[w].seen.lines, job[w].take)
    BY <1>16 DEF Refund, Return, MovePieces
  <2>4. AllDone(lines, fulfillments) /\ TypeInv /\ TypeOK
    BY <1>1, <1>3, <1>4, <2>1, <2>3 DEF Accounted, Covered, TypeInv
  <2>5. SUFFICES ASSUME \A l \in Lines : Unfulfilled(lines'[l]) >= 0
                 PROVE  /\ \A l \in Lines : Unfulfilled(lines'[l]) = 0
                        /\ ~AwaitsApproval(fulfillments')
    BY DEF AllDone
  <2>6. /\ ~AwaitsApproval(fulfillments)
        /\ \A l \in Lines : Unfulfilled(lines'[l]) = 0
    BY <2>1, <2>3, <2>4, <2>5, TakenFromOpen
  <2>7. ~AwaitsApproval(fulfillments')
    BY <2>1, <2>2, <2>4, <2>6, MovedWaits DEF AwaitsApproval
  <2> QED
    BY <2>6, <2>7
<1> QED
  BY <1>7, <1>8, <1>9, <1>10, <1>11, <1>12, <1>13, <1>14, <1>15, <1>16, <1>17
  DEF Next, Write

\* Everything that FulfilledIsDone rests on, of a new order and ever after.
LEMMA FinishedAlways == Spec => []Finished
<1>1. Init => Finished
  <2>1. ASSUME Init
        PROVE  Finished
    <3>1. Accounted
      BY <2>1, InitAccounted
    <3>2. Unconfirmed
      BY <2>1 DEF Init, Unconfirmed
    <3>3. \A f \in Slots : fulfillments[f].status = "none"
      BY <2>1 DEF Init, NoRow
    <3>4. status # "fulfilled"
      BY <2>1 DEF Init
    <3> QED
      BY <3>1, <3>2, <3>3, <3>4 DEF Finished, WaitingHeld, FulfilledIsDone
  <2> QED
    BY <2>1
<1>2. Finished /\ [Next]_vars => Finished'
  BY StepAccounted, StepUnconfirmed, StepHeld, StepFinished DEF Finished
<1> QED
  BY <1>1, <1>2, PTL DEF Spec

\* An order that says it is fulfilled has nothing left to fulfil or to approve
\* (update_order_status).
THEOREM FulfilledIsDoneAlways == Spec => []FulfilledIsDone
<1>1. Finished => FulfilledIsDone
  BY DEF Finished
<1> QED
  BY <1>1, FinishedAlways, PTL
=============================================================================
