----------------------- MODULE CheckoutCompletionProofs -----------------------
(***************************************************************************)
(* OneOrder, that completion implements Purchase, and what becomes of the  *)
(* counter, the money and the usage of the voucher, for any number of      *)
(* checkouts, workers, payments and calls.                                 *)
(*                                                                         *)
(* OneOrder: only PlaceOrder touches orders or open, and both actions that *)
(* call it find the checkout open under its lock, where OneOrder says      *)
(* there is no order yet.                                                  *)
(*                                                                         *)
(* Money: it is touched by a worker that has the payment in hand, so that  *)
(* worker's checkout must be the payment's own and open (InHand).  The     *)
(* first two transactions of the payment flow look only at payments of     *)
(* their checkout (Held); while one prepares, its lock keeps the checkout  *)
(* from being ordered (Locked); the others ask under their own lock.  Who  *)
(* is told of a capture must pass one of the actions that end its job, and *)
(* each accounts for the money or leaves a mark that stays (TakenBack,     *)
(* DisturbedGrows).  So a second capture of a payment without such a mark  *)
(* would meet another worker at its checkout (NotTwice), which is what     *)
(* Purchase allows only where it was disturbed.                            *)
(*                                                                         *)
(* The counter is given back by whoever sees the flag set.  A worker that  *)
(* prepares sees the flag as it is (Fresh), because nobody else writes it  *)
(* under its lock (Sole); so what is given back was counted (Counted).     *)
(* Where no two workers completed a checkout (Alone), what a worker found  *)
(* out in one transaction still holds in the next.                         *)
(***************************************************************************)
EXTENDS CheckoutCompletion, TLAPS

OrderRows == /\ open \in [Checkouts -> BOOLEAN]
             /\ orders \in [Checkouts -> Nat]

OrderInv == OrderRows /\ OneOrder

\* What each worker holds: only that its checkout is one matters below.
ProcOK == proc \in [Workers -> {Idle} \cup Jobs]

\* The payments' columns.
PayOK == /\ pay \in [Payments -> Statuses]
         /\ captured \in [Payments -> Nat] /\ ongoing \in [Payments -> Nat]

\* Placing the order of an open checkout keeps the invariant.
LEMMA PlaceOrderKeeps ==
  ASSUME OrderInv, NEW k \in Checkouts, open[k], PlaceOrder(k)
  PROVE  OrderInv'
<1>1. orders[k] = 0
  BY DEF OrderInv, OneOrder
<1>2. OrderRows'
  BY DEF OrderInv, OrderRows, PlaceOrder
<1>3. ASSUME NEW j \in Checkouts
      PROVE  orders'[j] = IF open'[j] THEN 0 ELSE 1
  <2>1. CASE j = k
    BY <1>1, <2>1 DEF OrderInv, OrderRows, PlaceOrder
  <2>2. CASE j # k
    BY <2>2 DEF OrderInv, OrderRows, OneOrder, PlaceOrder
  <2> QED BY <2>1, <2>2
<1> QED BY <1>2, <1>3 DEF OrderInv, OneOrder

\* A busy worker's job names a checkout.
LEMMA JobOfWorker ==
  ASSUME ProcOK, NEW w \in Workers, proc[w] # Idle
  PROVE  proc[w] \in Jobs /\ proc[w].k \in Checkouts
BY DEF ProcOK, Jobs

\* An answer leads from a status to a status.
LEMMA AfterStatus ==
  ASSUME NEW st \in Statuses, NEW answer \in Accepting
  PROVE  After(st, answer) \in Statuses
BY DEF After, Statuses, Accepting

\* What a worker does that is told that its payment was accepted.
LEMMA Accepted ==
  ASSUME ProcOK, PayOK, NEW w \in Workers, ChargeAccepted(w)
  PROVE  /\ proc[w] \in Jobs /\ proc[w].at = "reserved" /\ proc[w].p \in Payments
         /\ \E answer \in Accepting, job \in Jobs :
              /\ Charging(w, answer)
              /\ pay' = [pay EXCEPT ![proc[w].p] = After(@, answer)]
              /\ captured' = [captured EXCEPT ![proc[w].p] =
                                IF answer = "captured" THEN @ + 1 ELSE @]
              /\ proc' = [proc EXCEPT ![w] = job]
              /\ job.at = "accepted" /\ job.k = proc[w].k /\ job.p = proc[w].p
              /\ job.seen = After(pay[proc[w].p], answer)
<1>1. PICK answer \in Accepting :
        /\ Charging(w, answer)
        /\ pay' = [pay EXCEPT ![proc[w].p] = After(@, answer)]
        /\ captured' = [captured EXCEPT ![proc[w].p] =
                          IF answer = "captured" THEN @ + 1 ELSE @]
        /\ proc' = [proc EXCEPT ![w] =
             [@ EXCEPT !.at = "accepted", !.seen = After(pay[proc[w].p], answer)]]
  BY DEF ChargeAccepted
<1>2. proc[w].at = "reserved" /\ proc[w].p # NoPayment
  BY <1>1 DEF Charging
<1>3. proc[w] \in Jobs
  BY <1>2 DEF ProcOK, Idle
<1>4. proc[w].p \in Payments
  BY <1>2, <1>3 DEF Jobs
<1> DEFINE st == After(pay[proc[w].p], answer)
           job == [proc[w] EXCEPT !.at = "accepted", !.seen = st]
<1>5. st \in Statuses
  BY <1>4, AfterStatus DEF PayOK
<1>6. proc' = [proc EXCEPT ![w] = job]
  BY <1>1
<1> HIDE DEF st
<1>7. /\ job \in Jobs /\ job.at = "accepted" /\ job.k = proc[w].k
      /\ job.p = proc[w].p /\ job.seen = st
  BY <1>3, <1>5 DEF Jobs
<1> HIDE DEF job
<1> QED BY <1>1, <1>2, <1>3, <1>4, <1>6, <1>7 DEF st

\* No action invents a job: it is made from a checkout, or moves on.
LEMMA ProcOKKept ==
  ASSUME ProcOK, PayOK, increased \in [Checkouts -> BOOLEAN], [Next]_vars
  PROVE  ProcOK'
<1>1. CASE UNCHANGED vars
  BY <1>1 DEF ProcOK, vars
<1>2. ASSUME NEW w \in Workers, NEW k \in Checkouts, StartPreparing(w, k)
      PROVE  ProcOK'
  <2>1. PICK p \in LastActive(k) :
          proc' = [proc EXCEPT ![w] =
            [at |-> "preparing", k |-> k, p |-> p, flag |-> increased[k],
             code |-> Usable(k, increased[k]), seen |-> Status(p)]]
    BY <1>2 DEF StartPreparing
  <2>2. p \in Payments \cup {NoPayment}
    BY <2>1 DEF LastActive
  <2>3. Usable(k, increased[k]) \in BOOLEAN /\ increased[k] \in BOOLEAN
    BY DEF Usable
  <2>5. Status(p) \in Statuses
    BY <2>2 DEF Status, PayOK, Statuses
  <2> DEFINE job == [at |-> "preparing", k |-> k, p |-> p, flag |-> increased[k],
                     code |-> Usable(k, increased[k]), seen |-> Status(p)]
  <2>4. job \in Jobs
    BY <2>2, <2>3, <2>5 DEF Jobs
  <2> QED BY <2>1, <2>4 DEF ProcOK
<1>3. ASSUME NEW w \in Workers, NEW k \in Checkouts, Load(w, k)
      PROVE  ProcOK'
  <2>1. Usable(k, increased[k]) \in BOOLEAN /\ increased[k] \in BOOLEAN
    BY DEF Usable
  <2> DEFINE job == [at |-> "loaded", k |-> k, p |-> NoPayment,
                     flag |-> increased[k], code |-> Usable(k, increased[k]),
                     seen |-> "absent"]
  <2>2. job \in Jobs
    BY <2>1 DEF Jobs, Statuses
  <2>3. proc' = [proc EXCEPT ![w] = job]
    BY <1>3 DEF Load
  <2> QED BY <2>2, <2>3 DEF ProcOK
<1>4. ASSUME NEW w \in Workers, NEW job \in {Idle} \cup Jobs,
             proc' = [proc EXCEPT ![w] = job]
      PROVE  ProcOK'
  BY <1>4 DEF ProcOK
<1>5. CASE Request
  BY <1>2, <1>3, <1>5 DEF Request
<1>6. CASE Pay \/ Time
  BY <1>6 DEF Pay, Time, NewPayment, LockLapses, HoldRemoved, ProcOK
<1>7. CASE Die
  BY <1>4, <1>7 DEF Die, Crash
<1>8. ASSUME NEW w \in Workers, Step(w)
      PROVE  ProcOK'
  <2>1. proc[w] \in {Idle} \cup Jobs
    BY DEF ProcOK
  <2>2. CASE proc' = [proc EXCEPT ![w] = Idle]
    BY <1>4, <2>2
  <2>3. CASE Prepare(w)
    <3>1. proc[w] \in Jobs
      BY <2>1, <2>3 DEF Prepare, Idle
    <3> DEFINE flag == proc[w].flag \/ (proc[w].k \in Discounted /\ ~proc[w].flag)
    <3> DEFINE job == [proc[w] EXCEPT !.at = "reserved", !.flag = flag]
    <3>2. job \in Jobs
      <4>1. flag \in BOOLEAN
        BY <3>1 DEF Jobs
      <4> HIDE DEF flag
      <4> QED BY <3>1, <4>1 DEF Jobs
    <3>3. proc' = [proc EXCEPT ![w] = job]
      BY <2>3 DEF Prepare
    <3> QED BY <1>4, <3>2, <3>3
  <2>4. CASE CheckVoucher(w)
    <3>1. proc[w] \in Jobs
      BY <2>1, <2>4 DEF CheckVoucher, Idle
    <3> DEFINE code == Usable(proc[w].k, proc[w].flag)
    <3> DEFINE job == [proc[w] EXCEPT !.at = "checked", !.code = code]
    <3>2. job \in Jobs
      <4>1. code \in BOOLEAN
        BY DEF Usable
      <4> HIDE DEF code
      <4> QED BY <3>1, <4>1 DEF Jobs
    <3>3. proc' = [proc EXCEPT ![w] = job]
      BY <2>4 DEF CheckVoucher
    <3> QED BY <1>4, <3>2, <3>3
  <2>5. ASSUME NEW at \in {"unconfirmed", "counted"}, proc[w] \in Jobs,
               proc' = [proc EXCEPT ![w] = [@ EXCEPT !.at = at]]
        PROVE  ProcOK'
    <3>1. [proc[w] EXCEPT !.at = at] \in Jobs
      BY <2>5 DEF Jobs
    <3> QED BY <1>4, <2>5, <3>1
  <2>6. CASE ChargeNeedsConfirmation(w)
    <3>1. proc[w] \in Jobs
      BY <2>1, <2>6 DEF ChargeNeedsConfirmation, Charging, Idle
    <3>2. proc' = [proc EXCEPT ![w] = [@ EXCEPT !.at = "unconfirmed"]]
      BY <2>6 DEF ChargeNeedsConfirmation
    <3> QED BY <2>5, <3>1, <3>2
  <2>9. CASE ChargeAccepted(w)
    BY <1>4, <2>9, Accepted
  <2>7. CASE CountVoucher(w)
    <3>1. proc[w] \in Jobs
      BY <2>1, <2>7 DEF CountVoucher, Idle
    <3>2. proc' = [proc EXCEPT ![w] = [@ EXCEPT !.at = "counted"]]
      BY <2>7 DEF CountVoucher
    <3> QED BY <2>5, <3>1, <3>2
  <2>8. CASE \/ ChargeCancelled(w) \/ ChargeFails(w)
             \/ PrepareFails(w) \/ PrepareRefused(w) \/ PrepareStops(w) \/ AwaitConfirmation(w)
             \/ Finish(w) \/ FinishRefunding(w) \/ FinishFails(w)
             \/ OrderFromCheckout(w) \/ OrderFromCheckoutFails(w)
             \/ AlreadyOrdered(w) \/ VoucherRefused(w)
    BY <2>2, <2>8 DEF ChargeCancelled, ChargeFails, PrepareFails,
       PrepareRefused, PrepareStops, AwaitConfirmation, Finish, VoucherRefused,
       FinishRefunding, FinishFails, OrderFromCheckout, OrderFromCheckoutFails,
       AlreadyOrdered, Leave, Return
  <2> QED BY <1>8, <2>3, <2>4, <2>6, <2>7, <2>8, <2>9 DEF Step
<1> QED BY <1>1, <1>5, <1>6, <1>7, <1>8 DEF Next, Work

\* Payments keep to their statuses, and amounts are numbers.
LEMMA PayOKKept ==
  ASSUME ProcOK, PayOK, [Next]_vars
  PROVE  PayOK'
<1>1. ASSUME UNCHANGED <<pay, captured, ongoing>> PROVE PayOK'
  BY <1>1 DEF PayOK
<1>2. ASSUME NEW p, NEW seen, TakeBack(p, seen) PROVE PayOK'
  <2>1. pay' \in [Payments -> Statuses]
    BY <1>2 DEF PayOK, TakeBack, TakeBackRefused, Statuses
  <2>2. captured' \in [Payments -> Nat]
    BY <1>2 DEF PayOK, TakeBack, TakeBackRefused
  <2>3. ongoing' \in [Payments -> Nat]
    <3>1. CASE ongoing' = [ongoing EXCEPT ![p] = captured[p]]
      <4> SUFFICES ASSUME NEW q \in Payments, q = p PROVE captured[p] \in Nat
        BY <3>1 DEF PayOK
      <4> QED BY DEF PayOK
    <3>2. CASE UNCHANGED ongoing
      BY <3>2 DEF PayOK
    <3> QED BY <1>2, <3>1, <3>2 DEF TakeBack, TakeBackRefused
  <2> QED BY <2>1, <2>2, <2>3 DEF PayOK
<1>3. CASE UNCHANGED vars
  BY <1>1, <1>3 DEF vars
<1>4. CASE Request \/ Time \/ Die
  BY <1>1, <1>4 DEF Request, Time, Die, StartPreparing, Load, LockLapses,
     HoldRemoved, Crash
<1>5. CASE Pay
  BY <1>5 DEF Pay, NewPayment, PayOK, Statuses
<1>6. ASSUME NEW w \in Workers, Step(w) PROVE PayOK'
  <2>1. CASE PrepareFails(w) \/ FinishFails(w)
    BY <1>2, <2>1 DEF PrepareFails, FinishFails
  <2>2. CASE ChargeAccepted(w)
    <3>1. PICK answer \in Accepting, job \in Jobs :
            /\ pay' = [pay EXCEPT ![proc[w].p] = After(@, answer)]
            /\ captured' = [captured EXCEPT ![proc[w].p] =
                              IF answer = "captured" THEN @ + 1 ELSE @]
      BY <2>2, Accepted
    <3>2. proc[w].p \in Payments
      BY <2>2, Accepted
    <3>3. After(pay[proc[w].p], answer) \in Statuses
      BY <3>2, AfterStatus DEF PayOK
    <3>4. UNCHANGED ongoing
      BY <2>2 DEF ChargeAccepted
    <3>5. pay' \in [Payments -> Statuses]
      BY <3>1, <3>2, <3>3 DEF PayOK
    <3>6. captured' \in [Payments -> Nat]
      BY <3>1, <3>2 DEF PayOK
    <3> QED BY <3>4, <3>5, <3>6 DEF PayOK
  <2>4. CASE ChargeCancelled(w)
    BY <2>4 DEF ChargeCancelled, PayOK, Statuses
  <2>3. CASE \/ Prepare(w) \/ PrepareStops(w) \/ PrepareRefused(w)
             \/ ChargeNeedsConfirmation(w) \/ ChargeFails(w)
             \/ AwaitConfirmation(w) \/ Finish(w)
             \/ FinishRefunding(w) \/ VoucherRefused(w) \/ CheckVoucher(w)
             \/ CountVoucher(w) \/ OrderFromCheckout(w)
             \/ OrderFromCheckoutFails(w) \/ AlreadyOrdered(w)
    BY <1>1, <2>3 DEF Prepare, PrepareStops, TakeBackRefused, PrepareRefused,
       ChargeNeedsConfirmation, ChargeFails, AwaitConfirmation, Finish,
       FinishRefunding, VoucherRefused, CheckVoucher, CountVoucher,
       OrderFromCheckout, OrderFromCheckoutFails, AlreadyOrdered, Return
  <2> QED BY <1>6, <2>1, <2>2, <2>3, <2>4 DEF Step
<1> QED BY <1>3, <1>4, <1>5, <1>6 DEF Next, Work

\* A step gives its worker nothing to do, or the next stage of its job.
LEMMA StepMoves ==
  ASSUME ProcOK, PayOK, NEW w \in Workers, Step(w)
  PROVE  \E job \in {Idle} \cup Jobs :
           /\ proc' = [proc EXCEPT ![w] = job]
           /\ job # Idle =>
                /\ proc[w] \in Jobs /\ job.k = proc[w].k /\ job.p = proc[w].p
                /\ \/ job.at = "reserved" /\ Prepare(w)
                   \/ job.at = "accepted" /\ ChargeAccepted(w)
                   \/ job.at = "unconfirmed" /\ ChargeNeedsConfirmation(w)
                   \/ job.at = "checked" /\ CheckVoucher(w)
                   \/ job.at = "counted" /\ CountVoucher(w)
<1>1. proc[w] # Idle => proc[w] \in Jobs
  BY DEF ProcOK
<1>2. CASE Prepare(w)
  <2>1. proc[w] \in Jobs
    BY <1>1, <1>2 DEF Prepare, Idle
  <2> DEFINE flag == proc[w].flag \/ (proc[w].k \in Discounted /\ ~proc[w].flag)
  <2> DEFINE job == [proc[w] EXCEPT !.at = "reserved", !.flag = flag]
  <2>2. proc' = [proc EXCEPT ![w] = job]
    BY <1>2 DEF Prepare
  <2>3. flag \in BOOLEAN
    BY <2>1 DEF Jobs
  <2> HIDE DEF flag
  <2>4. job \in Jobs /\ job.k = proc[w].k /\ job.p = proc[w].p /\ job.at = "reserved"
    BY <2>1, <2>3 DEF Jobs
  <2> HIDE DEF job
  <2> QED BY <1>2, <2>1, <2>2, <2>4
<1>3. CASE CheckVoucher(w)
  <2>1. proc[w] \in Jobs
    BY <1>1, <1>3 DEF CheckVoucher, Idle
  <2> DEFINE code == Usable(proc[w].k, proc[w].flag)
  <2> DEFINE job == [proc[w] EXCEPT !.at = "checked", !.code = code]
  <2>2. proc' = [proc EXCEPT ![w] = job]
    BY <1>3 DEF CheckVoucher
  <2>3. code \in BOOLEAN
    BY DEF Usable
  <2> HIDE DEF code
  <2>4. job \in Jobs /\ job.k = proc[w].k /\ job.p = proc[w].p /\ job.at = "checked"
    BY <2>1, <2>3 DEF Jobs
  <2> HIDE DEF job
  <2> QED BY <1>3, <2>1, <2>2, <2>4
<1>4. ASSUME NEW at \in {"unconfirmed", "counted"}, proc[w] \in Jobs,
             proc' = [proc EXCEPT ![w] = [@ EXCEPT !.at = at]]
      PROVE  \E job \in Jobs :
               /\ proc' = [proc EXCEPT ![w] = job]
               /\ job.k = proc[w].k /\ job.p = proc[w].p /\ job.at = at
  <2> DEFINE job == [proc[w] EXCEPT !.at = at]
  <2>1. job \in Jobs /\ job.k = proc[w].k /\ job.p = proc[w].p /\ job.at = at
    BY <1>4 DEF Jobs
  <2>2. proc' = [proc EXCEPT ![w] = job]
    BY <1>4
  <2> HIDE DEF job
  <2> QED BY <2>1, <2>2
<1>5. CASE ChargeAccepted(w)
  BY <1>5, Accepted
<1>6. CASE ChargeNeedsConfirmation(w)
  <2>1. /\ proc[w] \in Jobs
        /\ proc' = [proc EXCEPT ![w] = [@ EXCEPT !.at = "unconfirmed"]]
    BY <1>1, <1>6 DEF ChargeNeedsConfirmation, Charging, Idle
  <2> QED BY <1>4, <1>6, <2>1
<1>7. CASE CountVoucher(w)
  <2>1. proc[w] \in Jobs /\ proc' = [proc EXCEPT ![w] = [@ EXCEPT !.at = "counted"]]
    BY <1>1, <1>7 DEF CountVoucher, Idle
  <2> QED BY <1>4, <1>7, <2>1
<1>8. CASE \/ ChargeCancelled(w) \/ ChargeFails(w)
           \/ PrepareFails(w) \/ PrepareRefused(w) \/ PrepareStops(w) \/ AwaitConfirmation(w)
           \/ Finish(w) \/ FinishRefunding(w) \/ FinishFails(w)
           \/ OrderFromCheckout(w) \/ OrderFromCheckoutFails(w)
           \/ AlreadyOrdered(w) \/ VoucherRefused(w)
  <2>1. proc' = [proc EXCEPT ![w] = Idle]
    BY <1>8 DEF ChargeCancelled, ChargeFails, PrepareFails,
       PrepareRefused, PrepareStops, AwaitConfirmation, Finish, VoucherRefused,
       FinishRefunding, FinishFails, OrderFromCheckout, OrderFromCheckoutFails,
       AlreadyOrdered, Leave, Return
  <2> QED BY <2>1
<1> QED BY <1>2, <1>3, <1>5, <1>6, <1>7, <1>8 DEF Step

\* A worker that steps does not go on preparing.
LEMMA StepLeaves ==
  ASSUME ProcOK, PayOK, NEW w \in Workers, Step(w)
  PROVE  \E job : /\ proc' = [proc EXCEPT ![w] = job]
                  /\ job # Idle => job.at # "preparing"
<1>1. PICK job \in {Idle} \cup Jobs :
        /\ proc' = [proc EXCEPT ![w] = job]
        /\ job # Idle => job.at \in {"reserved", "accepted", "unconfirmed", "checked",
                                    "counted"}
  BY StepMoves
<1> QED BY <1>1

\* The flag stays a flag, whichever of its two writers runs.
LEMMA FlagsKept ==
  ASSUME ProcOK, increased \in [Checkouts -> BOOLEAN], [Next]_vars
  PROVE  increased' \in [Checkouts -> BOOLEAN]
<1>1. CASE UNCHANGED vars
  BY <1>1 DEF vars
<1>2. CASE Request \/ Pay \/ Time \/ Die
  BY <1>2 DEF Request, Pay, Time, Die, StartPreparing, Load, NewPayment,
     LockLapses, HoldRemoved, Crash
<1>3. ASSUME NEW w \in Workers, Step(w)
      PROVE  increased' \in [Checkouts -> BOOLEAN]
  <2>1. proc[w] # Idle => proc[w].flag \in BOOLEAN /\ proc[w].code \in BOOLEAN
    BY DEF ProcOK, Jobs
  <2>2. CASE Prepare(w) \/ CountVoucher(w)
    BY <2>2 DEF Prepare, CountVoucher
  <2>3. CASE PrepareFails(w) \/ AwaitConfirmation(w) \/ FinishFails(w)
    BY <2>3 DEF PrepareFails, AwaitConfirmation, FinishFails, Release
  <2>4. CASE \/ ChargeAccepted(w) \/ ChargeNeedsConfirmation(w)
             \/ ChargeCancelled(w) \/ ChargeFails(w)
    BY <2>4 DEF ChargeAccepted, ChargeNeedsConfirmation, ChargeCancelled, ChargeFails
  <2>5. CASE \/ PrepareRefused(w) \/ PrepareStops(w) \/ Finish(w) \/ FinishRefunding(w)
             \/ CheckVoucher(w) \/ OrderFromCheckout(w)
             \/ OrderFromCheckoutFails(w) \/ AlreadyOrdered(w)
             \/ VoucherRefused(w)
    BY <2>5 DEF PrepareRefused, PrepareStops, Finish, FinishRefunding, CheckVoucher, VoucherRefused,
       OrderFromCheckout, OrderFromCheckoutFails, AlreadyOrdered, Return
  <2> QED BY <1>3, <2>2, <2>3, <2>4, <2>5 DEF Step
<1> QED BY <1>1, <1>2, <1>3 DEF Next, Work

\* Only Finish and OrderFromCheckout touch the orders and the checkouts, and
\* both find the checkout open under its lock.
LEMMA OrderInvKept ==
  ASSUME ProcOK, OrderInv, [Next]_vars
  PROVE  OrderInv'
<1>1. ASSUME UNCHANGED <<open, orders>>
      PROVE  OrderInv'
  BY <1>1 DEF OrderInv, OrderRows, OneOrder
<1>2. CASE UNCHANGED vars
  BY <1>1, <1>2 DEF vars
<1>3. CASE Request \/ Pay \/ Time \/ Die
  BY <1>1, <1>3 DEF Request, Pay, Time, Die, StartPreparing, Load, NewPayment,
     LockLapses, HoldRemoved, Crash
<1>4. ASSUME NEW w \in Workers, Step(w)
      PROVE  OrderInv'
  <2>1. CASE Finish(w)
    <3>1. proc[w].k \in Checkouts
      BY <2>1, JobOfWorker DEF Finish, Idle
    <3> QED BY <2>1, <3>1, PlaceOrderKeeps DEF Finish
  <2>2. CASE OrderFromCheckout(w)
    <3>1. proc[w].k \in Checkouts
      BY <2>2, JobOfWorker DEF OrderFromCheckout, Idle
    <3> QED BY <2>2, <3>1, PlaceOrderKeeps DEF OrderFromCheckout
  <2>3. CASE \/ Prepare(w) \/ PrepareFails(w) \/ PrepareRefused(w) \/ PrepareStops(w)
             \/ ChargeAccepted(w) \/ ChargeNeedsConfirmation(w)
             \/ ChargeCancelled(w) \/ ChargeFails(w)
             \/ AwaitConfirmation(w) \/ FinishRefunding(w) \/ FinishFails(w)
             \/ CheckVoucher(w) \/ CountVoucher(w) \/ OrderFromCheckoutFails(w)
             \/ AlreadyOrdered(w) \/ VoucherRefused(w)
    BY <1>1, <2>3 DEF Prepare, VoucherRefused, PrepareFails, PrepareRefused, PrepareStops, Charging,
       ChargeAccepted, ChargeNeedsConfirmation, ChargeCancelled, ChargeFails,
       AwaitConfirmation, FinishRefunding, FinishFails, CheckVoucher,
       CountVoucher, OrderFromCheckoutFails, AlreadyOrdered, Return
  <2> QED BY <1>4, <2>1, <2>2, <2>3 DEF Step
<1> QED BY <1>2, <1>3, <1>4 DEF Next, Work

\* A checkout becomes at most one order, and is gone exactly when it has one,
\* for any number of concurrent completions in both flows, crashes included.
THEOREM OneOrderAlways == Spec => []OneOrder
<1> DEFINE Inv == /\ ProcOK /\ PayOK /\ OrderInv
                  /\ increased \in [Checkouts -> BOOLEAN]
<1>1. Init => Inv
  BY DEF Init, ProcOK, PayOK, Statuses, OrderInv, OrderRows, OneOrder
<1>2. Inv /\ [Next]_vars => Inv'
  BY ProcOKKept, PayOKKept, FlagsKept, OrderInvKept
<1>3. Inv => OneOrder
  BY DEF OrderInv
<1> QED BY <1>1, <1>2, <1>3, PTL DEF Spec

-----------------------------------------------------------------------------
(* What a worker holds, and under which lock.                              *)

\* The payment of a job is one of its checkout's, and past the first
\* transaction there is one.
Holds(job) ==
  /\ job.p # NoPayment => CheckoutOf[job.p] = job.k
  /\ job.at \in {"reserved", "accepted"} => job.p # NoPayment

Held == \A w \in Workers : proc[w] # Idle => Holds(proc[w])

\* The checkout of a worker that prepares is there, under its lock.
Locked ==
  \A w \in Workers : proc[w] # Idle /\ proc[w].at = "preparing" => open[proc[w].k]

\* A job is begun with a payment of its checkout and keeps it.
LEMMA HeldKept ==
  ASSUME ProcOK, PayOK, Held, [Next]_vars
  PROVE  Held'
<1>1. ASSUME UNCHANGED proc PROVE Held'
  BY <1>1 DEF Held
<1>2. ASSUME NEW w \in Workers, NEW job, job # Idle => Holds(job),
             proc' = [proc EXCEPT ![w] = job]
      PROVE  Held'
  BY <1>2 DEF Held, ProcOK
<1>3. ASSUME NEW w \in Workers, proc' = [proc EXCEPT ![w] = Idle]
      PROVE  Held'
  BY <1>2, <1>3
<1>4. CASE UNCHANGED vars \/ Pay \/ Time
  BY <1>1, <1>4 DEF vars, Pay, Time, NewPayment, LockLapses, HoldRemoved
<1>5. CASE Die
  BY <1>3, <1>5 DEF Die, Crash
<1>6. ASSUME NEW w \in Workers, NEW k \in Checkouts, StartPreparing(w, k)
      PROVE  Held'
  <2>1. PICK p \in LastActive(k) :
          proc' = [proc EXCEPT ![w] =
            [at |-> "preparing", k |-> k, p |-> p, flag |-> increased[k],
             code |-> Usable(k, increased[k]), seen |-> Status(p)]]
    BY <1>6 DEF StartPreparing
  <2>2. p # NoPayment => CheckoutOf[p] = k
    BY <2>1 DEF LastActive
  <2> DEFINE job == [at |-> "preparing", k |-> k, p |-> p, flag |-> increased[k],
                     code |-> Usable(k, increased[k]), seen |-> Status(p)]
  <2>3. Holds(job)
    BY <2>2 DEF Holds
  <2> QED BY <1>2, <2>1, <2>3
<1>7. ASSUME NEW w \in Workers, NEW k \in Checkouts, Load(w, k)
      PROVE  Held'
  <2> DEFINE job == [at |-> "loaded", k |-> k, p |-> NoPayment,
                     flag |-> increased[k], code |-> Usable(k, increased[k]),
                     seen |-> "absent"]
  <2>1. Holds(job)
    BY DEF Holds
  <2>2. proc' = [proc EXCEPT ![w] = job]
    BY <1>7 DEF Load
  <2> QED BY <1>2, <2>1, <2>2
<1>8. ASSUME NEW w \in Workers, Step(w)
      PROVE  Held'
  <2>1. PICK job \in {Idle} \cup Jobs :
          /\ proc' = [proc EXCEPT ![w] = job]
          /\ job # Idle =>
               /\ proc[w] \in Jobs /\ job.k = proc[w].k /\ job.p = proc[w].p
               /\ \/ job.at = "reserved" /\ Prepare(w)
                  \/ job.at = "accepted" /\ ChargeAccepted(w)
                  \/ job.at \in {"unconfirmed", "checked", "counted"}
    BY <1>8, StepMoves
  <2>2. ASSUME job # Idle PROVE Holds(job)
    <3>1. proc[w] # Idle
      BY <2>1, <2>2 DEF Jobs, Idle
    <3>2. Holds(proc[w])
      BY <3>1 DEF Held
    <3>3. Prepare(w) \/ ChargeAccepted(w) => proc[w].p # NoPayment
      BY DEF Prepare, ChargeAccepted, Charging
    <3> QED BY <2>1, <2>2, <3>2, <3>3 DEF Holds
  <2> QED BY <1>2, <2>1, <2>2
<1>9. CASE Request
  BY <1>6, <1>7, <1>9 DEF Request
<1> QED BY <1>4, <1>5, <1>8, <1>9 DEF Next, Work

\* A step closes at most its own checkout, and none that is being prepared.
LEMMA StepCloses ==
  ASSUME NEW w \in Workers, Step(w)
  PROVE  \/ UNCHANGED open
         \/ \E k : /\ open' = [open EXCEPT ![k] = FALSE]
                   /\ Unlocked(k)
<1>1. CASE Finish(w) \/ OrderFromCheckout(w)
  <2>1. /\ PlaceOrder(proc[w].k)
        /\ Unlocked(proc[w].k)
    BY <1>1 DEF Finish, OrderFromCheckout
  <2> QED BY <2>1 DEF PlaceOrder
<1>2. CASE \/ Prepare(w) \/ PrepareFails(w) \/ PrepareRefused(w) \/ PrepareStops(w)
           \/ ChargeAccepted(w) \/ ChargeNeedsConfirmation(w)
           \/ ChargeCancelled(w) \/ ChargeFails(w)
           \/ AwaitConfirmation(w) \/ FinishRefunding(w) \/ FinishFails(w)
           \/ CheckVoucher(w) \/ CountVoucher(w) \/ OrderFromCheckoutFails(w)
           \/ AlreadyOrdered(w) \/ VoucherRefused(w)
  BY <1>2 DEF Prepare, VoucherRefused, PrepareFails, PrepareRefused, PrepareStops, Charging,
     ChargeAccepted, ChargeNeedsConfirmation, ChargeCancelled, ChargeFails,
     AwaitConfirmation, FinishRefunding, FinishFails, CheckVoucher,
     CountVoucher, OrderFromCheckoutFails, AlreadyOrdered, Return
<1> QED BY <1>1, <1>2 DEF Step

\* Who prepares came in when the checkout was there, and keeps others out.
LEMMA LockedKept ==
  ASSUME ProcOK, PayOK, OrderInv, Locked, [Next]_vars
  PROVE  Locked'
<1>1. ASSUME UNCHANGED <<proc, open>> PROVE Locked'
  BY <1>1 DEF Locked
<1>2. ASSUME NEW w \in Workers, NEW job, UNCHANGED open,
             job # Idle /\ job.at = "preparing" => open[job.k],
             proc' = [proc EXCEPT ![w] = job]
      PROVE  Locked'
  BY <1>2 DEF Locked, ProcOK
<1>3. CASE UNCHANGED vars \/ Pay \/ Time
  BY <1>1, <1>3 DEF vars, Pay, Time, NewPayment, LockLapses, HoldRemoved
<1>4. CASE Die
  BY <1>2, <1>4 DEF Die, Crash
<1>5. ASSUME NEW w \in Workers, NEW k \in Checkouts, StartPreparing(w, k)
      PROVE  Locked'
  <2>1. PICK p \in LastActive(k) :
          proc' = [proc EXCEPT ![w] =
            [at |-> "preparing", k |-> k, p |-> p, flag |-> increased[k],
             code |-> Usable(k, increased[k]), seen |-> Status(p)]]
    BY <1>5 DEF StartPreparing
  <2> DEFINE job == [at |-> "preparing", k |-> k, p |-> p, flag |-> increased[k],
                     code |-> Usable(k, increased[k]), seen |-> Status(p)]
  <2>2. open[job.k] /\ UNCHANGED open
    BY <1>5 DEF StartPreparing
  <2>3. proc' = [proc EXCEPT ![w] = job]
    BY <2>1
  <2> HIDE DEF job
  <2> QED BY <1>2, <2>2, <2>3
<1>6. ASSUME NEW w \in Workers, NEW k \in Checkouts, Load(w, k)
      PROVE  Locked'
  <2> DEFINE job == [at |-> "loaded", k |-> k, p |-> NoPayment,
                     flag |-> increased[k], code |-> Usable(k, increased[k]),
                     seen |-> "absent"]
  <2>1. job.at = "loaded"
    OBVIOUS
  <2>2. proc' = [proc EXCEPT ![w] = job] /\ UNCHANGED open
    BY <1>6 DEF Load
  <2> HIDE DEF job
  <2> QED BY <1>2, <2>1, <2>2
<1>7. ASSUME NEW w \in Workers, Step(w)
      PROVE  Locked'
  <2>1. PICK job : /\ proc' = [proc EXCEPT ![w] = job]
                   /\ job # Idle => job.at # "preparing"
    BY <1>7, StepLeaves
  <2>2. CASE UNCHANGED open
    BY <1>2, <2>1, <2>2
  <2>3. ASSUME NEW k, open' = [open EXCEPT ![k] = FALSE], Unlocked(k)
        PROVE  Locked'
    <3> SUFFICES ASSUME NEW v \in Workers, proc'[v] # Idle, proc'[v].at = "preparing"
                 PROVE  open'[proc'[v].k]
      BY DEF Locked
    <3>1. v # w /\ proc'[v] = proc[v]
      BY <2>1 DEF ProcOK
    <3>2. proc[v].k \in Checkouts /\ open[proc[v].k]
      BY <3>1, JobOfWorker DEF Locked
    <3>3. proc[v].k # k
      BY <2>3, <3>1 DEF Unlocked, InFlight
    <3> QED BY <2>3, <3>1, <3>2, <3>3 DEF OrderInv, OrderRows
  <2> QED BY <1>7, <2>2, <2>3, StepCloses
<1>8. CASE Request
  BY <1>5, <1>6, <1>8 DEF Request
<1> QED BY <1>3, <1>4, <1>7, <1>8 DEF Next, Work

-----------------------------------------------------------------------------
(* Requests.                                                               *)

\* What a request leaves in its worker, and what it leaves alone.
LEMMA RequestMoves ==
  ASSUME PayOK, increased \in [Checkouts -> BOOLEAN], Request
  PROVE  \E w \in Workers, k \in Checkouts :
           \E job \in Jobs :
             /\ proc[w] = Idle /\ proc' = [proc EXCEPT ![w] = job]
             /\ job.k = k /\ job.flag = increased[k]
             /\ \/ job.at = "preparing" /\ "payment" \in Flows /\ Unlocked(k)
                \/ job.at = "loaded" /\ "transaction" \in Flows
             /\ open[k]
             /\ contested' = IF InFlight(k) # {} THEN contested \cup {k} ELSE contested
<1>1. PICK w \in Workers, k \in Checkouts :
        /\ proc[w] = Idle
        /\ \/ "payment" \in Flows /\ StartPreparing(w, k)
           \/ "transaction" \in Flows /\ Load(w, k)
  BY DEF Request
<1>2. CASE "payment" \in Flows /\ StartPreparing(w, k)
  <2>1. PICK p \in LastActive(k) :
          proc' = [proc EXCEPT ![w] =
            [at |-> "preparing", k |-> k, p |-> p, flag |-> increased[k],
             code |-> Usable(k, increased[k]), seen |-> Status(p)]]
    BY <1>2 DEF StartPreparing
  <2> DEFINE job == [at |-> "preparing", k |-> k, p |-> p, flag |-> increased[k],
                     code |-> Usable(k, increased[k]), seen |-> Status(p)]
  <2>2. p \in Payments \cup {NoPayment}
    BY <2>1 DEF LastActive
  <2>3. Usable(k, increased[k]) \in BOOLEAN /\ increased[k] \in BOOLEAN
    BY DEF Usable
  <2>6. Status(p) \in Statuses
    BY <2>2 DEF Status, PayOK, Statuses
  <2>4. job \in Jobs /\ job.k = k /\ job.flag = increased[k] /\ job.at = "preparing"
    BY <2>2, <2>3, <2>6 DEF Jobs
  <2>5. proc' = [proc EXCEPT ![w] = job]
    BY <2>1
  <2> HIDE DEF job
  <2> QED BY <1>1, <1>2, <2>4, <2>5 DEF StartPreparing
<1>3. CASE "transaction" \in Flows /\ Load(w, k)
  <2> DEFINE job == [at |-> "loaded", k |-> k, p |-> NoPayment,
                     flag |-> increased[k], code |-> Usable(k, increased[k]),
                     seen |-> "absent"]
  <2>1. Usable(k, increased[k]) \in BOOLEAN /\ increased[k] \in BOOLEAN
    BY DEF Usable
  <2>2. job \in Jobs /\ job.k = k /\ job.flag = increased[k] /\ job.at = "loaded"
    BY <2>1 DEF Jobs, Statuses
  <2>3. proc' = [proc EXCEPT ![w] = job]
    BY <1>3 DEF Load
  <2> HIDE DEF job
  <2> QED BY ZenonT(40), <1>1, <1>3, <2>2, <2>3 DEF Load
<1> QED BY <1>1, <1>2, <1>3

-----------------------------------------------------------------------------
(* The counter.                                                            *)

\* Two workers never prepare one checkout at a time.
Sole ==
  \A v, w \in Workers :
    /\ proc[v] # Idle /\ proc[v].at = "preparing"
    /\ proc[w] # Idle /\ proc[w].at = "preparing"
    /\ proc[v].k = proc[w].k
    => v = w

\* The flag a preparing worker has loaded is the flag there is.
Fresh ==
  \A w \in Workers :
    proc[w] # Idle /\ proc[w].at = "preparing" => proc[w].flag = increased[proc[w].k]

\* A checkout that is marked as counted has a usage to give back.
Counted == \A k \in Checkouts : increased[k] => uses[k] >= 1

\* The voucher's counter does not go below zero.
UseRows == uses \in [Checkouts -> Nat]

\* A step writes the flag of one checkout at most, which no other worker is
\* preparing.
LEMMA StepFlags ==
  ASSUME ProcOK, increased \in [Checkouts -> BOOLEAN], Sole, NEW w \in Workers, Step(w)
  PROVE  \/ UNCHANGED increased
         \/ \E k \in Checkouts :
              /\ \A j \in Checkouts : j # k => increased'[j] = increased[j]
              /\ \A v \in Workers : v # w /\ proc[v] # Idle /\ proc[v].k = k =>
                   proc[v].at # "preparing"
<1>1. ASSUME proc[w] # Idle,
             proc[w].at = "preparing" \/ Unlocked(proc[w].k),
             \/ UNCHANGED increased
             \/ \E b : increased' = [increased EXCEPT ![proc[w].k] = b]
      PROVE  \/ UNCHANGED increased
             \/ \E k \in Checkouts :
                  /\ \A j \in Checkouts : j # k => increased'[j] = increased[j]
                  /\ \A v \in Workers : v # w /\ proc[v] # Idle /\ proc[v].k = k =>
                       proc[v].at # "preparing"
  <2>1. proc[w].k \in Checkouts
    BY <1>1, JobOfWorker
  <2>2. \A v \in Workers : v # w /\ proc[v] # Idle /\ proc[v].k = proc[w].k =>
          proc[v].at # "preparing"
    BY <1>1 DEF Sole, Unlocked, InFlight
  <2>3. \/ UNCHANGED increased
        \/ \A j \in Checkouts : j # proc[w].k => increased'[j] = increased[j]
    BY <1>1, <2>1
  <2> QED BY <2>1, <2>2, <2>3
<1>2. CASE Prepare(w) \/ PrepareFails(w)
  <2>1. proc[w].at = "preparing"
    BY <1>2 DEF Prepare, PrepareFails
  <2>3. proc[w] # Idle
    BY <2>1 DEF Idle
  <2>2. \/ UNCHANGED increased
        \/ \E b : increased' = [increased EXCEPT ![proc[w].k] = b]
    <3>1. CASE Prepare(w)
      BY <3>1 DEF Prepare
    <3>2. CASE PrepareFails(w)
      BY <3>2 DEF PrepareFails, Release
    <3> QED BY <1>2, <3>1, <3>2
  <2> QED BY <1>1, <2>1, <2>2, <2>3
<1>3. CASE ChargeCancelled(w) \/ AwaitConfirmation(w) \/ FinishFails(w)
  <2>1. proc[w].at \in {"reserved", "unconfirmed", "accepted"} /\ Unlocked(proc[w].k)
    BY <1>3 DEF ChargeCancelled, Charging, AwaitConfirmation, FinishFails
  <2>3. proc[w] # Idle
    BY <2>1 DEF Idle
  <2>2. \/ UNCHANGED increased
        \/ \E b : increased' = [increased EXCEPT ![proc[w].k] = b]
    <3>1. CASE ChargeCancelled(w)
      BY <3>1 DEF ChargeCancelled
    <3>2. CASE AwaitConfirmation(w)
      BY <3>2 DEF AwaitConfirmation, Release
    <3>3. CASE FinishFails(w)
      BY <3>3 DEF FinishFails, Release
    <3> QED BY <1>3, <3>1, <3>2, <3>3
  <2> QED BY <1>1, <2>1, <2>2, <2>3
<1>4. CASE CountVoucher(w)
  <2> DEFINE counts == proc[w].k \in Discounted /\ proc[w].code /\ ~proc[w].flag
  <2>1. proc[w] # Idle
    BY <1>4 DEF CountVoucher, Idle
  <2>2. increased' = [increased EXCEPT ![proc[w].k] = @ \/ counts]
    BY <1>4 DEF CountVoucher
  <2>3. CASE counts
    <3>1. Unlocked(proc[w].k)
      BY <1>4, <2>3 DEF CountVoucher
    <3> HIDE DEF counts
    <3> QED BY <1>1, <2>1, <2>2, <3>1
  <2>4. CASE ~counts
    <3>1. proc[w].k \in Checkouts
      BY <2>1, JobOfWorker
    <3> HIDE DEF counts
    <3>2. \A j \in Checkouts : increased'[j] = increased[j]
      BY <2>2, <2>4, <3>1
    <3>3. UNCHANGED increased
      BY <2>2, <2>4, <3>1
    <3> QED BY <3>3
  <2> QED BY <2>3, <2>4
<1>5. CASE \/ PrepareRefused(w) \/ PrepareStops(w) \/ ChargeAccepted(w) \/ ChargeNeedsConfirmation(w)
           \/ ChargeFails(w) \/ Finish(w) \/ FinishRefunding(w)
           \/ CheckVoucher(w) \/ OrderFromCheckout(w)
           \/ OrderFromCheckoutFails(w) \/ AlreadyOrdered(w) \/ VoucherRefused(w)
  BY <1>5 DEF PrepareRefused, PrepareStops, ChargeAccepted, ChargeNeedsConfirmation, ChargeFails,
     Finish, FinishRefunding, CheckVoucher, VoucherRefused, OrderFromCheckout,
     OrderFromCheckoutFails, AlreadyOrdered, Return
<1> QED BY <1>2, <1>3, <1>4, <1>5 DEF Step

\* A worker prepares alone, from a flag that stays what it was.
LEMMA FreshKept ==
  ASSUME ProcOK, PayOK, increased \in [Checkouts -> BOOLEAN], Sole, Fresh,
         [Next]_vars
  PROVE  Sole' /\ Fresh'
<1>1. CASE UNCHANGED vars \/ Pay \/ Time
  <2>1. UNCHANGED <<proc, increased>>
    BY <1>1 DEF vars, Pay, Time, NewPayment, LockLapses, HoldRemoved
  <2> QED BY <2>1 DEF Sole, Fresh
<1>2. CASE Die
  <2>1. PICK w \in Workers : proc' = [proc EXCEPT ![w] = Idle] /\ UNCHANGED increased
    BY <1>2 DEF Die, Crash
  <2> QED BY <2>1 DEF Sole, Fresh, ProcOK
<1>3. CASE Request
  <2>1. PICK w \in Workers, k \in Checkouts, job \in Jobs :
          /\ proc[w] = Idle /\ proc' = [proc EXCEPT ![w] = job]
          /\ job.k = k /\ job.flag = increased[k]
          /\ job.at = "preparing" => Unlocked(k)
    <3>1. PICK w \in Workers, k \in Checkouts :
            \E job \in Jobs :
              /\ proc[w] = Idle /\ proc' = [proc EXCEPT ![w] = job]
              /\ job.k = k /\ job.flag = increased[k]
              /\ \/ job.at = "preparing" /\ "payment" \in Flows /\ Unlocked(k)
                 \/ job.at = "loaded" /\ "transaction" \in Flows
      BY <1>3, RequestMoves
    <3> QED BY <3>1
  <2>2. UNCHANGED increased
    BY <1>3 DEF Request, StartPreparing, Load
  <2>3. \A v \in Workers : v # w => proc'[v] = proc[v]
    BY <2>1 DEF ProcOK
  <2>4. proc'[w] = job
    BY <2>1 DEF ProcOK
  <2>5. \A v \in Workers : v # w /\ proc[v] # Idle /\ proc[v].k = k
          => proc[v].at # "preparing" \/ job.at # "preparing"
    BY <2>1 DEF Unlocked, InFlight
  <2>6. Sole'
    BY <2>1, <2>3, <2>4, <2>5 DEF Sole
  <2>7. Fresh'
    BY <2>1, <2>2, <2>3, <2>4 DEF Fresh
  <2> QED BY <2>6, <2>7
<1>4. ASSUME NEW w \in Workers, Step(w)
      PROVE  Sole' /\ Fresh'
  <2>1. PICK job : /\ proc' = [proc EXCEPT ![w] = job]
                   /\ job # Idle => job.at # "preparing"
    BY <1>4, StepLeaves
  <2>2. proc'[w] = job /\ \A v \in Workers : v # w => proc'[v] = proc[v]
    BY <2>1 DEF ProcOK
  <2>3. Sole'
    BY <2>1, <2>2 DEF Sole
  <2>4. ASSUME NEW v \in Workers, proc'[v] # Idle, proc'[v].at = "preparing"
        PROVE  proc'[v].flag = increased'[proc'[v].k]
    <3>1. v # w /\ proc'[v] = proc[v]
      BY <2>1, <2>2, <2>4
    <3>2. proc[v].k \in Checkouts
      BY <2>4, <3>1, JobOfWorker
    <3>3. increased'[proc[v].k] = increased[proc[v].k]
      BY <1>4, <2>4, <3>1, <3>2, StepFlags
    <3> QED BY <2>4, <3>1, <3>3 DEF Fresh
  <2> QED BY <2>3, <2>4 DEF Fresh
<1> QED BY <1>1, <1>2, <1>3, <1>4 DEF Next, Work

\* Counting a usage raises the counter with the flag; giving one back asks
\* for the flag as it is.
LEMMA UsesKept ==
  ASSUME ProcOK, increased \in [Checkouts -> BOOLEAN], Fresh, UseRows, Counted,
         [Next]_vars
  PROVE  UseRows' /\ Counted'
<1>1. ASSUME UNCHANGED <<increased, uses>> PROVE UseRows' /\ Counted'
  BY <1>1 DEF UseRows, Counted
<1>2. ASSUME NEW k \in Checkouts, NEW counts \in BOOLEAN,
             increased' = [increased EXCEPT ![k] = @ \/ counts],
             uses' = [uses EXCEPT ![k] = IF counts THEN @ + 1 ELSE @]
      PROVE  UseRows' /\ Counted'
  <2>1. CASE counts
    <3>1. increased' = [increased EXCEPT ![k] = TRUE]
      BY <1>2, <2>1
    <3>2. uses' = [uses EXCEPT ![k] = @ + 1]
      BY <1>2, <2>1
    <3> QED BY <3>1, <3>2 DEF UseRows, Counted
  <2>2. CASE ~counts
    <3>1. \A j \in Checkouts : increased'[j] = increased[j] /\ uses'[j] = uses[j]
      BY <1>2, <2>2 DEF UseRows
    <3>2. UseRows'
      BY <1>2, <2>2 DEF UseRows
    <3> QED BY <3>1, <3>2 DEF UseRows, Counted
  <2> QED BY <2>1, <2>2
<1>3. ASSUME NEW k \in Checkouts, NEW flag \in BOOLEAN, flag => increased[k],
             Release(k, flag, TRUE)
      PROVE  UseRows' /\ Counted'
  <2>1. CASE flag
    <3>1. increased' = [increased EXCEPT ![k] = FALSE]
      BY <1>3, <2>1 DEF Release
    <3>2. uses' = [uses EXCEPT ![k] = @ - 1] /\ uses[k] >= 1
      BY <1>3, <2>1 DEF Release, Counted
    <3> QED BY <3>1, <3>2 DEF UseRows, Counted
  <2>2. CASE ~flag
    <3>1. increased' = [increased EXCEPT ![k] = @] /\ uses' = [uses EXCEPT ![k] = @]
      BY <1>3, <2>2 DEF Release
    <3>2. UNCHANGED <<increased, uses>>
      BY <3>1 DEF UseRows
    <3> QED BY <1>1, <3>2
  <2> QED BY <2>1, <2>2
<1>4. CASE UNCHANGED vars \/ Request \/ Pay \/ Time \/ Die
  BY <1>1, <1>4 DEF vars, Request, Pay, Time, Die, StartPreparing, Load, NewPayment,
     LockLapses, HoldRemoved, Crash
<1>5. ASSUME NEW w \in Workers, Step(w)
      PROVE  UseRows' /\ Counted'
  <2>1. ASSUME proc[w] # Idle
        PROVE  /\ proc[w] \in Jobs /\ proc[w].k \in Checkouts
               /\ proc[w].flag \in BOOLEAN /\ proc[w].code \in BOOLEAN
               /\ increased[proc[w].k] \in BOOLEAN
    BY <2>1 DEF ProcOK, Jobs
  <2>2. CASE Prepare(w)
    <3> DEFINE counts == proc[w].k \in Discounted /\ ~proc[w].flag
    <3>1. proc[w] # Idle
      BY <2>2 DEF Prepare, Idle
    <3>2. /\ increased' = [increased EXCEPT ![proc[w].k] = @ \/ counts]
          /\ uses' = [uses EXCEPT ![proc[w].k] = IF counts THEN @ + 1 ELSE @]
      BY <2>2 DEF Prepare
    <3>3. counts \in BOOLEAN
      OBVIOUS
    <3> HIDE DEF counts
    <3> QED BY <1>2, <2>1, <3>1, <3>2, <3>3
  <2>3. CASE CountVoucher(w)
    <3> DEFINE counts == proc[w].k \in Discounted /\ proc[w].code /\ ~proc[w].flag
    <3>1. proc[w] # Idle
      BY <2>3 DEF CountVoucher, Idle
    <3>2. /\ increased' = [increased EXCEPT ![proc[w].k] = @ \/ counts]
          /\ uses' = [uses EXCEPT ![proc[w].k] = IF counts THEN @ + 1 ELSE @]
      BY <2>3 DEF CountVoucher
    <3>3. counts \in BOOLEAN
      OBVIOUS
    <3> HIDE DEF counts
    <3> QED BY <1>2, <2>1, <3>1, <3>2, <3>3
  <2>4. CASE PrepareFails(w)
    <3>1. proc[w].at = "preparing"
      BY <2>4 DEF PrepareFails
    <3>2. proc[w] # Idle
      BY <3>1 DEF Idle
    <3>3. proc[w].flag = increased[proc[w].k]
      BY <3>1, <3>2 DEF Fresh
    <3>4. \/ UNCHANGED <<increased, uses>>
          \/ Release(proc[w].k, proc[w].flag, TRUE)
      BY <2>4 DEF PrepareFails
    <3> QED BY <1>1, <1>3, <2>1, <3>2, <3>3, <3>4
  <2>5. CASE AwaitConfirmation(w) \/ FinishFails(w)
    <3>1. proc[w].at \in {"accepted", "unconfirmed"}
          /\ Release(proc[w].k, increased[proc[w].k], TRUE)
      BY <2>5 DEF AwaitConfirmation, FinishFails
    <3>2. proc[w] # Idle
      BY <3>1 DEF Idle
    <3> QED BY <1>3, <2>1, <3>1, <3>2
  <2>6. CASE ChargeCancelled(w)
    <3>1. uses' = uses
      BY <2>6 DEF ChargeCancelled, Charging
    <3>2. \A k \in Checkouts : increased'[k] => increased[k]
      BY <2>6 DEF ChargeCancelled
    <3> QED BY <3>1, <3>2 DEF UseRows, Counted
  <2>7. CASE \/ PrepareRefused(w) \/ PrepareStops(w) \/ ChargeAccepted(w) \/ ChargeNeedsConfirmation(w)
             \/ ChargeFails(w) \/ Finish(w) \/ FinishRefunding(w)
             \/ CheckVoucher(w) \/ OrderFromCheckout(w)
             \/ OrderFromCheckoutFails(w) \/ AlreadyOrdered(w) \/ VoucherRefused(w)
    <3>1. UNCHANGED increased
      BY <2>7 DEF PrepareRefused, PrepareStops, ChargeAccepted, ChargeNeedsConfirmation, ChargeFails,
         Finish, FinishRefunding, CheckVoucher, VoucherRefused, OrderFromCheckout,
         OrderFromCheckoutFails, AlreadyOrdered, Return
    <3>2. UNCHANGED uses
      BY <2>7 DEF PrepareRefused, PrepareStops, ChargeAccepted, ChargeNeedsConfirmation, ChargeFails,
         Charging, Finish, FinishRefunding, CheckVoucher, VoucherRefused,
         OrderFromCheckout, OrderFromCheckoutFails, AlreadyOrdered, Return
    <3> QED BY <1>1, <3>1, <3>2
  <2> QED BY <1>5, <2>2, <2>3, <2>4, <2>5, <2>6, <2>7 DEF Step
<1> QED BY <1>4, <1>5 DEF Next, Work

\* The steps that touch money.
LEMMA StepMoney ==
  ASSUME NEW w \in Workers, Step(w)
  PROVE  \/ UNCHANGED <<pay, active, captured, ongoing, refused>>
         \/ PrepareFails(w) \/ FinishFails(w)
         \/ PrepareStops(w)
         \/ ChargeAccepted(w)
         \/ ChargeCancelled(w)
<1>1. CASE \/ Prepare(w) \/ PrepareRefused(w) \/ ChargeNeedsConfirmation(w)
           \/ ChargeFails(w) \/ AwaitConfirmation(w) \/ Finish(w)
           \/ FinishRefunding(w) \/ VoucherRefused(w) \/ CheckVoucher(w)
           \/ CountVoucher(w) \/ OrderFromCheckout(w)
           \/ OrderFromCheckoutFails(w) \/ AlreadyOrdered(w)
  BY <1>1 DEF Prepare, PrepareRefused, ChargeNeedsConfirmation,
     ChargeFails, AwaitConfirmation, Finish, FinishRefunding, VoucherRefused,
     CheckVoucher, CountVoucher, OrderFromCheckout, OrderFromCheckoutFails,
     AlreadyOrdered, Return
<1> QED BY <1>1 DEF Step

\* The columns that decide little.
OtherRows ==
  /\ completing \in [Checkouts -> {"none", "recent", "lapsed"}]
  /\ hold \in [Checkouts -> BOOLEAN]
  /\ active \in [Payments -> BOOLEAN]
  /\ contested \subseteq Checkouts /\ abandoned \subseteq Checkouts
  /\ refused \subseteq Payments
  /\ calls \in Nat

\* They keep their types.
LEMMA OtherRowsKept ==
  ASSUME ProcOK, OtherRows, [Next]_vars
  PROVE  OtherRows'
<1>1. CASE UNCHANGED vars
  BY <1>1 DEF vars, OtherRows
<1>2. CASE Request
  BY <1>2 DEF Request, Call, StartPreparing, Load, OtherRows
<1>3. CASE Pay
  <2>1. active' \in [Payments -> BOOLEAN]
    BY <1>3 DEF Pay, NewPayment, OtherRows
  <2>2. calls' \in Nat /\ UNCHANGED <<completing, hold, contested, abandoned, refused>>
    BY <1>3 DEF Pay, Call, NewPayment, OtherRows
  <2> QED BY <2>1, <2>2 DEF OtherRows
<1>4. CASE Die
  <2>1. PICK w \in Workers : Crash(w)
    BY <1>4 DEF Die
  <2>2. proc[w].k \in Checkouts
    BY <2>1, JobOfWorker DEF Crash
  <2>3. calls' \in Nat
    BY <1>4 DEF Die, Call, OtherRows
  <2>4. abandoned' \subseteq Checkouts
    BY <2>1, <2>2 DEF Crash, OtherRows
  <2> QED BY <2>1, <2>3, <2>4 DEF Crash, OtherRows
<1>5. CASE Time
  BY <1>5 DEF Time, LockLapses, HoldRemoved, OtherRows
<1>6. ASSUME NEW w \in Workers, Step(w), UNCHANGED <<contested, abandoned, calls>>
      PROVE  OtherRows'
  <2>1. completing' \in [Checkouts -> {"none", "recent", "lapsed"}]
    BY <1>6 DEF Step, Prepare, VoucherRefused, PrepareFails, PrepareRefused, PrepareStops, Charging,
       ChargeAccepted, ChargeNeedsConfirmation, ChargeCancelled, ChargeFails,
       AwaitConfirmation, Finish, FinishRefunding, FinishFails, CheckVoucher,
       CountVoucher, OrderFromCheckout, OrderFromCheckoutFails, AlreadyOrdered,
       Return, Leave, OtherRows
  <2>2. hold' \in [Checkouts -> BOOLEAN]
    BY <1>6 DEF Step, Prepare, VoucherRefused, PrepareFails, PrepareRefused, PrepareStops, Charging,
       ChargeAccepted, ChargeNeedsConfirmation, ChargeCancelled, ChargeFails,
       AwaitConfirmation, Finish, FinishRefunding, FinishFails, CheckVoucher,
       CountVoucher, OrderFromCheckout, OrderFromCheckoutFails, AlreadyOrdered,
       PlaceOrder, Return, OtherRows
  <2>3. ASSUME NEW p \in Payments \cup {NoPayment}, NEW seen, TakeBack(p, seen)
        PROVE  active' \in [Payments -> BOOLEAN] /\ refused' \subseteq Payments
    <3>1. active' \in [Payments -> BOOLEAN]
      BY <2>3 DEF TakeBack, TakeBackRefused, OtherRows
    <3>2. refused' \subseteq Payments
      BY <2>3 DEF TakeBack, TakeBackRefused, Refunds, Voids, OtherRows
    <3> QED BY <3>1, <3>2
  <2>4. proc[w] # Idle => proc[w].p \in Payments \cup {NoPayment}
    BY DEF ProcOK, Jobs
  <2>5. active' \in [Payments -> BOOLEAN] /\ refused' \subseteq Payments
    <3>1. CASE PrepareFails(w) \/ FinishFails(w)
      <4>1. TakeBack(proc[w].p, proc[w].seen) /\ proc[w].at \in {"preparing", "accepted"}
        BY <3>1 DEF PrepareFails, FinishFails
      <4>2. proc[w] # Idle
        BY <4>1 DEF Idle
      <4> QED BY <2>3, <2>4, <4>1, <4>2
    <3>2. CASE PrepareStops(w)
      <4>1. TakeBackRefused(proc[w].p, proc[w].seen) /\ proc[w].at = "preparing"
        BY <3>2 DEF PrepareStops
      <4>2. proc[w] # Idle
        BY <4>1 DEF Idle
      <4> QED BY <2>3, <2>4, <4>1, <4>2 DEF TakeBack
    <3>3. CASE ChargeAccepted(w) \/ ChargeCancelled(w)
      BY <3>3 DEF ChargeAccepted, ChargeCancelled, OtherRows
    <3>4. CASE UNCHANGED <<pay, active, captured, ongoing, refused>>
      BY <3>4 DEF OtherRows
    <3> QED BY <1>6, <3>1, <3>2, <3>3, <3>4, StepMoney
  <2> QED BY <1>6, <2>1, <2>2, <2>5 DEF OtherRows
<1> QED BY <1>1, <1>2, <1>3, <1>4, <1>5, <1>6 DEF Next, Work

\* What TypeOK follows from.
TypeInv ==
  /\ ProcOK /\ OrderInv /\ increased \in [Checkouts -> BOOLEAN] /\ PayOK
  /\ UseRows /\ OtherRows /\ Sole /\ Fresh /\ Counted

\* TypeOK follows from an inductive invariant.
LEMMA CompletionInvInit == Init => TypeInv
<1> SUFFICES ASSUME Init PROVE TypeInv
  OBVIOUS
<1>1. ProcOK /\ OrderInv /\ increased \in [Checkouts -> BOOLEAN] /\ PayOK
  BY DEF Init, ProcOK, OrderInv, OrderRows, OneOrder, PayOK, Statuses
<1>2. UseRows /\ OtherRows
  BY CheckoutsAssumption DEF Init, UseRows, OtherRows
<1>3. Sole /\ Fresh /\ Counted
  BY DEF Init, Sole, Fresh, Counted
<1> QED BY <1>1, <1>2, <1>3 DEF TypeInv

\* Every step keeps the inductive invariant of the types.
LEMMA CompletionInvKept == TypeInv /\ [Next]_vars => TypeInv'
BY ProcOKKept, FlagsKept, OrderInvKept, PayOKKept, FreshKept, UsesKept, OtherRowsKept
   DEF TypeInv

\* Every column keeps its type, for any number of workers, checkouts and
\* payments and both flows: the counter of the voucher is never given back
\* more often than it was taken.
THEOREM CompletionTypeOKAlways == Spec => []TypeOK
<1>1. TypeInv => TypeOK
  BY DEF TypeInv, TypeOK, ProcOK, OrderInv, OrderRows, PayOK, UseRows, OtherRows
<1> QED BY <1>1, CompletionInvInit, CompletionInvKept, PTL DEF Spec

-----------------------------------------------------------------------------
(* Money.                                                                  *)

\* What giving a payment back does to it, and to no other.
LEMMA TakenBack ==
  ASSUME PayOK, NEW p \in Payments, NEW seen, TakeBack(p, seen)
  PROVE  /\ \A q \in Payments : q # p =>
              /\ pay'[q] = pay[q] /\ captured'[q] = captured[q]
              /\ ongoing'[q] = ongoing[q]
         /\ refused \subseteq refused'
         /\ \/ UNCHANGED captured
            \/ /\ captured' = [captured EXCEPT ![p] = 0] /\ captured[p] > 0
               /\ UNCHANGED <<ongoing, refused>>
         /\ ongoing[p] > 0 => ongoing'[p] > 0
         /\ seen = "charged" /\ ongoing[p] = 0 /\ captured[p] > 0
            => captured'[p] = 0 \/ ongoing'[p] > 0 \/ p \in refused'
<1>1. captured[p] \in Nat /\ ongoing[p] \in Nat
  BY DEF PayOK
<1>2. CASE ~Refunds(p, seen) /\ ~Voids(p, seen)
           /\ UNCHANGED <<pay, active, captured, ongoing, refused>>
  BY <1>1, <1>2, CheckoutsAssumption DEF Refunds, NoPayment
<1>3. CASE /\ Refunds(p, seen)
           /\ pay' = [pay EXCEPT ![p] = "refunded"]
           /\ captured' = [captured EXCEPT ![p] = 0]
           /\ UNCHANGED <<ongoing, refused>>
  <2>1. captured'[p] = 0 /\ captured[p] > 0
    BY <1>1, <1>3 DEF Refunds, PayOK
  <2>2. \A q \in Payments : q # p => pay'[q] = pay[q] /\ captured'[q] = captured[q]
    BY <1>3 DEF PayOK
  <2> QED BY <1>3, <2>1, <2>2
<1>4. CASE /\ Refunds(p, seen)
           /\ ongoing' = [ongoing EXCEPT ![p] = captured[p]]
           /\ UNCHANGED <<pay, active, captured, refused>>
  <2>1. ongoing'[p] > 0
    BY <1>1, <1>4 DEF Refunds, PayOK
  <2>2. \A q \in Payments : q # p => ongoing'[q] = ongoing[q]
    BY <1>4 DEF PayOK
  <2> QED BY <1>4, <2>1, <2>2
<1>5. CASE /\ Voids(p, seen)
           /\ pay' = [pay EXCEPT ![p] = IF @ = "authorized" THEN "voided" ELSE @]
           /\ UNCHANGED <<captured, ongoing, refused>>
  <2>1. \A q \in Payments : q # p => pay'[q] = pay[q]
    BY <1>5 DEF PayOK
  <2> QED BY <1>5, <2>1 DEF Voids
<1>6. CASE TakeBackRefused(p, seen)
  BY <1>6 DEF TakeBackRefused
<1> QED BY <1>2, <1>3, <1>4, <1>5, <1>6 DEF TakeBack

\* Money is touched by a worker that has the payment in hand, while the
\* payment's checkout is there.
LEMMA InHand ==
  ASSUME TypeInv, Held, Locked, NEW w \in Workers, Step(w)
  PROVE  \/ UNCHANGED <<pay, active, captured, ongoing, refused>>
         \/ /\ proc[w] \in Jobs /\ proc[w] # Idle
            /\ proc[w].p \in Payments /\ proc[w].k = CheckoutOf[proc[w].p]
            /\ open[proc[w].k] /\ UNCHANGED open
            /\ \/ /\ TakeBack(proc[w].p, proc[w].seen)
                  /\ proc' = [proc EXCEPT ![w] = Idle]
               \/ ChargeAccepted(w)
               \/ ChargeCancelled(w)
<1> USE DEF TypeInv
<1>1. ASSUME proc[w].at \in {"preparing", "reserved", "accepted"}
      PROVE  /\ proc[w] \in Jobs /\ proc[w] # Idle
             /\ proc[w].p \in Payments \cup {NoPayment}
             /\ proc[w].p # NoPayment => /\ proc[w].p \in Payments
                                         /\ proc[w].k = CheckoutOf[proc[w].p]
             /\ proc[w].at = "preparing" => open[proc[w].k]
  <2>1. proc[w] # Idle
    BY <1>1 DEF Idle
  <2>2. proc[w] \in Jobs
    BY <2>1 DEF ProcOK
  <2>3. proc[w].p \in Payments \cup {NoPayment}
    BY <2>2 DEF Jobs
  <2>4. Holds(proc[w])
    BY <2>1 DEF Held
  <2>5. proc[w].at = "preparing" => open[proc[w].k]
    BY <2>1 DEF Locked
  <2> QED BY <2>1, <2>2, <2>3, <2>4, <2>5 DEF Holds
<1>2. ASSUME proc[w].p = NoPayment, TakeBack(proc[w].p, proc[w].seen)
      PROVE  UNCHANGED <<pay, active, captured, ongoing, refused>>
  BY <1>2 DEF TakeBack, TakeBackRefused, Refunds, Voids
<1>3. CASE PrepareFails(w)
  <2>1. /\ proc[w].at = "preparing" /\ TakeBack(proc[w].p, proc[w].seen)
        /\ proc' = [proc EXCEPT ![w] = Idle] /\ UNCHANGED open
    BY <1>3 DEF PrepareFails, Leave
  <2> QED BY <1>1, <1>2, <2>1
<1>4. CASE FinishFails(w)
  <2>1. /\ proc[w].at = "accepted" /\ TakeBack(proc[w].p, proc[w].seen)
        /\ proc' = [proc EXCEPT ![w] = Idle] /\ open[proc[w].k] /\ UNCHANGED open
    BY <1>4 DEF FinishFails, Leave
  <2> QED BY <1>1, <1>2, <2>1
<1>5. CASE PrepareStops(w)
  <2>1. /\ proc[w].at = "preparing" /\ TakeBackRefused(proc[w].p, proc[w].seen)
        /\ proc' = [proc EXCEPT ![w] = Idle] /\ UNCHANGED open
    BY <1>5 DEF PrepareStops
  <2>2. TakeBack(proc[w].p, proc[w].seen)
    BY <2>1 DEF TakeBack
  <2> QED BY <1>1, <1>2, <2>1, <2>2
<1>6. CASE ChargeAccepted(w) \/ ChargeCancelled(w)
  <2>1. /\ proc[w].at = "reserved" /\ open[proc[w].k] /\ proc[w].p # NoPayment
        /\ UNCHANGED open
    BY <1>6 DEF ChargeAccepted, ChargeCancelled, Charging
  <2> QED BY <1>1, <1>6, <2>1
<1> QED BY <1>3, <1>4, <1>5, <1>6, StepMoney

\* An acceptance charges its payment or leaves what is captured as it was.
LEMMA AcceptedMoney ==
  ASSUME ProcOK, PayOK, NEW w \in Workers, ChargeAccepted(w)
  PROVE  /\ \A q \in Payments : q # proc[w].p =>
              /\ pay'[q] = pay[q] /\ captured'[q] = captured[q]
         /\ UNCHANGED <<ongoing, refused>>
         /\ \/ UNCHANGED captured
            \/ /\ captured' = [captured EXCEPT ![proc[w].p] = @ + 1]
               /\ proc'[w] # Idle /\ proc'[w].at = "accepted"
               /\ proc'[w].k = proc[w].k /\ proc'[w].p = proc[w].p
               /\ proc'[w].seen = "charged"
<1>1. PICK answer \in Accepting, job \in Jobs :
        /\ Charging(w, answer)
        /\ pay' = [pay EXCEPT ![proc[w].p] = After(@, answer)]
        /\ captured' = [captured EXCEPT ![proc[w].p] =
                          IF answer = "captured" THEN @ + 1 ELSE @]
        /\ proc' = [proc EXCEPT ![w] = job]
        /\ job.at = "accepted" /\ job.k = proc[w].k /\ job.p = proc[w].p
        /\ job.seen = After(pay[proc[w].p], answer)
  BY Accepted
<1>2. \A q \in Payments : q # proc[w].p => pay'[q] = pay[q] /\ captured'[q] = captured[q]
  BY <1>1 DEF PayOK
<1>3. UNCHANGED <<ongoing, refused>>
  BY DEF ChargeAccepted
<1>4. CASE answer = "captured"
  <2>1. captured' = [captured EXCEPT ![proc[w].p] = @ + 1]
    BY <1>1, <1>4
  <2>2. proc'[w] = job /\ job.seen = "charged"
    BY <1>1, <1>4 DEF ProcOK, After
  <2>3. job # Idle
    BY <1>1 DEF Jobs, Idle
  <2> QED BY <1>1, <1>2, <1>3, <2>1, <2>2, <2>3
<1>5. CASE answer # "captured"
  <2>1. UNCHANGED captured
    BY <1>1, <1>5 DEF PayOK
  <2> QED BY <1>2, <1>3, <2>1
<1> QED BY <1>4, <1>5

\* Checkouts that are gone do not come back.
LEMMA ClosedStays ==
  ASSUME OrderInv, [Next]_vars, NEW k \in Checkouts, open'[k]
  PROVE  open[k]
<1>1. CASE UNCHANGED vars \/ Request \/ Pay \/ Time \/ Die
  BY <1>1 DEF vars, Request, Pay, Time, Die, StartPreparing, Load, NewPayment,
     LockLapses, HoldRemoved, Crash
<1>2. ASSUME NEW w \in Workers, Step(w) PROVE open[k]
  BY <1>2, StepCloses DEF OrderInv, OrderRows
<1> QED BY <1>1, <1>2 DEF Next, Work

\* What disturbs a completion is not forgotten.
LEMMA DisturbedGrows ==
  ASSUME TypeInv, Held, Locked, [Next]_vars
  PROVE  /\ contested \subseteq contested' /\ abandoned \subseteq abandoned'
         /\ refused \subseteq refused'
         /\ \A p \in Payments : ongoing[p] > 0 => ongoing'[p] > 0
<1>1. contested \subseteq contested' /\ abandoned \subseteq abandoned'
  BY DEF Next, vars, Request, Pay, Die, Time, Work, StartPreparing, Load, NewPayment,
     Crash, LockLapses, HoldRemoved
<1>2. CASE UNCHANGED vars \/ Request \/ Pay \/ Time \/ Die
  <2>1. UNCHANGED <<ongoing, refused>>
    BY <1>2 DEF vars, Request, Pay, Time, Die, StartPreparing, Load, NewPayment,
       LockLapses, HoldRemoved, Crash
  <2> QED BY <1>1, <2>1
<1>3. ASSUME NEW w \in Workers, Step(w)
      PROVE  /\ refused \subseteq refused'
             /\ \A p \in Payments : ongoing[p] > 0 => ongoing'[p] > 0
  <2>1. CASE UNCHANGED <<ongoing, refused>>
    BY <2>1
  <2>2. CASE proc[w].p \in Payments /\ TakeBack(proc[w].p, proc[w].seen)
    BY <2>2, TakenBack DEF TypeInv
  <2>3. CASE ChargeAccepted(w) \/ ChargeCancelled(w)
    BY <2>1, <2>3 DEF ChargeAccepted, ChargeCancelled
  <2> QED BY <1>3, <2>1, <2>2, <2>3, InHand
<1> QED BY <1>1, <1>2, <1>3 DEF Next, Work

\* What ChargedAccounted follows from.
MoneyInv == TypeInv /\ Held /\ Locked /\ ChargedAccounted

\* Who saw the money captured holds on to its job until it is accounted for.
LEMMA ChargedKept ==
  ASSUME MoneyInv, [Next]_vars
  PROVE  ChargedAccounted'
<1> USE DEF MoneyInv, TypeInv
<1> SUFFICES ASSUME NEW p \in Payments, captured'[p] > 0, ongoing'[p] = 0,
                    open'[CheckoutOf[p]], CheckoutOf[p] \notin abandoned',
                    p \notin refused'
             PROVE  \E w \in InFlight(CheckoutOf[p])' :
                      /\ proc'[w].at = "accepted" /\ proc'[w].p = p
                      /\ proc'[w].seen = "charged"
  BY DEF ChargedAccounted
<1> DEFINE k == CheckoutOf[p]
<1>1. k \in Checkouts /\ open[k]
  BY ClosedStays, CheckoutsAssumption
<1>2. \A w : w \in InFlight(k)' <=> w \in Workers /\ proc'[w] # Idle /\ proc'[w].k = k
  BY DEF InFlight
<1>9. k \notin abandoned /\ p \notin refused /\ ongoing[p] = 0
  <2>1. k \notin abandoned /\ p \notin refused /\ ~(ongoing[p] > 0)
    BY DisturbedGrows
  <2> QED BY <2>1 DEF PayOK
<1>3. ASSUME NEW w \in Workers, proc[w] # Idle, proc[w].k = k, proc[w].at = "accepted",
             proc[w].p = p, proc[w].seen = "charged", proc'[w] = proc[w]
      PROVE  \E v \in InFlight(k)' : /\ proc'[v].at = "accepted" /\ proc'[v].p = p
                                     /\ proc'[v].seen = "charged"
  BY <1>2, <1>3
<1>4. ASSUME captured[p] > 0
      PROVE  \E w \in Workers : /\ proc[w] # Idle /\ proc[w].k = k
                                /\ proc[w].at = "accepted" /\ proc[w].p = p
                                /\ proc[w].seen = "charged"
  BY <1>1, <1>4, <1>9 DEF ChargedAccounted, InFlight
<1>5. CASE UNCHANGED vars \/ Pay \/ Time
  <2>1. UNCHANGED <<proc, captured>>
    BY <1>5 DEF vars, Pay, Time, NewPayment, LockLapses, HoldRemoved
  <2> QED BY <1>3, <1>4, <2>1
<1>6. CASE Request
  <2>1. UNCHANGED captured
    BY <1>6 DEF Request, StartPreparing, Load
  <2>2. PICK v \in Workers : /\ proc[v] = Idle
                             /\ \A w \in Workers : w # v => proc'[w] = proc[w]
    <3>1. PICK v \in Workers, j \in Checkouts :
            \E job \in Jobs : proc[v] = Idle /\ proc' = [proc EXCEPT ![v] = job]
      BY <1>6, RequestMoves
    <3> QED BY <3>1 DEF ProcOK
  <2> QED BY <1>3, <1>4, <2>1, <2>2
<1>7. CASE Die
  <2>1. PICK v \in Workers : Crash(v)
    BY <1>7 DEF Die
  <2>2. /\ UNCHANGED captured /\ proc[v].k # k
        /\ \A w \in Workers : w # v => proc'[w] = proc[w]
    BY <2>1 DEF Crash, ProcOK
  <2> QED BY <1>3, <1>4, <2>2
<1>8. ASSUME NEW v \in Workers, Step(v)
      PROVE  \E w \in InFlight(k)' : /\ proc'[w].at = "accepted" /\ proc'[w].p = p
                                     /\ proc'[w].seen = "charged"
  <2>1. \A w \in Workers : w # v => proc'[w] = proc[w]
    BY <1>8, StepMoves DEF ProcOK
  <2>2. ASSUME captured[p] > 0, proc[v] # Idle, proc[v].k = k, proc[v].at = "accepted",
               proc[v].p = p, proc[v].seen = "charged"
        PROVE  FALSE
    <3>1. Finish(v) \/ FinishRefunding(v) \/ FinishFails(v) \/ AlreadyOrdered(v)
      BY <1>8, <2>2 DEF Step, Prepare, PrepareFails, PrepareRefused, PrepareStops,
         Charging, ChargeAccepted, ChargeNeedsConfirmation, ChargeCancelled, ChargeFails,
         AwaitConfirmation, VoucherRefused, CheckVoucher, CountVoucher,
         OrderFromCheckout, OrderFromCheckoutFails
    <3>2. CASE Finish(v)
      BY <1>1, <2>2, <3>2 DEF Finish, PlaceOrder, OrderInv, OrderRows
    <3>3. CASE FinishRefunding(v)
      BY <1>9, <2>2, <3>3 DEF FinishRefunding
    <3>4. CASE FinishFails(v)
      <4>1. TakeBack(p, "charged")
        BY <2>2, <3>4 DEF FinishFails
      <4>2. captured'[p] = 0 \/ ongoing'[p] > 0 \/ p \in refused'
        BY <1>9, <2>2, <4>1, TakenBack
      <4> QED BY <4>2
    <3>5. CASE AlreadyOrdered(v)
      BY <1>1, <2>2, <3>5 DEF AlreadyOrdered
    <3> QED BY <3>1, <3>2, <3>3, <3>4, <3>5
  <2>3. CASE captured[p] > 0
    <3>1. PICK w \in Workers : /\ proc[w] # Idle /\ proc[w].k = k
                               /\ proc[w].at = "accepted" /\ proc[w].p = p
                               /\ proc[w].seen = "charged"
      BY <1>4, <2>3
    <3>2. w # v
      BY <2>2, <2>3, <3>1
    <3> QED BY <1>3, <2>1, <3>1, <3>2
  <2>4. CASE ~(captured[p] > 0)
    <3>1. captured'[p] # captured[p]
      BY <2>4
    <3>2. /\ proc[v].p \in Payments /\ proc[v].k = CheckoutOf[proc[v].p]
          /\ TakeBack(proc[v].p, proc[v].seen) \/ ChargeAccepted(v) \/ ChargeCancelled(v)
      BY <1>8, <3>1, InHand
    <3>3. ~ChargeCancelled(v)
      BY <3>1 DEF ChargeCancelled
    <3>4. ~TakeBack(proc[v].p, proc[v].seen)
      <4> SUFFICES ASSUME TakeBack(proc[v].p, proc[v].seen) PROVE FALSE
        OBVIOUS
      <4>1. proc[v].p = p
        BY <3>1, <3>2, TakenBack
      <4>2. captured' = [captured EXCEPT ![p] = 0] /\ captured[p] > 0
        BY <3>1, <3>2, <4>1, TakenBack
      <4> QED BY <2>4, <4>2
    <3>5. ChargeAccepted(v)
      BY <3>2, <3>3, <3>4
    <3>6. proc[v].p = p
      BY <3>1, <3>5, AcceptedMoney
    <3>7. /\ proc'[v] # Idle /\ proc'[v].at = "accepted" /\ proc'[v].k = k
          /\ proc'[v].p = p /\ proc'[v].seen = "charged"
      BY <3>1, <3>2, <3>5, <3>6, AcceptedMoney
    <3> QED BY <1>2, <3>7
  <2> QED BY <2>3, <2>4
<1> QED BY <1>5, <1>6, <1>7, <1>8 DEF Next, Work

\* Money that was captured for a checkout is with its order, being given back,
\* or in the hands of a worker that knows of it, unless one died with it or
\* the gateway refused to give it back: for any number of workers and
\* payments, both flows, and every answer of the gateway.
THEOREM ChargedAccountedAlways == Spec => []ChargedAccounted
<1>1. Init => MoneyInv
  <2>1. Init => Held /\ Locked /\ ChargedAccounted
    BY DEF Init, Held, Locked, ChargedAccounted
  <2>2. Init => TypeInv
    BY CompletionInvInit
  <2> QED BY <2>1, <2>2 DEF MoneyInv
<1>2. MoneyInv /\ [Next]_vars => MoneyInv'
  BY CompletionInvKept, HeldKept, LockedKept, ChargedKept DEF MoneyInv, TypeInv
<1>3. MoneyInv => ChargedAccounted
  BY DEF MoneyInv
<1> QED BY <1>1, <1>2, <1>3, PTL DEF Spec

-----------------------------------------------------------------------------
(* Where one worker completes a checkout at a time.                        *)

\* A checkout that is not contested has one worker at most.
Alone ==
  \A v, w \in Workers :
    /\ proc[v] # Idle /\ proc[w] # Idle
    /\ proc[v].k = proc[w].k /\ proc[v].k \notin contested
    => v = w

\* No worker is in the transaction flow.
PaymentOnly ==
  \A w \in Workers :
    proc[w] # Idle => proc[w].at \in {"preparing", "reserved", "accepted", "unconfirmed"}

\* Who comes second to a checkout makes it contested.
LEMMA AloneKept ==
  ASSUME TypeInv, Alone, [Next]_vars
  PROVE  Alone'
<1> USE DEF TypeInv
<1>1. CASE UNCHANGED vars \/ Pay \/ Time
  <2>1. UNCHANGED <<proc, contested>>
    BY <1>1 DEF vars, Pay, Time, NewPayment, LockLapses, HoldRemoved
  <2> QED BY <2>1 DEF Alone
<1>2. CASE Die
  <2>1. PICK w \in Workers : proc' = [proc EXCEPT ![w] = Idle] /\ UNCHANGED contested
    BY <1>2 DEF Die, Crash
  <2> QED BY <2>1 DEF Alone, ProcOK
<1>3. CASE Request
  <2>1. PICK w \in Workers, k \in Checkouts :
          \E job \in Jobs :
            /\ proc[w] = Idle /\ proc' = [proc EXCEPT ![w] = job] /\ job.k = k
            /\ contested' = IF InFlight(k) # {} THEN contested \cup {k} ELSE contested
    BY <1>3, RequestMoves
  <2>2. proc'[w].k = k /\ \A v \in Workers : v # w => proc'[v] = proc[v]
    BY <2>1 DEF ProcOK
  <2>3. \A v \in Workers : v # w /\ proc[v] # Idle /\ proc[v].k = k => k \in contested'
    BY <2>1 DEF InFlight
  <2>4. contested \subseteq contested'
    BY <2>1
  <2> QED BY <2>2, <2>3, <2>4 DEF Alone
<1>4. ASSUME NEW w \in Workers, Step(w), UNCHANGED contested
      PROVE  Alone'
  <2>1. PICK job \in {Idle} \cup Jobs :
          /\ proc' = [proc EXCEPT ![w] = job]
          /\ job # Idle => proc[w] \in Jobs /\ job.k = proc[w].k
    BY <1>4, StepMoves
  <2>2. proc'[w] = job /\ \A v \in Workers : v # w => proc'[v] = proc[v]
    BY <2>1 DEF ProcOK
  <2>3. job # Idle => proc[w] # Idle
    BY <2>1 DEF Jobs, Idle
  <2> QED BY <1>4, <2>1, <2>2, <2>3 DEF Alone
<1> QED BY <1>1, <1>2, <1>3, <1>4 DEF Next, Work

\* Without the transaction flow no worker gets into one of its stages.
LEMMA PaymentOnlyKept ==
  ASSUME "transaction" \notin Flows, TypeInv, PaymentOnly, [Next]_vars
  PROVE  PaymentOnly'
<1> USE DEF TypeInv
<1>1. CASE UNCHANGED vars \/ Pay \/ Time
  <2>1. UNCHANGED proc
    BY <1>1 DEF vars, Pay, Time, NewPayment, LockLapses, HoldRemoved
  <2> QED BY <2>1 DEF PaymentOnly
<1>2. CASE Die
  BY <1>2 DEF Die, Crash, PaymentOnly, ProcOK
<1>3. CASE Request
  <2>1. PICK w \in Workers, k \in Checkouts :
          \E job \in Jobs :
            /\ proc' = [proc EXCEPT ![w] = job]
            /\ \/ job.at = "preparing"
               \/ job.at = "loaded" /\ "transaction" \in Flows
    BY <1>3, RequestMoves
  <2> QED BY <2>1 DEF PaymentOnly, ProcOK
<1>4. ASSUME NEW w \in Workers, Step(w)
      PROVE  PaymentOnly'
  <2>1. PICK job \in {Idle} \cup Jobs :
          /\ proc' = [proc EXCEPT ![w] = job]
          /\ job # Idle => \/ job.at \in {"reserved", "accepted", "unconfirmed"}
                           \/ proc[w] \in Jobs /\ CheckVoucher(w)
                           \/ proc[w] \in Jobs /\ CountVoucher(w)
    BY <1>4, StepMoves
  <2>2. proc[w] \in Jobs => ~CheckVoucher(w) /\ ~CountVoucher(w)
    BY DEF PaymentOnly, CheckVoucher, CountVoucher, Jobs, Idle
  <2>3. proc'[w] = job /\ \A v \in Workers : v # w => proc'[v] = proc[v]
    BY <2>1 DEF ProcOK
  <2> QED BY <2>1, <2>2, <2>3 DEF PaymentOnly
<1> QED BY <1>1, <1>2, <1>3, <1>4 DEF Next, Work

-----------------------------------------------------------------------------
(* Purchase.                                                               *)

\* What the refinement needs to know of the state.
PurchaseInv == MoneyInv /\ Alone

\* Where no money moves and no order is placed, Purchase is disturbed or idle.
LEMMA DisturbImplements ==
  ASSUME PurchaseInv, [Next]_vars, UNCHANGED <<open, captured>>
  PROVE  [P!Next]_(P!vars)
<1>1. UNCHANGED <<Ordered, captured>>
  BY DEF Ordered
<1>2. Disturbed \subseteq Disturbed'
  BY DisturbedGrows DEF Disturbed, PurchaseInv, MoneyInv
<1>3. Disturbed' \in SUBSET Payments /\ Disturbed' = Disturbed \cup Disturbed'
  BY <1>2 DEF Disturbed
<1>4. P!Disturb
  <2> DEFINE ps == Disturbed'
  <2>1. ps \in SUBSET Payments /\ Disturbed' = Disturbed \cup ps
    BY <1>3
  <2> HIDE DEF ps
  <2> QED BY <1>1, <2>1 DEF P!Disturb
<1> QED BY <1>4 DEF P!Next

\* Placing an order is a step of Purchase.
LEMMA PlaceOrderImplements ==
  ASSUME OrderInv, NEW k \in Checkouts, open[k], PlaceOrder(k),
         UNCHANGED <<captured, ongoing, refused, contested, abandoned>>
  PROVE  P!Next
<1>1. k \notin Ordered /\ UNCHANGED <<captured, Disturbed>>
  BY DEF Ordered, Disturbed
<1>2. Ordered' = Ordered \cup {k}
  BY DEF Ordered, PlaceOrder, OrderInv, OrderRows
<1> QED BY <1>1, <1>2 DEF P!Next, P!Place

\* A payment that nothing disturbed is not captured a second time: the first
\* is with a worker, who would be the one that completes the checkout.
LEMMA NotTwice ==
  ASSUME PurchaseInv, NEW w \in Workers, ChargeAccepted(w)
  PROVE  captured[proc[w].p] = 0 \/ proc[w].p \in Disturbed
<1> USE DEF PurchaseInv, MoneyInv, TypeInv
<1> DEFINE p == proc[w].p
           k == CheckoutOf[p]
<1>1. proc[w].at = "reserved" /\ open[proc[w].k]
  BY DEF ChargeAccepted, Charging
<1>2. proc[w] # Idle
  BY <1>1 DEF Idle
<1>3. p \in Payments /\ proc[w].k = k
  BY <1>1, <1>2 DEF Held, Holds, ProcOK, Jobs
<1> SUFFICES ASSUME captured[p] # 0, p \notin Disturbed PROVE FALSE
  OBVIOUS
<1>4. /\ captured[p] > 0 /\ ongoing[p] = 0 /\ open[k]
      /\ k \notin abandoned /\ k \notin contested /\ p \notin refused
  BY <1>1, <1>3 DEF Disturbed, PayOK
<1>5. PICK v \in Workers : proc[v] # Idle /\ proc[v].k = k /\ proc[v].at = "accepted"
  BY <1>3, <1>4 DEF ChargedAccounted, InFlight
<1>6. v = w
  BY <1>2, <1>3, <1>4, <1>5 DEF Alone
<1> QED BY <1>1, <1>5, <1>6

\* Every step is a step of Purchase or changes nothing that Purchase sees.
LEMMA StepImplements ==
  ASSUME PurchaseInv, [Next]_vars
  PROVE  [P!Next]_(P!vars)
<1>1. CASE UNCHANGED <<open, captured>>
  BY <1>1, DisturbImplements
<1>2. CASE UNCHANGED vars \/ Request \/ Pay \/ Time \/ Die
  BY <1>1, <1>2 DEF vars, Request, Pay, Time, Die, StartPreparing, Load, NewPayment,
     LockLapses, HoldRemoved, Crash
<1>3. ASSUME NEW w \in Workers, Step(w), UNCHANGED <<contested, abandoned>>
      PROVE  [P!Next]_(P!vars)
  <2>1. CASE Finish(w) \/ OrderFromCheckout(w)
    <3>1. /\ proc[w] # Idle /\ open[proc[w].k] /\ PlaceOrder(proc[w].k)
          /\ UNCHANGED <<captured, ongoing, refused>>
      BY <2>1 DEF Finish, OrderFromCheckout, Idle
    <3>2. proc[w].k \in Checkouts
      BY <3>1, JobOfWorker DEF PurchaseInv, MoneyInv, TypeInv
    <3> QED BY <1>3, <3>1, <3>2, PlaceOrderImplements
            DEF PurchaseInv, MoneyInv, TypeInv
  <2>2. CASE UNCHANGED <<pay, active, captured, ongoing, refused>>
             /\ ~Finish(w) /\ ~OrderFromCheckout(w)
    <3>1. UNCHANGED open
      BY <1>3, <2>2 DEF Step, Prepare, VoucherRefused, PrepareFails, PrepareRefused,
         PrepareStops, Charging, ChargeAccepted, ChargeNeedsConfirmation,
         ChargeCancelled, ChargeFails, AwaitConfirmation, FinishRefunding,
         FinishFails, CheckVoucher, CountVoucher, OrderFromCheckoutFails,
         AlreadyOrdered, Return
    <3> QED BY <1>1, <2>2, <3>1
  <2>3. CASE /\ proc[w].p \in Payments /\ proc[w].k = CheckoutOf[proc[w].p]
             /\ open[proc[w].k] /\ UNCHANGED open
             /\ \/ TakeBack(proc[w].p, proc[w].seen)
                \/ ChargeAccepted(w)
                \/ ChargeCancelled(w)
    <3> DEFINE p == proc[w].p
    <3>1. p \in Payments /\ CheckoutOf[p] \notin Ordered /\ UNCHANGED Ordered
      BY <2>3 DEF Ordered
    <3>2. PayOK /\ ProcOK
      BY DEF PurchaseInv, MoneyInv, TypeInv
    <3>3. CASE UNCHANGED captured
      BY <1>1, <2>3, <3>3
    <3>4. CASE TakeBack(p, proc[w].seen) /\ captured' # captured
      <4>1. /\ captured' = [captured EXCEPT ![p] = 0] /\ captured[p] > 0
            /\ UNCHANGED <<ongoing, refused>>
        BY <2>3, <3>2, <3>4, TakenBack
      <4>2. UNCHANGED Disturbed
        BY <1>3, <4>1 DEF Disturbed
      <4> HIDE DEF p
      <4> QED BY <3>1, <4>1, <4>2 DEF P!Next, P!GiveBack
    <3>5. CASE ChargeAccepted(w) /\ captured' # captured
      <4>1. captured' = [captured EXCEPT ![p] = @ + 1] /\ UNCHANGED <<ongoing, refused>>
        BY <3>2, <3>5, AcceptedMoney
      <4>2. UNCHANGED Disturbed
        BY <1>3, <4>1 DEF Disturbed
      <4>3. captured[p] = 0 \/ p \in Disturbed
        BY <3>5, NotTwice
      <4> HIDE DEF p
      <4> QED BY <3>1, <4>1, <4>2, <4>3 DEF P!Next, P!Take
    <3>6. CASE ChargeCancelled(w)
      BY <3>3, <3>6 DEF ChargeCancelled
    <3> QED BY <2>3, <3>3, <3>4, <3>5, <3>6
  <2> QED BY <1>3, <2>1, <2>2, <2>3, InHand DEF PurchaseInv, MoneyInv
<1> QED BY <1>2, <1>3 DEF Next, Work

\* Completion implements Purchase: no checkout is ordered twice, money moves
\* only before that, and is captured a second time only when two workers met
\* over the checkout, one died, or a refund was refused or is under way: in any
\* interleaving of both flows, for every answer of the gateway.
THEOREM PurchaseImplemented == Spec => ImplementsPurchase
<1>1. Init => PurchaseInv
  <2>1. Init => Held /\ Locked /\ Alone /\ ChargedAccounted
    BY DEF Init, Held, Locked, Alone, ChargedAccounted
  <2>2. Init => TypeInv
    BY CompletionInvInit
  <2> QED BY <2>1, <2>2 DEF PurchaseInv, MoneyInv
<1>2. PurchaseInv /\ [Next]_vars => PurchaseInv'
  BY CompletionInvKept, HeldKept, LockedKept, ChargedKept, AloneKept
     DEF PurchaseInv, MoneyInv, TypeInv
<1>3. Init => P!Init
  BY DEF Init, P!Init, Ordered, Disturbed
<1>4. PurchaseInv /\ [Next]_vars => [P!Next]_(P!vars)
  BY StepImplements
<1> QED BY <1>1, <1>2, <1>3, <1>4, PTL DEF Spec, ImplementsPurchase, P!Spec

-----------------------------------------------------------------------------
(* The payment of an order, in the payment flow.                           *)

\* What a payment is that the gateway accepted, and whether it can be asked.
Good == {"confirmed", "authorized", "pending", "charged"}

ActiveOK == \A p \in Payments : active[p] => pay[p] \in {"new"} \cup Good

\* A payment is made inactive no later than it is given back.
LEMMA ActiveOKKept ==
  ASSUME TypeInv, ActiveOK, [Next]_vars
  PROVE  ActiveOK'
<1> USE DEF TypeInv
<1>1. ASSUME UNCHANGED <<pay, active>> PROVE ActiveOK'
  BY <1>1 DEF ActiveOK
<1>2. ASSUME NEW q \in Payments \cup {NoPayment}, NEW seen, TakeBack(q, seen)
      PROVE  ActiveOK'
  <2>1. CASE UNCHANGED <<pay, active>>
    BY <1>1, <2>1
  <2>2. CASE /\ pay' = [pay EXCEPT ![q] = "refunded"]
             /\ active' = [active EXCEPT ![q] = FALSE]
    BY <2>2 DEF ActiveOK, PayOK, OtherRows
  <2>3. CASE /\ pay' = [pay EXCEPT ![q] = IF @ = "authorized" THEN "voided" ELSE @]
             /\ active' = [active EXCEPT ![q] = FALSE]
    BY <2>3 DEF ActiveOK, PayOK, OtherRows
  <2> QED BY <1>2, <2>1, <2>2, <2>3 DEF TakeBack, TakeBackRefused
<1>3. CASE UNCHANGED vars \/ Request \/ Time \/ Die
  BY <1>1, <1>3 DEF vars, Request, Time, Die, StartPreparing, Load, LockLapses,
     HoldRemoved, Crash
<1>4. CASE Pay
  <2>1. PICK k \in Checkouts, q \in Payments : NewPayment(k, q)
    BY <1>4 DEF Pay
  <2>2. ASSUME NEW p \in Payments, active'[p]
        PROVE  pay'[p] \in {"new"} \cup Good
    <3>1. p = q \/ active[p]
      BY <2>1, <2>2 DEF NewPayment
    <3> QED BY <2>1, <3>1 DEF NewPayment, ActiveOK, PayOK
  <2> QED BY <2>2 DEF ActiveOK
<1>5. ASSUME NEW w \in Workers, Step(w) PROVE ActiveOK'
  <2>1. CASE PrepareFails(w) \/ FinishFails(w)
    <3>1. TakeBack(proc[w].p, proc[w].seen) /\ proc[w].at \in {"preparing", "accepted"}
      BY <2>1 DEF PrepareFails, FinishFails
    <3>2. proc[w].p \in Payments \cup {NoPayment}
      BY <3>1 DEF ProcOK, Jobs, Idle
    <3> QED BY <1>2, <3>1, <3>2
  <2>2. CASE ChargeAccepted(w)
    <3>1. PICK answer \in Accepting, job \in Jobs :
            /\ Charging(w, answer)
            /\ pay' = [pay EXCEPT ![proc[w].p] = After(@, answer)]
      BY <2>2, Accepted
    <3>2. active[proc[w].p] /\ UNCHANGED active /\ proc[w].p \in Payments
      BY <2>2, <3>1, Accepted DEF Charging, ChargeAccepted
    <3>3. pay[proc[w].p] \in {"new"} \cup Good
      BY <3>2 DEF ActiveOK
    <3>4. After(pay[proc[w].p], answer) \in Good
      BY <3>3 DEF After, Good, Accepting
    <3> QED BY <3>1, <3>2, <3>4 DEF ActiveOK, PayOK
  <2>3. CASE ChargeCancelled(w)
    BY <2>3 DEF ChargeCancelled, ActiveOK, PayOK, OtherRows
  <2>4. CASE PrepareStops(w)
    BY <1>1, <2>4 DEF PrepareStops, TakeBackRefused
  <2>5. CASE UNCHANGED <<pay, active, captured, ongoing, refused>>
    BY <1>1, <2>5
  <2> QED BY <1>5, <2>1, <2>2, <2>3, <2>4, <2>5, StepMoney
<1> QED BY <1>3, <1>4, <1>5 DEF Next, Work

\* A step changes the payment of its job alone, while the checkout is there.
LEMMA StepPays ==
  ASSUME TypeInv, Held, Locked, NEW w \in Workers, Step(w),
         NEW p \in Payments, pay'[p] # pay[p] \/ ongoing'[p] # ongoing[p]
  PROVE  proc[w] # Idle /\ proc[w].k = CheckoutOf[p] /\ open[proc[w].k]
<1>1. /\ proc[w] # Idle /\ proc[w].p \in Payments
      /\ proc[w].k = CheckoutOf[proc[w].p] /\ open[proc[w].k]
      /\ \/ TakeBack(proc[w].p, proc[w].seen) \/ ChargeAccepted(w)
         \/ ChargeCancelled(w)
  BY InHand
<1>2. PayOK /\ ProcOK
  BY DEF TypeInv
<1>3. proc[w].p = p
  <2>1. CASE TakeBack(proc[w].p, proc[w].seen)
    BY <1>1, <1>2, <2>1, TakenBack
  <2>2. CASE ChargeAccepted(w)
    BY <1>2, <2>2, AcceptedMoney
  <2>3. CASE ChargeCancelled(w)
    <3>1. pay' = [pay EXCEPT ![proc[w].p] = "cancelled"] /\ UNCHANGED ongoing
      BY <2>3 DEF ChargeCancelled
    <3> QED BY <1>2, <3>1 DEF PayOK
  <2> QED BY <1>1, <2>1, <2>2, <2>3
<1> QED BY <1>1, <1>3

\* What a worker was told is accepted still is when it makes the order.
Through ==
  \A w \in Workers :
    /\ proc[w] # Idle /\ proc[w].at = "accepted" /\ proc[w].k \notin contested
    => pay[proc[w].p] \in Good

\* What OrderIsPaid follows from, in the payment flow.
PaidInv ==
  /\ TypeInv /\ Held /\ Locked /\ Alone /\ PaymentOnly /\ ActiveOK /\ Through
  /\ OrderIsPaid

\* Nobody takes the payment of a worker that completes a checkout alone.
LEMMA ThroughKept ==
  ASSUME PaidInv, [Next]_vars
  PROVE  Through'
<1> USE DEF PaidInv, TypeInv
<1> SUFFICES ASSUME NEW w \in Workers, proc'[w] # Idle, proc'[w].at = "accepted",
                    proc'[w].k \notin contested'
             PROVE  pay'[proc'[w].p] \in Good
  BY DEF Through
<1>1. contested \subseteq contested'
  BY DisturbedGrows
<1>2. ASSUME proc'[w] = proc[w]
      PROVE  /\ pay[proc[w].p] \in Good
             /\ proc[w].p \in Payments /\ proc[w].k = CheckoutOf[proc[w].p]
  <2>1. pay[proc[w].p] \in Good
    BY <1>1, <1>2 DEF Through
  <2>2. proc[w] \in Jobs /\ Holds(proc[w])
    BY <1>2 DEF ProcOK, Held
  <2> QED BY <1>2, <2>1, <2>2 DEF Jobs, Holds
<1>3. CASE UNCHANGED vars \/ Time
  <2>1. UNCHANGED <<proc, pay>>
    BY <1>3 DEF vars, Time, LockLapses, HoldRemoved
  <2> QED BY <1>2, <2>1
<1>4. CASE Pay
  <2>1. PICK q \in Payments : pay[q] = "absent" /\ pay' = [pay EXCEPT ![q] = "new"]
    BY <1>4 DEF Pay, NewPayment
  <2>2. UNCHANGED proc
    BY <1>4 DEF Pay, NewPayment
  <2>3. proc[w].p # q
    BY <1>2, <2>1, <2>2 DEF Good
  <2> QED BY <1>2, <2>1, <2>2, <2>3 DEF PayOK
<1>5. CASE Die
  <2>1. PICK v \in Workers : proc' = [proc EXCEPT ![v] = Idle] /\ UNCHANGED pay
    BY <1>5 DEF Die, Crash
  <2>2. proc'[w] = proc[w]
    BY <2>1 DEF ProcOK
  <2> QED BY <1>2, <2>1, <2>2
<1>6. CASE Request
  <2>1. PICK v \in Workers, k \in Checkouts :
          \E job \in Jobs : /\ proc' = [proc EXCEPT ![v] = job]
                            /\ job.at \in {"preparing", "loaded"}
    BY <1>6, RequestMoves
  <2>2. proc'[w] = proc[w]
    BY <2>1 DEF ProcOK
  <2>3. UNCHANGED pay
    BY <1>6 DEF Request, StartPreparing, Load
  <2> QED BY <1>2, <2>2, <2>3
<1>7. ASSUME NEW v \in Workers, Step(v), UNCHANGED contested
      PROVE  pay'[proc'[w].p] \in Good
  <2>1. CASE v # w
    <3>1. proc'[w] = proc[w]
      BY <1>7, <2>1, StepMoves DEF ProcOK
    <3>2. pay'[proc[w].p] = pay[proc[w].p]
      <4> SUFFICES ASSUME pay'[proc[w].p] # pay[proc[w].p] PROVE FALSE
        OBVIOUS
      <4>1. proc[v] # Idle /\ proc[v].k = proc[w].k
        BY <1>2, <1>7, <3>1, StepPays
      <4> QED BY <1>7, <2>1, <3>1, <4>1 DEF Alone
    <3> QED BY <1>2, <3>1, <3>2
  <2>2. CASE v = w
    <3>1. PICK job \in {Idle} \cup Jobs :
           /\ proc' = [proc EXCEPT ![w] = job]
           /\ job # Idle =>
                /\ proc[w] \in Jobs /\ job.k = proc[w].k /\ job.p = proc[w].p
                /\ \/ job.at = "reserved" /\ Prepare(w)
                   \/ job.at = "accepted" /\ ChargeAccepted(w)
                   \/ job.at = "unconfirmed" /\ ChargeNeedsConfirmation(w)
                   \/ job.at = "checked" /\ CheckVoucher(w)
                   \/ job.at = "counted" /\ CountVoucher(w)
      BY <1>7, <2>2, StepMoves
    <3>2. proc'[w] = job
      BY <3>1 DEF ProcOK
    <3>3. ChargeAccepted(w) /\ job.p = proc[w].p
      BY <3>1, <3>2
    <3>4. PICK answer \in Accepting, next \in Jobs :
            /\ Charging(w, answer)
            /\ pay' = [pay EXCEPT ![proc[w].p] = After(@, answer)]
      BY <3>3, Accepted
    <3>5. proc[w].p \in Payments /\ active[proc[w].p]
      BY <3>3, <3>4, Accepted DEF Charging
    <3>6. After(pay[proc[w].p], answer) \in Good
      BY <3>5 DEF ActiveOK, After, Good, Accepting
    <3>7. pay'[proc[w].p] \in Good
      BY <3>4, <3>5, <3>6 DEF PayOK
    <3> QED BY <3>2, <3>3, <3>7
  <2> QED BY <2>1, <2>2
<1> QED BY <1>3, <1>4, <1>5, <1>6, <1>7 DEF Next, Work

\* An order is placed by a worker whose payment was accepted, and the payment
\* stays as it is.
LEMMA OrderIsPaidKept ==
  ASSUME PaidInv, [Next]_vars
  PROVE  OrderIsPaid'
<1> USE DEF PaidInv, TypeInv
<1> SUFFICES ASSUME NEW k \in Checkouts, k \notin contested', ~open'[k]
             PROVE  \E p \in Payments : /\ CheckoutOf[p] = k /\ ongoing'[p] = 0
                                        /\ pay'[p] \in Good
  BY DEF OrderIsPaid, Good
<1>1. k \notin contested
  BY DisturbedGrows
<1>2. ~open[k] => \E p \in Payments : /\ CheckoutOf[p] = k /\ ongoing[p] = 0
                                      /\ pay[p] \in Good
  BY <1>1 DEF OrderIsPaid, Good
<1>3. CASE UNCHANGED vars \/ Request \/ Time \/ Die
  <2>1. UNCHANGED <<open, pay, ongoing>>
    BY <1>3 DEF vars, Request, Time, Die, StartPreparing, Load, LockLapses,
       HoldRemoved, Crash
  <2> QED BY <1>2, <2>1
<1>4. CASE Pay
  <2>1. PICK q \in Payments : pay[q] = "absent" /\ pay' = [pay EXCEPT ![q] = "new"]
    BY <1>4 DEF Pay, NewPayment
  <2>2. UNCHANGED <<open, ongoing>>
    BY <1>4 DEF Pay, NewPayment
  <2>3. PICK p \in Payments : CheckoutOf[p] = k /\ ongoing[p] = 0 /\ pay[p] \in Good
    BY <1>2, <2>2
  <2>4. p # q
    BY <2>1, <2>3 DEF Good
  <2> QED BY <2>1, <2>2, <2>3, <2>4 DEF PayOK
<1>5. ASSUME NEW w \in Workers, Step(w)
      PROVE  \E p \in Payments : /\ CheckoutOf[p] = k /\ ongoing'[p] = 0
                                 /\ pay'[p] \in Good
  <2>1. CASE ~open[k]
    <3>1. PICK p \in Payments : CheckoutOf[p] = k /\ ongoing[p] = 0 /\ pay[p] \in Good
      BY <1>2, <2>1
    <3>2. pay'[p] = pay[p] /\ ongoing'[p] = ongoing[p]
      BY <1>5, <2>1, <3>1, StepPays
    <3> QED BY <3>1, <3>2
  <2>2. CASE open[k]
    <3>1. Finish(w) \/ OrderFromCheckout(w)
      BY <1>5, <2>2 DEF Step, Prepare, VoucherRefused, PrepareFails, PrepareRefused, PrepareStops,
         Charging, ChargeAccepted, ChargeNeedsConfirmation, ChargeCancelled,
         ChargeFails, AwaitConfirmation, FinishRefunding, FinishFails, CheckVoucher,
         CountVoucher, OrderFromCheckoutFails, AlreadyOrdered, Return
    <3>2. Finish(w)
      BY <3>1 DEF PaymentOnly, OrderFromCheckout, Idle
    <3>3. /\ proc[w].at = "accepted" /\ ongoing[proc[w].p] = 0
          /\ UNCHANGED <<pay, ongoing>>
          /\ open' = [open EXCEPT ![proc[w].k] = FALSE]
      BY <3>2 DEF Finish, PlaceOrder
    <3>4. proc[w] # Idle /\ proc[w].k = k
      BY <2>2, <3>3 DEF Idle, OrderInv, OrderRows
    <3>5. pay[proc[w].p] \in Good
      BY <1>1, <3>3, <3>4 DEF Through
    <3>6. proc[w].p \in Payments /\ CheckoutOf[proc[w].p] = k
      BY <3>3, <3>4 DEF ProcOK, Jobs, Held, Holds
    <3> QED BY <3>3, <3>5, <3>6
  <2> QED BY <2>1, <2>2
<1> QED BY <1>3, <1>4, <1>5 DEF Next, Work

\* In the payment flow an order whose checkout no two workers completed at a
\* time stands on a payment that the gateway accepted (captured, authorised,
\* confirmed or put off) and that is not given back since: for any number of
\* workers, payments and retries, and every answer of the gateway.
THEOREM OrderIsPaidAlways ==
  ASSUME "transaction" \notin Flows
  PROVE  Spec => []OrderIsPaid
<1>1. Init => PaidInv
  <2>1. Init => Held /\ Locked /\ Alone /\ PaymentOnly /\ ActiveOK /\ Through
    BY DEF Init, Held, Locked, Alone, PaymentOnly, ActiveOK, Through
  <2>2. Init => OrderIsPaid
    BY DEF Init, OrderIsPaid
  <2> QED BY <2>1, <2>2, CompletionInvInit DEF PaidInv
<1>2. PaidInv /\ [Next]_vars => PaidInv'
  <2> SUFFICES ASSUME PaidInv, [Next]_vars PROVE PaidInv'
    OBVIOUS
  <2>1. TypeInv' /\ Held' /\ Locked'
    BY CompletionInvKept, HeldKept, LockedKept DEF PaidInv, TypeInv
  <2>2. Alone' /\ PaymentOnly' /\ ActiveOK'
    BY AloneKept, PaymentOnlyKept, ActiveOKKept DEF PaidInv
  <2>3. Through' /\ OrderIsPaid'
    BY ThroughKept, OrderIsPaidKept
  <2> QED BY <2>1, <2>2, <2>3 DEF PaidInv
<1>3. PaidInv => OrderIsPaid
  BY DEF PaidInv
<1> QED BY <1>1, <1>2, <1>3, PTL DEF Spec

-----------------------------------------------------------------------------
(* The usage of the voucher.                                               *)

\* A worker past its preparation has the usage counted.
Counting ==
  \A w \in Workers :
    /\ proc[w] # Idle /\ proc[w].at \in {"reserved", "accepted", "unconfirmed"}
    /\ proc[w].k \in Discounted \ contested
    => increased[proc[w].k]

\* What UsageAccounted follows from, in the payment flow.
UsageInv ==
  /\ TypeInv /\ Locked /\ Alone /\ PaymentOnly /\ Counting /\ UsageAccounted

\* What a step of the payment flow does to the usage.
LEMMA StepUses ==
  ASSUME "cancelled" \notin Answers, TypeInv, Locked, PaymentOnly, NEW w \in Workers, Step(w)
  PROVE  \/ UNCHANGED <<increased, uses>>
         \/ /\ proc[w] # Idle /\ open[proc[w].k] /\ UNCHANGED open
            /\ increased' = [increased EXCEPT ![proc[w].k] = FALSE]
            /\ uses' = [uses EXCEPT ![proc[w].k] = @ - 1]
            /\ increased[proc[w].k]
            /\ proc' = [proc EXCEPT ![w] = Idle]
         \/ /\ proc[w] # Idle /\ open[proc[w].k] /\ UNCHANGED open
            /\ increased' = [increased EXCEPT ![proc[w].k] = TRUE]
            /\ uses' = [uses EXCEPT ![proc[w].k] = @ + 1]
            /\ ~increased[proc[w].k]
            /\ Prepare(w)
<1> USE DEF TypeInv
<1>1. ASSUME NEW flag \in BOOLEAN, proc[w] # Idle, flag = increased[proc[w].k],
             Release(proc[w].k, flag, TRUE), UNCHANGED open, open[proc[w].k],
             proc' = [proc EXCEPT ![w] = Idle]
      PROVE  \/ UNCHANGED <<increased, uses>>
             \/ /\ proc[w] # Idle /\ open[proc[w].k] /\ UNCHANGED open
                /\ increased' = [increased EXCEPT ![proc[w].k] = FALSE]
                /\ uses' = [uses EXCEPT ![proc[w].k] = @ - 1]
                /\ increased[proc[w].k]
                /\ proc' = [proc EXCEPT ![w] = Idle]
  <2>1. CASE flag
    <3>1. increased' = [increased EXCEPT ![proc[w].k] = FALSE]
      BY <1>1, <2>1 DEF Release
    <3>2. uses' = [uses EXCEPT ![proc[w].k] = @ - 1]
      BY <1>1, <2>1 DEF Release
    <3> QED BY <1>1, <2>1, <3>1, <3>2
  <2>2. CASE ~flag
    <3>1. /\ increased' = [increased EXCEPT ![proc[w].k] = @]
          /\ uses' = [uses EXCEPT ![proc[w].k] = @]
      BY <1>1, <2>2 DEF Release
    <3>2. UNCHANGED <<increased, uses>>
      BY <3>1 DEF UseRows
    <3> QED BY <3>2
  <2> QED BY <2>1, <2>2
<1>2. proc[w] # Idle => /\ proc[w].flag \in BOOLEAN /\ proc[w].k \in Checkouts
                        /\ increased[proc[w].k] \in BOOLEAN
  BY DEF ProcOK, Jobs
<1>3. CASE Prepare(w)
  <2> DEFINE counts == proc[w].k \in Discounted /\ ~proc[w].flag
  <2>1. /\ increased' = [increased EXCEPT ![proc[w].k] = @ \/ counts]
        /\ uses' = [uses EXCEPT ![proc[w].k] = IF counts THEN @ + 1 ELSE @]
        /\ UNCHANGED open
    BY <1>3 DEF Prepare
  <2>2. proc[w].at = "preparing"
    BY <1>3 DEF Prepare
  <2>3. proc[w] # Idle
    BY <2>2 DEF Idle
  <2>4. open[proc[w].k] /\ proc[w].flag = increased[proc[w].k]
    BY <2>2, <2>3 DEF Locked, Fresh
  <2>5. CASE counts
    <3>1. ~increased[proc[w].k]
      BY <2>4, <2>5
    <3> HIDE DEF counts
    <3>2. increased' = [increased EXCEPT ![proc[w].k] = TRUE]
      BY <2>1, <2>5
    <3>3. uses' = [uses EXCEPT ![proc[w].k] = @ + 1]
      BY <2>1, <2>5
    <3> QED BY <1>3, <2>1, <2>3, <2>4, <3>1, <3>2, <3>3
  <2>6. CASE ~counts
    <3> HIDE DEF counts
    <3>1. uses' = [uses EXCEPT ![proc[w].k] = @]
      BY <2>1, <2>6
    <3>2. increased' = increased
      BY <1>2, <2>1, <2>3, <2>6
    <3> QED BY <3>1, <3>2 DEF UseRows
  <2> QED BY <2>5, <2>6
<1>4. CASE PrepareFails(w)
  <2>1. /\ proc[w].at = "preparing" /\ UNCHANGED open
        /\ proc' = [proc EXCEPT ![w] = Idle]
        /\ UNCHANGED <<increased, uses>> \/ Release(proc[w].k, proc[w].flag, TRUE)
    BY <1>4 DEF PrepareFails, Leave
  <2>2. proc[w] # Idle
    BY <2>1 DEF Idle
  <2>3. open[proc[w].k] /\ proc[w].flag = increased[proc[w].k]
    BY <2>1, <2>2 DEF Locked, Fresh
  <2> QED BY <1>1, <1>2, <2>1, <2>2, <2>3
<1>5. CASE AwaitConfirmation(w) \/ FinishFails(w)
  <2>1. /\ proc[w].at \in {"accepted", "unconfirmed"} /\ UNCHANGED open /\ open[proc[w].k]
        /\ proc' = [proc EXCEPT ![w] = Idle]
        /\ Release(proc[w].k, increased[proc[w].k], TRUE)
    BY <1>5 DEF AwaitConfirmation, FinishFails, Leave
  <2>2. proc[w] # Idle
    BY <2>1 DEF Idle
  <2> QED BY <1>1, <1>2, <2>1, <2>2
<1>6. ~ChargeCancelled(w) /\ ~CountVoucher(w)
  <2>1. ~ChargeCancelled(w)
    BY DEF ChargeCancelled, Charging
  <2>2. proc[w].at # "counted" /\ proc[w].at # "checked"
    BY DEF PaymentOnly, Idle
  <2>3. ~CountVoucher(w)
    BY <2>2 DEF CountVoucher
  <2> QED BY <2>1, <2>3
<1>7. CASE \/ PrepareRefused(w) \/ PrepareStops(w) \/ ChargeAccepted(w) \/ ChargeNeedsConfirmation(w)
           \/ ChargeFails(w) \/ Finish(w) \/ FinishRefunding(w)
           \/ CheckVoucher(w) \/ OrderFromCheckout(w)
           \/ OrderFromCheckoutFails(w) \/ AlreadyOrdered(w) \/ VoucherRefused(w)
  BY <1>7 DEF PrepareRefused, PrepareStops, ChargeAccepted, ChargeNeedsConfirmation, ChargeFails,
     Charging, Finish, FinishRefunding, CheckVoucher, VoucherRefused,
     OrderFromCheckout, OrderFromCheckoutFails, AlreadyOrdered, Return
<1> QED BY <1>3, <1>4, <1>5, <1>6, <1>7 DEF Step

\* The mark of a worker that completes a checkout alone stays set.
LEMMA CountingKept ==
  ASSUME "cancelled" \notin Answers, UsageInv, [Next]_vars
  PROVE  Counting'
<1> USE DEF UsageInv, TypeInv
<1> SUFFICES ASSUME NEW w \in Workers, proc'[w] # Idle,
                    proc'[w].at \in {"reserved", "accepted", "unconfirmed"},
                    proc'[w].k \in Discounted \ contested'
             PROVE  increased'[proc'[w].k]
  BY DEF Counting
<1>1. contested \subseteq contested'
  BY DEF Next, vars, Request, Pay, Die, Time, Work, StartPreparing, Load, NewPayment,
     Crash, LockLapses, HoldRemoved
<1>2. ASSUME proc'[w] = proc[w] PROVE increased[proc[w].k] /\ proc[w].k \in Checkouts
  BY <1>1, <1>2, JobOfWorker DEF Counting
<1>3. CASE UNCHANGED vars \/ Time \/ Pay
  <2>1. UNCHANGED <<proc, increased>>
    BY <1>3 DEF vars, Time, Pay, NewPayment, LockLapses, HoldRemoved
  <2> QED BY <1>2, <2>1
<1>4. CASE Die
  <2>1. PICK v \in Workers : proc' = [proc EXCEPT ![v] = Idle] /\ UNCHANGED increased
    BY <1>4 DEF Die, Crash
  <2>2. proc'[w] = proc[w]
    BY <2>1 DEF ProcOK
  <2> QED BY <1>2, <2>1, <2>2
<1>5. CASE Request
  <2>1. PICK v \in Workers, k \in Checkouts :
          \E job \in Jobs : /\ proc' = [proc EXCEPT ![v] = job]
                            /\ job.at \in {"preparing", "loaded"}
    BY <1>5, RequestMoves
  <2>2. proc'[w] = proc[w]
    BY <2>1 DEF ProcOK
  <2>3. UNCHANGED increased
    BY <1>5 DEF Request, StartPreparing, Load
  <2> QED BY <1>2, <2>2, <2>3
<1>6. ASSUME NEW v \in Workers, Step(v), UNCHANGED contested
      PROVE  increased'[proc'[w].k]
  <2>1. CASE v # w
    <3>1. proc'[w] = proc[w]
      BY <1>6, <2>1, StepMoves DEF ProcOK
    <3>2. proc[v] # Idle => proc[v].k # proc[w].k
      BY <1>6, <2>1, <3>1 DEF Alone
    <3>3. increased'[proc[w].k] = increased[proc[w].k]
      BY <1>2, <1>6, <3>1, <3>2, StepUses
    <3> QED BY <1>2, <3>1, <3>3
  <2>2. CASE v = w
    <3>1. PICK job \in {Idle} \cup Jobs :
           /\ proc' = [proc EXCEPT ![w] = job]
           /\ job # Idle =>
                /\ proc[w] \in Jobs /\ job.k = proc[w].k /\ job.p = proc[w].p
                /\ \/ job.at = "reserved" /\ Prepare(w)
                   \/ job.at = "accepted" /\ ChargeAccepted(w)
                   \/ job.at = "unconfirmed" /\ ChargeNeedsConfirmation(w)
                   \/ job.at = "checked" /\ CheckVoucher(w)
                   \/ job.at = "counted" /\ CountVoucher(w)
      BY <1>6, <2>2, StepMoves
    <3>2. proc'[w] = job
      BY <3>1 DEF ProcOK
    <3>3. /\ proc[w] \in Jobs /\ proc'[w].k = proc[w].k
          /\ Prepare(w) \/ ChargeAccepted(w) \/ ChargeNeedsConfirmation(w)
      BY <3>1, <3>2
    <3>4. proc[w] # Idle /\ proc[w].k \in Discounted \ contested /\ proc[w].k \in Checkouts
      BY <1>6, <3>3 DEF Jobs, Idle
    <3>5. CASE ChargeAccepted(w) \/ ChargeNeedsConfirmation(w)
      <4>1. proc[w].at = "reserved" /\ UNCHANGED increased
        BY <3>5 DEF ChargeAccepted, ChargeNeedsConfirmation, Charging
      <4> QED BY <3>3, <3>4, <4>1 DEF Counting
    <3>6. CASE Prepare(w)
      <4>1. proc[w].at = "preparing"
        BY <3>6 DEF Prepare
      <4>2. proc[w].flag = increased[proc[w].k]
        BY <3>4, <4>1 DEF Fresh
      <4>3. increased' = [increased EXCEPT
                            ![proc[w].k] = @ \/ (proc[w].k \in Discounted /\ ~proc[w].flag)]
        BY <3>6 DEF Prepare
      <4>4. increased'[proc[w].k] =
              (increased[proc[w].k] \/ (proc[w].k \in Discounted /\ ~proc[w].flag))
        BY <3>4, <4>3
      <4> QED BY <3>3, <3>4, <4>2, <4>4
    <3> QED BY <3>3, <3>5, <3>6
  <2> QED BY <2>1, <2>2
<1> QED BY <1>3, <1>4, <1>5, <1>6 DEF Next, Work

\* Counting and giving back go with the mark, and the order keeps the usage.
LEMMA UsageAccountedKept ==
  ASSUME "cancelled" \notin Answers, UsageInv, [Next]_vars
  PROVE  UsageAccounted'
<1> USE DEF UsageInv, TypeInv
<1> SUFFICES ASSUME NEW k \in Discounted, k \notin contested'
             PROVE  uses'[k] = IF ~open'[k] \/ increased'[k] THEN 1 ELSE 0
  BY DEF UsageAccounted
<1>1. k \in Checkouts /\ k \notin contested
  BY CheckoutsAssumption DEF Next, vars, Request, Pay, Die, Time, Work, StartPreparing,
     Load, NewPayment, Crash, LockLapses, HoldRemoved
<1>2. uses[k] = IF ~open[k] \/ increased[k] THEN 1 ELSE 0
  BY <1>1 DEF UsageAccounted
<1>3. CASE UNCHANGED vars \/ Request \/ Time \/ Pay \/ Die
  <2>1. UNCHANGED <<open, uses, increased>>
    BY <1>3 DEF vars, Request, Time, Pay, Die, StartPreparing, Load, NewPayment,
       LockLapses, HoldRemoved, Crash
  <2> QED BY <1>2, <2>1
<1>4. ASSUME NEW w \in Workers, Step(w), UNCHANGED contested
      PROVE  uses'[k] = IF ~open'[k] \/ increased'[k] THEN 1 ELSE 0
  <2>1. CASE UNCHANGED <<increased, uses>> /\ open'[k] = open[k]
    BY <1>2, <2>1
  <2>2. CASE UNCHANGED <<increased, uses>> /\ open'[k] # open[k]
    <3>1. Finish(w) \/ OrderFromCheckout(w)
      BY <1>4, <2>2 DEF Step, Prepare, VoucherRefused, PrepareFails, PrepareRefused, PrepareStops,
         Charging, ChargeAccepted, ChargeNeedsConfirmation, ChargeCancelled,
         ChargeFails, AwaitConfirmation, FinishRefunding, FinishFails, CheckVoucher,
         CountVoucher, OrderFromCheckoutFails, AlreadyOrdered, Return
    <3>2. Finish(w)
      BY <3>1 DEF PaymentOnly, OrderFromCheckout, Idle
    <3>3. proc[w].at = "accepted" /\ open' = [open EXCEPT ![proc[w].k] = FALSE]
      BY <3>2 DEF Finish, PlaceOrder
    <3>4. proc[w] # Idle
      BY <3>3 DEF Idle
    <3>5. proc[w].k = k
      <4> SUFFICES ASSUME proc[w].k # k PROVE open'[k] = open[k]
        BY <2>2
      <4> QED BY <1>1, <3>3 DEF OrderInv, OrderRows
    <3>6. increased[k]
      BY <1>1, <3>3, <3>4, <3>5 DEF Counting
    <3>7. ~open'[k]
      BY <1>1, <3>3, <3>5 DEF OrderInv, OrderRows
    <3> QED BY <1>2, <2>2, <3>6, <3>7
  <2>3. CASE proc[w].k # k
    <3>1. uses'[k] = uses[k] /\ increased'[k] = increased[k]
      <4>1. CASE UNCHANGED <<increased, uses>>
        BY <4>1
      <4>2. ASSUME NEW b, NEW n,
                   increased' = [increased EXCEPT ![proc[w].k] = b],
                   uses' = [uses EXCEPT ![proc[w].k] = n]
            PROVE  uses'[k] = uses[k] /\ increased'[k] = increased[k]
        BY <1>1, <2>3, <4>2 DEF UseRows
      <4> QED BY <1>4, <4>1, <4>2, StepUses
    <3>2. CASE UNCHANGED open
      BY <1>2, <3>1, <3>2
    <3>3. CASE UNCHANGED <<increased, uses>>
      BY <2>1, <2>2, <3>3
    <3> QED BY <1>4, <3>2, <3>3, StepUses
  <2>4. ASSUME open[k], UNCHANGED open, increased[k], proc[w].k = k,
               increased' = [increased EXCEPT ![k] = FALSE],
               uses' = [uses EXCEPT ![k] = @ - 1]
        PROVE  uses'[k] = IF ~open'[k] \/ increased'[k] THEN 1 ELSE 0
    <3>1. ~increased'[k] /\ open'[k]
      BY <1>1, <2>4
    <3>2. uses'[k] = 0
      BY <1>1, <1>2, <2>4 DEF UseRows
    <3> QED BY <3>1, <3>2
  <2>5. ASSUME open[k], UNCHANGED open, ~increased[k], proc[w].k = k,
               increased' = [increased EXCEPT ![k] = TRUE],
               uses' = [uses EXCEPT ![k] = @ + 1]
        PROVE  uses'[k] = IF ~open'[k] \/ increased'[k] THEN 1 ELSE 0
    <3>1. increased'[k]
      BY <1>1, <2>5
    <3>2. uses'[k] = 1
      BY <1>1, <1>2, <2>5 DEF UseRows
    <3> QED BY <3>1, <3>2
  <2> QED BY <1>4, <2>1, <2>2, <2>3, <2>4, <2>5, StepUses
<1> QED BY <1>3, <1>4 DEF Next, Work

\* In the payment flow, where no payment ends inactive, the counter of the
\* voucher has one usage for each discounted checkout that was ordered or is
\* marked as counted and that no two workers completed at a time: for any
\* number of workers, retries, refusals and crashes.
THEOREM UsageAccountedAlways ==
  ASSUME "transaction" \notin Flows, "cancelled" \notin Answers
  PROVE  Spec => []UsageAccounted
<1>1. Init => UsageInv
  <2>1. Init => Locked /\ Alone /\ PaymentOnly /\ Counting
    BY DEF Init, Locked, Alone, PaymentOnly, Counting
  <2>2. Init => UsageAccounted
    BY CheckoutsAssumption DEF Init, UsageAccounted
  <2> QED BY <2>1, <2>2, CompletionInvInit DEF UsageInv
<1>2. UsageInv /\ [Next]_vars => UsageInv'
  <2> SUFFICES ASSUME UsageInv, [Next]_vars PROVE UsageInv'
    OBVIOUS
  <2>1. TypeInv' /\ Locked'
    BY CompletionInvKept, LockedKept DEF UsageInv, TypeInv
  <2>2. Alone' /\ PaymentOnly'
    BY AloneKept, PaymentOnlyKept DEF UsageInv
  <2>3. Counting' /\ UsageAccounted'
    BY CountingKept, UsageAccountedKept
  <2> QED BY <2>1, <2>2, <2>3 DEF UsageInv
<1>3. UsageInv => UsageAccounted
  BY DEF UsageInv
<1> QED BY <1>1, <1>2, <1>3, PTL DEF Spec
============================================================================
