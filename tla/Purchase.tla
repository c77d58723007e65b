------------------------------ MODULE Purchase ------------------------------
(***************************************************************************)
(* What checkoutComplete promises, without its transactions, locks, flows  *)
(* and retries: a checkout is ordered once; its money is taken once, and   *)
(* again only when something disturbed the completion; it is given back    *)
(* whole; and it is left alone from then on that the checkout is ordered   *)
(* (captures and refunds of orders are other calls).                       *)
(***************************************************************************)
EXTENDS Naturals

CONSTANTS Checkouts, Payments, CheckoutOf

VARIABLES
  ordered,   \* checkouts that became an order
  held,      \* how often a payment's amount was taken and not given back
  disturbed  \* payments that a retry may take again

vars == <<ordered, held, disturbed>>

Init ==
  /\ ordered = {}
  /\ held = [p \in Payments |-> 0]
  /\ disturbed = {}

\* The customer's money is taken for a checkout that is not ordered yet.
Take(p) ==
  /\ CheckoutOf[p] \notin ordered
  /\ held[p] = 0 \/ p \in disturbed
  /\ held' = [held EXCEPT ![p] = @ + 1]
  /\ UNCHANGED <<ordered, disturbed>>

\* It is given back, because there will be no order.
GiveBack(p) ==
  /\ CheckoutOf[p] \notin ordered
  /\ held[p] > 0
  /\ held' = [held EXCEPT ![p] = 0]
  /\ UNCHANGED <<ordered, disturbed>>

Place(k) ==
  /\ k \notin ordered
  /\ ordered' = ordered \cup {k}
  /\ UNCHANGED <<held, disturbed>>

\* Two workers meet, one dies, or a refund is refused or put off.
Disturb ==
  /\ \E ps \in SUBSET Payments : disturbed' = disturbed \cup ps
  /\ UNCHANGED <<ordered, held>>

Next ==
  \/ \E p \in Payments : Take(p) \/ GiveBack(p)
  \/ \E k \in Checkouts : Place(k)
  \/ Disturb

Spec == Init /\ [][Next]_vars

=============================================================================
