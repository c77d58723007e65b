------------------------ MODULE MCCheckoutCompletion ------------------------
(* Instances for TLC: payments 1 and 2 are for checkout k1, 3 for k2.      *)
EXTENDS CheckoutCompletion, TLC

CONSTANTS k1, k2, w1, w2

MCCheckoutOf == [p \in Payments |-> IF p = 3 THEN k2 ELSE k1]
MCSymmetry == Permutations({w1, w2})
=============================================================================
