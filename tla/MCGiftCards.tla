----------------------------- MODULE MCGiftCards -----------------------------
(* Instances for TLC: a checkout k1 without a voucher, k2 with one.         *)
EXTENDS GiftCards

CONSTANTS k1, k2, w1, w2

MCPrice == [k \in Checkouts |-> 3]
MCDiscount == [k \in Checkouts |-> IF k = k1 THEN 0 ELSE 1]
=============================================================================
