-------------------------- MODULE MCOrderFulfillment --------------------------
(* Instances for TLC: one line, two requests at a time.                     *)
EXTENDS OrderFulfillment, TLC

CONSTANTS l1, w1, w2, f1, f2, f3

MCSymmetry == Permutations({w1, w2}) \cup Permutations({f1, f2, f3})
=============================================================================
