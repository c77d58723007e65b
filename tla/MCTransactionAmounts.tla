------------------------ MODULE MCTransactionAmounts ------------------------
(* Instances for TLC: one or two psp references, two workers.              *)
EXTENDS TransactionAmounts, TLC

CONSTANTS r1, r2, w1, w2

MCSymmetry == Permutations({w1, w2}) \cup Permutations({r1, r2})
MCWorkers == Permutations({w1, w2})

MCPayments == {<<"authorization", "success">>, <<"charge", "success">>,
               <<"charge", "failure">>, <<"charge", "request">>}
MCChargesAndRefunds ==
  {<<"authorization", "success">>, <<"authorization", "adjustment">>,
   <<"charge", "success">>, <<"refund", "success">>,
   <<"refund", "reverse">>, <<"charge", "back">>}
=============================================================================
