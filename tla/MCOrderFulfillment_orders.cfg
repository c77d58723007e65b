\* One line of two pieces, up to three fulfillments, two requests at a time.
SPECIFICATION Spec
CONSTANTS
  l1 = l1  w1 = w1  w2 = w2  f1 = f1  f2 = f2  f3 = f3
  Lines = {l1}
  Slots = {f1, f2, f3}
  Workers = {w1, w2}
  Ordered = 2
  InStock = 4
  Promised = 1
  Charge = 2
  AutoConfirm = FALSE
  MaxCalls = 4
  MaxCrowded = 2
SYMMETRY MCSymmetry
CHECK_DEADLOCK FALSE
INVARIANTS
  TypeOK
  PiecesAddUp
  OpenPiecesAllocated
  NothingLost
  StockCovers
  RefundedWithinCharge
  RefundedOnce
  FulfilledIsDone
