\* Both flows, two workers on one checkout, every answer of the gateway.
SPECIFICATION Spec
CONSTANTS
  k1 = k1  k2 = k2  w1 = w1  w2 = w2
  Checkouts = {k1}
  Discounted = {k1}
  Payments = {1, 2}
  CheckoutOf <- MCCheckoutOf
  UsageLimit = 1
  Flows = {"payment", "transaction"}
  Answers = {"captured", "authorized", "pending", "confirmed", "failed", "action_required", "cancelled"}
  Workers = {w1, w2}
  MaxCalls = 6
SYMMETRY MCSymmetry
CHECK_DEADLOCK FALSE
INVARIANTS
  TypeOK
  OneOrder
  ChargedAccounted
PROPERTIES
  ImplementsPurchase
