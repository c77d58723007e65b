\* The payment flow: two checkouts with one voucher, retries and crashes.
SPECIFICATION Spec
CONSTANTS
  k1 = k1  k2 = k2  w1 = w1  w2 = w2
  Checkouts = {k1, k2}
  Discounted = {k1}
  Payments = {1, 2, 3}
  CheckoutOf <- MCCheckoutOf
  UsageLimit = 1
  Flows = {"payment"}
  Answers = {"captured", "authorized", "pending", "confirmed", "failed", "action_required"}
  Workers = {w1, w2}
  MaxCalls = 6
SYMMETRY MCSymmetry
CHECK_DEADLOCK FALSE
INVARIANTS
  OrderIsPaid
  UsageAccounted
