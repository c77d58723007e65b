\* transactionUpdate between reports of every kind and requests of staff; the
\* second call may come while the first is served.
SPECIFICATION Spec
CONSTANTS
  r1 = r1  r2 = r2  w1 = w1  w2 = w2  NoRef = NoRef
  Refs = {r1}
  Amounts = {1, 2}
  Reports <- MCChargesAndRefunds
  Requests = {"charge"}
  Updates = {"authorization", "charge", "refund"}
  Sessions = {}
  Late = TRUE
  Workers = {w1, w2}
  MaxCalls = 3
  MaxCrowded = 2
SYMMETRY MCWorkers
CHECK_DEADLOCK FALSE
PROPERTIES
  UpdateSetsAmounts
