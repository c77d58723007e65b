\* One transaction request whose app answers 5xx.
SPECIFICATION Spec
CONSTANTS
  e1 = e1  e2 = e2  r1 = r1  p1 = p1  p2 = p2  w1 = w1  w2 = w2
  Deliveries = {r1}
  Requests = {r1}
  Payloads = {p2}
  PayloadOf <- MCPayloadOf
  Touched = {r1}
  Expiring = {}
  Workers = {w1}
  MaxRetries = 2
  MaxManual = 1
  MaxEvents = 1
CHECK_DEADLOCK FALSE
INVARIANTS
  SendsPayload
