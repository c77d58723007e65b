\* Two deliveries of one payload, or a transaction request.
SPECIFICATION FairSpec
CONSTANTS
  e1 = e1  e2 = e2  r1 = r1  p1 = p1  p2 = p2  w1 = w1  w2 = w2
  Deliveries = {e1, e2, r1}
  Requests = {r1}
  Payloads = {p1, p2}
  PayloadOf <- MCPayloadOf
  Touched = {e1, r1}
  Expiring = {p1}
  Workers = {w1, w2}
  MaxRetries = 1
  MaxManual = 1
  MaxEvents = 1
CHECK_DEADLOCK FALSE
INVARIANTS
  TypeOK
  PendingHasTask
  NeverDropped
  AttemptsBounded
  AnsweredOnce
  FailedIsLast
PROPERTIES
  Settles
  RequestSettles
