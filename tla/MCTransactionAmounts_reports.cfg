\* Reports, requests and their answers, sessions; two workers, who meet in the
\* first two calls only.
SPECIFICATION Spec
CONSTANTS
  r1 = r1  r2 = r2  w1 = w1  w2 = w2  NoRef = NoRef
  Refs = {r1, r2}
  Amounts = {1, 2}
  Reports <- MCPayments
  Requests = {"charge"}
  Updates = {}
  Sessions = {"charge"}
  Late = FALSE
  Workers = {w1, w2}
  MaxCalls = 4
  MaxCrowded = 2
SYMMETRY MCSymmetry
CHECK_DEADLOCK FALSE
INVARIANTS
  TypeOK
  AmountsFollowEventsAlone
  ReportedOnceAlone
  PendingIsOpen
