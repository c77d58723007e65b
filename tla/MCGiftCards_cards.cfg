\* Two checkouts share two cards; two workers complete and edit.
SPECIFICATION FairSpec
CONSTANTS
  k1 = k1  k2 = k2  w1 = w1  w2 = w2
  Cards = {1, 2}
  Checkouts = {k1, k2}
  Price <- MCPrice
  Discount <- MCDiscount
  Flows = {"payment", "transaction"}
  FaceValues = {2}
  Workers = {w1, w2}
  MaxCalls = 5
CHECK_DEADLOCK FALSE
INVARIANTS
  TypeOK
  HistoryExplains
  PaidForOnce
PROPERTIES
  ExpiredEndsOff
