\* Counters and rows, and the nightly recount: two lines of one variant in one order,
\* two unlocked transactions.
SPECIFICATION FairSpec
CONSTANTS
  l1 = l1  l2 = l2  l3 = l3  o1 = o1  o2 = o2  c1 = c1  c2 = c2
  east = east  west = west  NoPoint = NoPoint
  Stocks = {1, 2}
  Variants = {"a"}
  Warehouses = {east, west}
  VariantOf <- MCVariantOf
  WarehouseOf <- MCWarehouseOf
  Lines = {l1, l2}
  Orders = {o1}
  LineVariant <- MCLineVariant
  OrderOf <- MCOrderOf
  CartLines = {}
  CartVariant <- MCCartVariant
  Scopes <- MCScopes
  Strategy = "PRIORITIZE_HIGH_STOCK"
  Rank <- MCRank
  Reservations = {FALSE}
  Exceeding = {FALSE, TRUE}
  SharedVariant = TRUE
  Workers = {1, 2}
  MaxRequest = 1
  QuantityCap = 2
  MaxCalls = 3
CHECK_DEADLOCK FALSE
INVARIANTS
  TypeOK
  CounterExact
PROPERTIES
  CountersRepaired
