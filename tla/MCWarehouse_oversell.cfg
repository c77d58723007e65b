\* Promises and stock: two orders and two checkouts compete for two stocks.
SPECIFICATION Spec
CONSTANTS
  l1 = l1  l2 = l2  l3 = l3  o1 = o1  o2 = o2  c1 = c1  c2 = c2
  east = east  west = west  NoPoint = NoPoint
  Stocks = {1, 2}
  Variants = {"a"}
  Warehouses = {east, west}
  VariantOf <- MCVariantOf
  WarehouseOf <- MCWarehouseOf
  Lines = {l1, l3}
  Orders = {o1, o2}
  LineVariant <- MCLineVariant
  OrderOf <- MCOrderOf
  CartLines = {c1, c2}
  CartVariant <- MCCartVariant
  Scopes <- MCPointScopes
  Strategy = "PRIORITIZE_SORTING_ORDER"
  Rank <- MCRank
  Reservations = {FALSE}
  Exceeding = {FALSE}
  SharedVariant = FALSE
  Workers = {1}
  MaxRequest = 2
  QuantityCap = 2
  MaxCalls = 3
CHECK_DEADLOCK FALSE
PROPERTIES
  NoOversell
  NoOverReservation
