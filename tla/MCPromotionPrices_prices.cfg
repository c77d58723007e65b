SPECIFICATION FairSpec
CONSTANTS
  Rules = {1, 2}
  Products = {p}
  Predicates <- MCPredicates
  Prices <- MCPrices
  Rewards <- MCRewards
  Workers = {1, 2}
  MaxTime = 1
  MaxCalls = 2
INVARIANTS TypeOK QuietPricesRight DiscountOnRecord
PROPERTY Drains
