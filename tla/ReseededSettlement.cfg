SPECIFICATION Spec
CONSTANTS
  MarketIds <- TwoMarkets
  Requests = {q1, q2, q3}
  Inputs <- SomeInputs
  Seeded = {1}
  FirstPath <- Path
  Certain = 100
  Limit = 50
  MaxHeld = 1
CHECK_DEADLOCK FALSE
PROPERTIES OpenMarketsAreNotSettled
