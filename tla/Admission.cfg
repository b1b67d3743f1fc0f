SPECIFICATION Spec
CONSTANTS
  m1 = m1
  Handlers = {h1, h2}
  Markets = {m1}
  Payloads <- BuyAndSell
  YesPrices <- TwoPrices
  MaxOrders = 3
  Asked = {"openOrders", "ordersLastMinute", "sellable", "cash", "openBuyNotional"}
  InitialBalance = 6
  MaxOrderValue = 3
  MaxPositionPerMarket = 20
  MaxTotalExposure = 20
  MaxOrdersPerMinute = 1
  MaxOpenOrders = 1
SYMMETRY Interchangeable
CHECK_DEADLOCK FALSE
INVARIANTS TypeOK OpenOrdersBounded AcceptedRateBounded
PROPERTIES AdmittedIsAffordable
