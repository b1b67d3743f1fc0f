SPECIFICATION FairTradingSpec
CONSTANTS
  m1 = m1
  None = None
  Teams = {t1}
  Markets = {m1}
  ClientKeys = {}
  Payloads <- BuyAndSellHigh
  YesPrices <- Prices
  Posts = {r1, r2, r3}
  Cancels = {}
  MaxOrderId = 3
  RoundMoves = {}
PROPERTY FillableOrdersClose
CHECK_DEADLOCK FALSE
