SPECIFICATION TradingSpec
CONSTANTS
  m1 = m1
  None = None
  Teams = {t1}
  Markets = {m1}
  ClientKeys = {}
  Payloads <- BuyAndSell
  YesPrices <- Prices
  Posts = {r1}
  Cancels = {c1}
  MaxOrderId = 1
  RoundMoves = {"active", "paused"}
SYMMETRY Interchangeable
INVARIANTS CanceledBeforeFill
CHECK_DEADLOCK FALSE
