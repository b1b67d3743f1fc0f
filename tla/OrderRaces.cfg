SPECIFICATION Spec
CONSTANTS
  m1 = m1
  None = None
  Teams = {t1}
  Markets = {m1}
  ClientKeys = {}
  Payloads <- BuyAndSell
  YesPrices <- Prices
  Posts = {r1, r2}
  Cancels = {c1}
  MaxOrderId = 2
  RoundMoves = {"active", "paused"}
SYMMETRY Interchangeable
INVARIANTS TypeOK SingleExecution FillsMatchStatus BooksBalance
PROPERTIES SettledOnce NoFillAfterCancel BookSpec
