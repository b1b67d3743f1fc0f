----------------------------- MODULE Admission -----------------------------
(***************************************************************************)
(* The risk check of POST /orders, for one team in an active round.        *)
(*                                                                         *)
(* checkRisk asks the database seven questions, one statement after the    *)
(* other, decides, and the order is created in a transaction after that.   *)
(* Meanwhile the team's other calls, its cancellations and the snapshot    *)
(* worker move the very tables the questions are about.  OrderLifecycle    *)
(* lets the check turn down any order; this module is about what it lets   *)
(* through.                                                                *)
(*                                                                         *)
(* Left out: idempotency, resets and settlements (OrderLifecycle), fees,   *)
(* which are zero on this venue, and the shape checks on the request,      *)
(* which hold for every member of Payloads.                                *)
(***************************************************************************)
EXTENDS Accounting, Sequences, FiniteSets, Functions

CONSTANTS
  Handlers,     \* the team's concurrent POST /orders calls; one is reused
                \* by the next call when it ends
  Markets,      \* the allowlisted markets, all open
  Payloads,     \* the requests the team may send
  YesPrices,    \* the prices the markets move through
  MaxOrders,    \* bound: the team sends no more requests than this
  Asked,        \* the questions some limit of the policy makes matter: the
                \* answer to another can be anything, and is left out
  \* The policy (risk/policy.go).
  InitialBalance, MaxOrderValue, MaxPositionPerMarket, MaxTotalExposure,
  MaxOrdersPerMinute, MaxOpenOrders

Outcomes == {"yes", "no"}

Payload == [market: Markets, action: {"buy", "sell"}, outcome: Outcomes,
            amount: Nat \ {0}, limit: 1..(BPS - 1)]

ASSUME AdmissionAssumption ==
  /\ Handlers # {} /\ IsFiniteSet(Handlers)
  /\ IsFiniteSet(Markets)
  /\ Payloads \subseteq Payload
  /\ YesPrices \subseteq 1..(BPS - 1)
  /\ Asked \subseteq {"openOrders", "ordersLastMinute", "marketExposure",
                     "totalExposure", "sellable", "cash", "openBuyNotional"}
  /\ {MaxOrders, InitialBalance, MaxOrderValue, MaxPositionPerMarket,
      MaxTotalExposure, MaxOrdersPerMinute, MaxOpenOrders} \subseteq Nat

VARIABLES
  yes,        \* markets.yes_price_bps
  orders,     \* the team's orders, by id
  positions,  \* <<market, outcome>> -> quantity_cents
  handler,    \* the calls
  overtaken   \* history: the handlers whose reading of cash and reserve was
              \* overtaken by another buy of the team

vars == <<yes, orders, positions, handler, overtaken>>

Holding == Markets \X Outcomes
HoldingOf(p) == <<p.market, p.outcome>>

\* A row of orders joined with its fill.  price: the fill's price, 0 without
\* one; recent: created in the last minute.
OrderRow == [status: {"submitted", "rejected", "open", "filled", "canceled",
                      "failed"},
             payload: Payloads, price: 0..BPS, recent: BOOLEAN]

\* The statements of checkRisk, in their order.
Questions == <<"openOrders", "ordersLastMinute", "marketExposure",
               "totalExposure", "sellable", "cash", "openBuyNotional">>

\* A call that has the answers to the known questions.
HandlerRow(known) == [pc: {"idle", "check", "place", "dispatch"},
                      payload: Payloads, answers: [known -> Int],
                      order: 0..MaxOrders, price: 0..BPS]

TypeOK ==
  /\ yes \in [Markets -> YesPrices]
  /\ orders \in Seq(OrderRow)
  /\ positions \in [Holding -> Nat]
  /\ DOMAIN handler = Handlers
  /\ \A h \in Handlers : \E known \in SUBSET Asked : handler[h] \in HandlerRow(known)
  /\ overtaken \subseteq Handlers

-----------------------------------------------------------------------------
(***************************************************************************)
(* What the statements read                                                *)
(***************************************************************************)
PriceOf(p) == OutcomePrice(yes[p.market], p.outcome)

\* Orders that are not done.
Pending == {o \in DOMAIN orders : orders[o].status \in {"submitted", "open"}}

\* The amounts of some orders.
Amount(ids) == SumFunctionOnSet([o \in DOMAIN orders |-> orders[o].payload.amount], ids)

Bought == {o \in DOMAIN orders : orders[o].price > 0 /\ orders[o].payload.action = "buy"}
Sold   == {o \in DOMAIN orders : orders[o].price > 0 /\ orders[o].payload.action = "sell"}

\* ComputePortfolio: cash is what the fills leave of the initial balance.
Cash == InitialBalance - Amount(Bought) + Amount(Sold)

\* OpenBuyNotional: the buys that may still have to be paid for.
Reserve == Amount({o \in Pending : orders[o].payload.action = "buy"})

\* The marked value of some holdings.
Exposure(holdings) ==
  SumFunctionOnSet([h \in Holding |-> MarkValue(positions[h], OutcomePrice(yes[h[1]], h[2]))],
                   holdings)

\* Variant: canceled and rejected orders are not counted.
RecentPending == {o \in Pending : orders[o].recent}

\* CountOrdersSince: whatever became of them.
Recent == {o \in DOMAIN orders : orders[o].recent}

Answer(question, p) ==
  CASE question = "openOrders"       -> Cardinality(Pending)
    [] question = "ordersLastMinute" -> Cardinality(Recent)
    [] question = "marketExposure"   -> Exposure({p.market} \X Outcomes)
    [] question = "totalExposure"    -> Exposure(Holding)
    [] question = "sellable"         -> positions[HoldingOf(p)]
    [] question = "cash"             -> Cash
    [] question = "openBuyNotional"  -> Reserve

Answered(h, question) == question \in DOMAIN handler[h].answers

Known(h, question) == handler[h].answers[question]

-----------------------------------------------------------------------------
(***************************************************************************)
(* risk.Check                                                              *)
(***************************************************************************)
\* Variant: the limit itself still has room for one more.
WithinAndOneMore(h, question, limit) ==
  question \in Asked => Known(h, question) <= limit

\* A count is under its limit.
Under(h, question, limit) == question \in Asked => Known(h, question) < limit

\* Variant: what is spent besides is compared, and not the order with it.
AffordsBefore(h, question, limit) == question \in Asked => Known(h, question) <= limit

\* What is spent besides leaves room for the amount.
Affords(h, question, limit) ==
  question \in Asked => handler[h].payload.amount + Known(h, question) <= limit

Admits(h) ==
  LET p == handler[h].payload
  IN  /\ p.amount <= MaxOrderValue
      /\ Under(h, "openOrders", MaxOpenOrders)
      /\ Under(h, "ordersLastMinute", MaxOrdersPerMinute)
      /\ p.action = "buy" =>
           /\ "cash" \in Asked => Affords(h, "openBuyNotional", Known(h, "cash"))
           /\ Affords(h, "marketExposure", MaxPositionPerMarket)
           /\ Affords(h, "totalExposure", MaxTotalExposure)
      /\ p.action = "sell" /\ "sellable" \in Asked =>
           QuantityForAmount(p.amount, p.limit) <= Known(h, "sellable")

-----------------------------------------------------------------------------
(***************************************************************************)
(* The handler                                                             *)
(***************************************************************************)
Idle(p) == [pc |-> "idle", payload |-> p, answers |-> <<>>, order |-> 0, price |-> 0]

Receive(h, p) ==
  /\ handler[h].pc = "idle"
  /\ Len(orders) < MaxOrders
  /\ handler' = [handler EXCEPT ![h] = [Idle(p) EXCEPT !.pc = "check"]]
  /\ overtaken' = overtaken \ {h}
  /\ UNCHANGED <<yes, orders, positions>>

\* The next question of checkRisk.
Ask(h) ==
  LET left == {i \in DOMAIN Questions : Questions[i] \in Asked /\ ~Answered(h, Questions[i])}
  IN  /\ handler[h].pc = "check"
      /\ \E next \in left :
           /\ \A i \in left : next <= i
           /\ handler' = [handler EXCEPT ![h].answers =
                [question \in DOMAIN @ \cup {Questions[next]} |->
                   IF question \in DOMAIN @ THEN @[question]
                   ELSE Answer(question, handler[h].payload)]]
      /\ UNCHANGED <<yes, orders, positions, overtaken>>

Decided(h) ==
  /\ handler[h].pc = "check"
  /\ DOMAIN handler[h].answers = Asked

NewRow(h, status) == [status |-> status, payload |-> handler[h].payload,
                      price |-> 0, recent |-> "ordersLastMinute" \in Asked]

\* Handlers that know the reserve and have not created their order: a buy
\* created now is not in it.
KnowReserve == {h \in Handlers : Decided(h)}

\* Handlers that know the cash but not yet the reserve: a buy that is paid for
\* now is in neither.
KnowCashOnly ==
  {h \in Handlers : Answered(h, "cash") /\ ~Answered(h, "openBuyNotional")}

CreateSubmitted(h) ==
  /\ Decided(h)
  /\ Admits(h)
  /\ Len(orders) < MaxOrders
  /\ orders' = Append(orders, NewRow(h, "submitted"))
  /\ handler' = [handler EXCEPT ![h].pc = "place", ![h].answers = <<>>,
                                ![h].order = Len(orders) + 1]
  /\ overtaken' = IF handler[h].payload.action = "buy"
                  THEN overtaken \cup (KnowReserve \ {h}) ELSE overtaken
  /\ UNCHANGED <<yes, positions>>

CreateRejected(h) ==
  /\ Decided(h)
  /\ ~Admits(h)
  /\ Len(orders) < MaxOrders
  /\ orders' = Append(orders, NewRow(h, "rejected"))
  /\ handler' = [handler EXCEPT ![h] = Idle(@.payload)]
  /\ UNCHANGED <<yes, positions, overtaken>>

Crosses(p, price) ==
  IF p.action = "buy" THEN p.limit >= price ELSE p.limit <= price

\* The venue's answer, or its failure.
PlaceAtVenue(h) ==
  LET p == handler[h].payload
  IN  /\ handler[h].pc = "place"
      /\ \/ /\ handler' = [handler EXCEPT ![h].pc = "dispatch",
                 ![h].price = IF Crosses(p, PriceOf(p)) THEN PriceOf(p) ELSE 0]
            /\ UNCHANGED orders
         \/ /\ orders' = [orders EXCEPT ![handler[h].order].status = "failed"]
            /\ handler' = [handler EXCEPT ![h] = Idle(@.payload)]
      /\ UNCHANGED <<yes, positions, overtaken>>

\* Variant: the position is not compared with what is sold.
CanApplyUncovered(held, p, price) == QuantityForAmount(p.amount, price) > 0

\* CreateFill goes through.
CanApply(held, p, price) ==
  LET quantity == QuantityForAmount(p.amount, price)
  IN  quantity > 0 /\ (p.action = "sell" => quantity <= held[HoldingOf(p)])

ApplyFill(held, p, price) ==
  LET quantity == QuantityForAmount(p.amount, price)
  IN  [held EXCEPT ![HoldingOf(p)] =
         IF p.action = "buy" THEN @ + quantity ELSE @ - quantity]

\* The transaction that records the answer; if the fill cannot be applied it
\* rolls back and the order stays submitted.
RecordDispatch(h) ==
  LET p     == handler[h].payload
      o     == handler[h].order
      price == handler[h].price
  IN  /\ handler[h].pc = "dispatch"
      /\ handler' = [handler EXCEPT ![h] = Idle(p)]
      /\ \/ /\ price = 0
            /\ orders' = [orders EXCEPT ![o].status = "open"]
            /\ UNCHANGED <<positions, overtaken>>
         \/ /\ price > 0
            /\ CanApply(positions, p, price)
            /\ orders' = [orders EXCEPT ![o].status = "filled", ![o].price = price]
            /\ positions' = ApplyFill(positions, p, price)
            /\ overtaken' = IF p.action = "buy"
                            THEN overtaken \cup KnowCashOnly ELSE overtaken
         \/ /\ price > 0
            /\ ~CanApply(positions, p, price)
            /\ UNCHANGED <<orders, positions, overtaken>>
      /\ UNCHANGED yes

\* The client disconnects or the process dies: an order that was created stays
\* submitted.
Abort(h) ==
  /\ handler[h].pc # "idle"
  /\ handler' = [handler EXCEPT ![h] = Idle(@.payload)]
  /\ UNCHANGED <<yes, orders, positions, overtaken>>

-----------------------------------------------------------------------------
(***************************************************************************)
(* The others                                                              *)
(***************************************************************************)
CancelOrder(o) ==
  /\ orders[o].status = "open"
  /\ orders' = [orders EXCEPT ![o].status = "canceled"]
  /\ UNCHANGED <<yes, positions, handler, overtaken>>

AdvanceMarkets ==
  /\ yes' \in [Markets -> YesPrices]
  /\ UNCHANGED <<orders, positions, handler, overtaken>>

\* What the worker's transaction makes of open order o, given the books that
\* the orders before it left.
FillOne(books, o) ==
  LET p     == books.orders[o].payload
      price == IF p.action = "sell" THEN Bid(PriceOf(p)) ELSE PriceOf(p)
  IN  IF books.orders[o].status # "open" \/ ~Crosses(p, price) THEN books
      ELSE IF CanApply(books.positions, p, price)
      THEN [orders    |-> [books.orders EXCEPT ![o].status = "filled", ![o].price = price],
            positions |-> ApplyFill(books.positions, p, price)]
      ELSE [books EXCEPT !.orders[o].status = "failed"]

\* What it has made of the books when it is through with the orders up to n.
AfterFilling[n \in 0..Len(orders)] ==
  IF n = 0 THEN [orders |-> orders, positions |-> positions]
  ELSE FillOne(AfterFilling[n - 1], n)

FillOpenOrders ==
  LET books == AfterFilling[Len(orders)]
  IN  /\ books.orders # orders
      /\ orders' = books.orders
      /\ positions' = books.positions
      /\ overtaken' = IF \E o \in DOMAIN orders : /\ orders'[o].price # orders[o].price
                                                  /\ orders[o].payload.action = "buy"
                      THEN overtaken \cup KnowCashOnly ELSE overtaken
      /\ UNCHANGED <<yes, handler>>

\* A minute goes by for the oldest orders.
LeaveWindow(o) ==
  /\ orders[o].recent
  /\ \A older \in 1..(o - 1) : ~orders[older].recent
  /\ orders' = [orders EXCEPT ![o].recent = FALSE]
  /\ UNCHANGED <<yes, positions, handler, overtaken>>

-----------------------------------------------------------------------------
Init ==
  /\ yes \in [Markets -> YesPrices]
  /\ orders = <<>>
  /\ positions = [h \in Holding |-> 0]
  /\ \E p \in Payloads : handler = [h \in Handlers |-> Idle(p)]
  /\ overtaken = {}

Handle(h) ==
  \/ \E p \in Payloads : Receive(h, p)
  \/ Ask(h)
  \/ CreateSubmitted(h)
  \/ CreateRejected(h)
  \/ PlaceAtVenue(h)
  \/ RecordDispatch(h)
  \/ Abort(h)

Next ==
  \/ \E h \in Handlers : Handle(h)
  \/ \E o \in DOMAIN orders : CancelOrder(o) \/ LeaveWindow(o)
  \/ AdvanceMarkets
  \/ FillOpenOrders

Spec == Init /\ [][Next]_vars

-----------------------------------------------------------------------------
(***************************************************************************)
(* Properties                                                              *)
(***************************************************************************)
\* What the two readings are good for.  An order that is admitted leaves the
\* team with the cash for all its pending buys, unless another buy of the team
\* was paid for between the reading of the cash and that of the reserve, or
\* was created after the latter: cancellations, sells, failures, price moves
\* and buys at any other moment do no harm.
AdmittedIsAffordable ==
  [][\A h \in Handlers \ overtaken :
       CreateSubmitted(h) /\ handler[h].payload.action = "buy" => Reserve' <= Cash']_vars

\* The limit on open orders gives way to concurrency by no more than the
\* number of calls that run at once, however many there are one after the
\* other and wherever they stop.
OpenOrdersBounded == Cardinality(Pending) <= MaxOpenOrders + Cardinality(Handlers) - 1

\* So does the limit on accepted orders per minute; rejected ones, which count
\* towards it, are not limited.
AcceptedRateBounded ==
  Cardinality({o \in DOMAIN orders : orders[o].recent /\ orders[o].status # "rejected"})
    <= MaxOrdersPerMinute + Cardinality(Handlers) - 1
=============================================================================
