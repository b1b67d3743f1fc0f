--------------------------- MODULE OrderLifecycle ---------------------------
(***************************************************************************)
(* The life of the orders of one round: the POST /orders handler with its  *)
(* two transactions and the venue call between them, the cancel handler,   *)
(* the worker that fills resting orders, and the operator who resolves     *)
(* markets, settles, resets and starts or stops the round, all over one    *)
(* SQLite database.                                                        *)
(*                                                                         *)
(* The pool holds one connection (db.go), so a statement or a transaction  *)
(* is one step; everything a handler does in two of them is two steps, and *)
(* any other actor may move in between.  A handler may also stop between   *)
(* two steps: its client disconnects, or the process dies.                 *)
(*                                                                         *)
(* Left to other modules: what the risk check decides on cash, exposure    *)
(* and limits (here it may turn any order down), enrollment and agent      *)
(* locks, average cost, snapshots and scores.  Left out: fees and          *)
(* slippage, which only scores read, and the event log.                    *)
(***************************************************************************)
EXTENDS Accounting, Sequences, Functions

CONSTANTS
  Teams,       \* the enrolled teams, each with one agent
  Markets,     \* the allowlisted simulated markets
  ClientKeys,  \* client_order_id values a client may choose
  Payloads,    \* the trade requests a client may send
  YesPrices,   \* the prices the markets' paths run through
  Posts,       \* POST /orders calls; as a key, the id the server generates
  Cancels,     \* POST /orders/{id}/cancel calls
  MaxOrderId,  \* bound: the AUTOINCREMENT sequence ends here
  RoundMoves,  \* the statuses the operator may set the round to
  None         \* a column or a variable without a value

OrderId  == 1..MaxOrderId
Outcomes == {"yes", "no"}
Actions  == {"buy", "sell"}
Keys     == ClientKeys \cup Posts
Holding  == Teams \X Markets \X Outcomes

Payload == [market: Markets, action: Actions, outcome: Outcomes,
            amount: Nat \ {0}, limit: 1..(BPS - 1)]

ASSUME OrderAssumption ==
  /\ MaxOrderId \in Nat
  /\ Payloads \subseteq Payload
  /\ YesPrices \subseteq 1..(BPS - 1)
  /\ ClientKeys \cap Posts = {}
  /\ RoundMoves \subseteq {"active", "paused", "completed"}
  /\ None \notin Teams \cup Keys \cup Payloads

VARIABLES
  round,        \* the round's status
  market,       \* markets joined with their market_outcomes row
  orders,       \* the rows of orders
  lastOrderId,  \* sqlite_sequence: ids are never used twice
  fills,        \* order id -> the prices of its rows of fills
  positions,    \* holding -> quantity_cents
  settlements,  \* holding -> quantity_cents of its settlement, 0 without one
  post,         \* the POST /orders handlers
  cancel,       \* the cancel handlers
  worker        \* where the snapshot worker's tick is

books == <<orders, lastOrderId, fills, positions, settlements>>
vars  == <<round, market, books, post, cancel, worker>>

Statuses == {"submitted", "rejected", "open", "filled", "canceled", "failed"}

\* A row of orders.  venue: venue_order_id # ''; payload: what request_hash
\* digests.  A row that does not exist has status "none".
OrderRow == [status: Statuses \cup {"none"}, venue: BOOLEAN,
             team: Teams \cup {None}, key: Keys \cup {None},
             payload: Payloads \cup {None}]

NoRow == [status |-> "none", venue |-> FALSE, team |-> None, key |-> None,
          payload |-> None]

MarketRow == [status: {"open", "resolved"}, yes: 0..BPS,
              outcome: Outcomes \cup {None}]

\* Where a handler is, and how it ended.
InFlight == {"lookup", "create", "reject", "place", "fail", "dispatch"}
Replies  == {"created", "replayed", "conflict", "rejected", "failed", "error"}

PostRow == [pc: {"idle"} \cup InFlight \cup Replies \cup {"aborted"},
            team: Teams \cup {None}, key: Keys \cup {None},
            payload: Payloads \cup {None},
            order: OrderId \cup {0},        \* the order the handler works on
            price: 0..BPS]                  \* the venue's fill price, 0: rests

CancelRow == [pc: {"idle", "act", "canceled", "error", "aborted"},
              order: OrderId \cup {0}]

TypeOK ==
  /\ round \in {"draft", "active", "paused", "completed"}
  /\ market \in [Markets -> MarketRow]
  /\ orders \in [OrderId -> OrderRow]
  /\ lastOrderId \in 0..MaxOrderId
  /\ fills \in [OrderId -> Seq(1..BPS)]
  /\ positions \in [Holding -> Nat]
  /\ settlements \in [Holding -> Nat]
  /\ post \in [Posts -> PostRow]
  /\ cancel \in [Cancels -> CancelRow]
  /\ worker \in {"idle", "advance", "fill"}

-----------------------------------------------------------------------------
(***************************************************************************)
(* Queries                                                                 *)
(***************************************************************************)
Exists(o) == orders[o].status # "none"

\* Variant: a rejected order does not count as a use of its key.
WithKeyUnlessRejected(team, key) ==
  {o \in OrderId : /\ orders[o].status \notin {"none", "rejected"}
                   /\ orders[o].team = team
                   /\ orders[o].key = key}

\* Variant: keys are global instead of the team's own.
WithKeyOfAnyTeam(team, key) == {o \in OrderId : Exists(o) /\ orders[o].key = key}

\* The rows an idempotency lookup may return: at most one, by the unique index.
WithKey(team, key) == {o \in OrderId : /\ Exists(o)
                                       /\ orders[o].team = team
                                       /\ orders[o].key = key}

PriceOf(p) == OutcomePrice(market[p.market].yes, p.outcome)

HoldingOf(team, p) == <<team, p.market, p.outcome>>

-----------------------------------------------------------------------------
(***************************************************************************)
(* CreateFill: insert the fill and move the position.  Selling more than   *)
(* is held is an error, and so is a quantity of zero; either rolls the     *)
(* transaction back.                                                       *)
(***************************************************************************)
\* Variant: the position is not compared with what is sold.
CanApplyUncovered(held, team, p, price) == QuantityForAmount(p.amount, price) > 0

CanApply(held, team, p, price) ==
  LET quantity == QuantityForAmount(p.amount, price)
  IN  /\ quantity > 0
      /\ p.action = "sell" => quantity <= held[HoldingOf(team, p)]

\* Variant: the quantity is taken at the order's limit, not at the fill price.
ApplyFillAtLimit(held, team, p, price) ==
  LET quantity == QuantityForAmount(p.amount, p.limit)
  IN  [held EXCEPT ![HoldingOf(team, p)] =
         IF p.action = "buy" THEN @ + quantity ELSE @ - quantity]

ApplyFill(held, team, p, price) ==
  LET quantity == QuantityForAmount(p.amount, price)
  IN  [held EXCEPT ![HoldingOf(team, p)] =
         IF p.action = "buy" THEN @ + quantity ELSE @ - quantity]

-----------------------------------------------------------------------------
(***************************************************************************)
(* POST /orders                                                            *)
(***************************************************************************)
\* The request arrives and passes the shape checks; prepareTrade reads the
\* active round and the market.  A client that sends no client_order_id gets
\* a generated one, which no other call has.
Receive(r, t, k, p) ==
  /\ post[r].pc = "idle"
  /\ k \in ClientKeys \/ k = r
  /\ post' = [post EXCEPT ![r] =
       [@ EXCEPT !.pc = IF round = "active" /\ market[p.market].status = "open"
                        THEN "lookup" ELSE "error",
                 !.team = t, !.key = k, !.payload = p]]
  /\ UNCHANGED <<round, market, books, cancel, worker>>

\* The reply to a call whose key is taken by order o.
ReplayOf(r, o) ==
  [post[r] EXCEPT !.order = o,
                  !.pc = IF orders[o].payload = post[r].payload
                         THEN "replayed" ELSE "conflict"]

\* The part of the risk check that is settled here: nobody may offer to sell
\* more than the team holds at the moment of the check, at the limit price.
Sellable(t, p) ==
  p.action = "sell" =>
    QuantityForAmount(p.amount, p.limit) <= positions[HoldingOf(t, p)]

\* The lookup before the transaction, for client keys only, then the risk
\* check, which may turn down any order for reasons left out here.
LookupAndCheckRisk(r) ==
  /\ post[r].pc = "lookup"
  /\ LET found == IF post[r].key \in ClientKeys
                  THEN WithKey(post[r].team, post[r].key) ELSE {}
     IN  \/ \E o \in found : post' = [post EXCEPT ![r] = ReplayOf(r, o)]
         \/ /\ found = {}
            /\ post' = [post EXCEPT ![r].pc = "reject"]
         \/ /\ found = {}
            /\ Sellable(post[r].team, post[r].payload)
            /\ post' = [post EXCEPT ![r].pc = "create"]
  /\ UNCHANGED <<round, market, books, cancel, worker>>

\* Insert the row of call r with the given status.
InsertOrder(r, status) ==
  /\ lastOrderId < MaxOrderId
  /\ lastOrderId' = lastOrderId + 1
  /\ orders' = [orders EXCEPT ![lastOrderId + 1] =
       [status |-> status, venue |-> FALSE, team |-> post[r].team,
        key |-> post[r].key, payload |-> post[r].payload]]

\* The transaction that creates the order (or, in rejectOrder, the rejected
\* order): look the key up once more, insert if it is free.  For a generated
\* key the lookup is skipped and the unique index still holds it to one row.
CreateOrder(r, status, next) ==
  LET taken == WithKey(post[r].team, post[r].key)
  IN  \/ /\ taken = {}
         /\ InsertOrder(r, status)
         /\ post' = [post EXCEPT ![r].pc = next, ![r].order = lastOrderId + 1]
      \/ \E o \in taken :
           /\ post' = [post EXCEPT ![r] =
                IF post[r].key \in ClientKeys
                THEN ReplayOf(r, o) ELSE [@ EXCEPT !.pc = "error"]]
           /\ UNCHANGED <<orders, lastOrderId>>

CreateSubmitted(r) ==
  /\ post[r].pc = "create"
  /\ CreateOrder(r, "submitted", "place")
  /\ UNCHANGED <<round, market, fills, positions, settlements, cancel, worker>>

CreateRejected(r) ==
  /\ post[r].pc = "reject"
  /\ CreateOrder(r, "rejected", "rejected")
  /\ UNCHANGED <<round, market, fills, positions, settlements, cancel, worker>>

\* Would the venue execute the trade p at this price?
Crosses(p, price) ==
  IF p.action = "buy" THEN p.limit >= price ELSE p.limit <= price

\* The fake venue reads the market afresh.  It may be closed by now, and the
\* call may fail for a reason of its own.
PlaceAtVenue(r) ==
  LET p == post[r].payload
  IN  /\ post[r].pc = "place"
      /\ \/ /\ market[p.market].status = "open"
            /\ post' = [post EXCEPT ![r].pc = "dispatch",
                 ![r].price = IF Crosses(p, PriceOf(p)) THEN PriceOf(p) ELSE 0]
         \/ post' = [post EXCEPT ![r].pc = "fail"]
      /\ UNCHANGED <<round, market, books, cancel, worker>>

\* The transaction that records a venue failure; a row that was deleted
\* meanwhile makes it an error.
RecordVenueFailure(r) ==
  LET o == post[r].order
  IN  /\ post[r].pc = "fail"
      /\ \/ /\ Exists(o)
            /\ orders' = [orders EXCEPT ![o].status = "failed",
                                        ![o].venue = FALSE]
            /\ post' = [post EXCEPT ![r].pc = "failed"]
         \/ /\ ~Exists(o)
            /\ post' = [post EXCEPT ![r].pc = "error"]
            /\ UNCHANGED orders
      /\ UNCHANGED <<round, market, lastOrderId, fills, positions, settlements,
                     cancel, worker>>

\* Variant: nobody looks whether the update found its row.
DispatchCommitsBlind(r) ==
  post[r].price > 0 =>
    CanApply(positions, post[r].team, post[r].payload, post[r].price)

\* Does the transaction below go through?
DispatchCommits(r) ==
  /\ Exists(post[r].order)
  /\ post[r].price > 0 =>
       CanApply(positions, post[r].team, post[r].payload, post[r].price)

\* The transaction that records the dispatch, and with it the fill if the
\* venue executed the order.  It rolls back when the row is gone or the fill
\* cannot be applied: the order then stays as it was created.
RecordDispatch(r) ==
  LET o     == post[r].order
      price == post[r].price
  IN  /\ post[r].pc = "dispatch"
      /\ \/ /\ DispatchCommits(r)
            /\ orders' = [orders EXCEPT
                 ![o].status = IF price > 0 THEN "filled" ELSE "open",
                 ![o].venue = TRUE]
            /\ fills' = IF price > 0
                        THEN [fills EXCEPT ![o] = Append(@, price)] ELSE fills
            /\ positions' = IF price > 0
                            THEN ApplyFill(positions, post[r].team,
                                           post[r].payload, price)
                            ELSE positions
            /\ post' = [post EXCEPT ![r].pc = "created"]
         \/ /\ ~DispatchCommits(r)
            /\ post' = [post EXCEPT ![r].pc = "error"]
            /\ UNCHANGED <<orders, fills, positions>>
      /\ UNCHANGED <<round, market, lastOrderId, settlements, cancel, worker>>

\* The client disconnects or the process dies before the handler's next step.
AbortPost(r) ==
  /\ post[r].pc \in InFlight
  /\ post' = [post EXCEPT ![r].pc = "aborted"]
  /\ UNCHANGED <<round, market, books, cancel, worker>>

-----------------------------------------------------------------------------
(***************************************************************************)
(* POST /orders/{id}/cancel                                                *)
(***************************************************************************)
\* Variant: an order still on its way to the venue can be canceled too.
CancelableUndispatched(t, o) ==
  /\ Exists(o)
  /\ orders[o].team = t
  /\ round = "active"
  /\ orders[o].status \in {"submitted", "open"}

\* May team t cancel order o?
Cancelable(t, o) ==
  /\ Exists(o)
  /\ orders[o].team = t
  /\ round = "active"
  /\ orders[o].status \in {"submitted", "open"}
  /\ orders[o].venue

\* Read the order and the active round, and decide.
CheckCancel(c, t, o) ==
  /\ cancel[c].pc = "idle"
  /\ cancel' = [cancel EXCEPT ![c] =
       [pc |-> IF Cancelable(t, o) THEN "act" ELSE "error", order |-> o]]
  /\ UNCHANGED <<round, market, books, post, worker>>

\* Ask the venue, which agrees, and write the status over whatever it is now.
WriteCanceled(c) ==
  LET o == cancel[c].order
  IN  /\ cancel[c].pc = "act"
      /\ \/ /\ Exists(o)
            /\ orders' = [orders EXCEPT ![o].status = "canceled"]
            /\ cancel' = [cancel EXCEPT ![c].pc = "canceled"]
         \/ /\ ~Exists(o)
            /\ cancel' = [cancel EXCEPT ![c].pc = "error"]
            /\ UNCHANGED orders
      /\ UNCHANGED <<round, market, lastOrderId, fills, positions, settlements,
                     post, worker>>

AbortCancel(c) ==
  /\ cancel[c].pc = "act"
  /\ cancel' = [cancel EXCEPT ![c].pc = "aborted"]
  /\ UNCHANGED <<round, market, books, post, worker>>

-----------------------------------------------------------------------------
(***************************************************************************)
(* The snapshot worker's tick                                              *)
(***************************************************************************)
\* The tick reads the active round once, and works on it whatever becomes of
\* its status.
WorkerTick ==
  /\ worker = "idle"
  /\ round = "active"
  /\ worker' = "advance"
  /\ UNCHANGED <<round, market, books, post, cancel>>

\* One transaction moves every open market along its path; a path may be at
\* its end.
AdvanceMarkets ==
  /\ worker = "advance"
  /\ \E yes \in [Markets -> YesPrices] :
       \E moved \in SUBSET {m \in Markets : market[m].status = "open"} :
         market' = [m \in Markets |-> IF m \in moved
                                      THEN [market[m] EXCEPT !.yes = yes[m]]
                                      ELSE market[m]]
  /\ worker' = "fill"
  /\ UNCHANGED <<round, books, post, cancel>>

\* Variant: the worker also picks up orders whose handler has not heard from
\* the venue yet.
FillCandidatesUndispatched ==
  {o \in OrderId : orders[o].status \in {"submitted", "open"}}

\* Variant: a status list that does not leave the done ones out.
FillCandidatesDone ==
  {o \in OrderId : /\ orders[o].status \in {"submitted", "open", "filled"}
                   /\ orders[o].venue}

\* What the worker looks at: orders that reached the venue and are not done.
FillCandidates ==
  {o \in OrderId : /\ orders[o].status \in {"submitted", "open"}
                   /\ orders[o].venue}

\* The price the worker executes a trade at.
WorkerPrice(p) == IF p.action = "sell" THEN Bid(PriceOf(p)) ELSE PriceOf(p)

\* Those of them whose market is open and whose limit the price has reached.
Fillable ==
  {o \in FillCandidates : LET p == orders[o].payload
                          IN  /\ market[p.market].status = "open"
                              /\ Crosses(p, WorkerPrice(p))}

\* Variant: a sell is compared with what was held before the transaction.
CoveredAtStart(held, o) ==
  LET row == orders[o]
      p   == row.payload
  IN  \/ p.action = "buy"
      \/ QuantityForAmount(p.amount, WorkerPrice(p))
           <= positions[HoldingOf(row.team, p)]

\* A fillable sell the team cannot cover from what it holds fails.
Covered(held, o) ==
  LET row == orders[o]
      p   == row.payload
  IN  \/ p.action = "buy"
      \/ QuantityForAmount(p.amount, WorkerPrice(p))
           <= held[HoldingOf(row.team, p)]

\* What the teams hold after the fillable orders with ids up to n.
Held[n \in 0..MaxOrderId] ==
  IF n = 0 THEN positions
  ELSE LET before == Held[n - 1]
       IN  IF n \in Fillable /\ Covered(before, n)
           THEN ApplyFill(before, orders[n].team, orders[n].payload,
                          WorkerPrice(orders[n].payload))
           ELSE before

FilledNow == {o \in Fillable : Covered(Held[o - 1], o)}

\* A fill that would take a holding below zero is an error.
FillsApply == \A n \in 0..MaxOrderId : Held[n] \in [Holding -> Nat]

\* One transaction executes the fillable orders in the order of their ids, and
\* fails those that are not covered when their turn comes.  An error rolls all
\* of it back.
FillOpenOrders ==
  /\ worker = "fill"
  /\ worker' = "idle"
  /\ \/ /\ FillsApply
        /\ positions' = Held[MaxOrderId]
        /\ orders' = [o \in OrderId |->
             IF o \in FilledNow THEN [orders[o] EXCEPT !.status = "filled"]
             ELSE IF o \in Fillable THEN [orders[o] EXCEPT !.status = "failed"]
             ELSE orders[o]]
        /\ fills' = [o \in OrderId |->
             IF o \in FilledNow
             THEN Append(fills[o], WorkerPrice(orders[o].payload)) ELSE fills[o]]
     \/ /\ ~FillsApply
        /\ UNCHANGED <<orders, fills, positions>>
  /\ UNCHANGED <<round, market, lastOrderId, settlements, post, cancel>>

\* The tick ends early on an error, or the process dies.
AbortTick ==
  /\ worker # "idle"
  /\ worker' = "idle"
  /\ UNCHANGED <<round, market, books, post, cancel>>

-----------------------------------------------------------------------------
(***************************************************************************)
(* The operator                                                            *)
(***************************************************************************)
\* No status is ever refused: there is no order among them in the code.
SetRoundStatus(s) ==
  /\ round' = s
  /\ UNCHANGED <<market, books, post, cancel, worker>>

\* A simulated market resolves once.
ResolveMarket(m, outcome) ==
  /\ market[m].outcome = None
  /\ market' = [market EXCEPT ![m] = [status |-> "resolved",
                                      yes |-> TerminalYesPrice(outcome),
                                      outcome |-> outcome]]
  /\ UNCHANGED <<round, books, post, cancel, worker>>

\* Variant: settled holdings are not left out.
UnsettledAgain == {h \in Holding : positions[h] > 0 /\ market[h[2]].outcome # None}

\* What a settlement would pay out now.
Unsettled == {h \in Holding : /\ positions[h] > 0
                              /\ market[h[2]].outcome # None
                              /\ settlements[h] = 0}

\* Settle once every market is resolved; the operator confirms if the round is
\* active.
SettleRound ==
  /\ \A m \in Markets : market[m].outcome # None
  /\ settlements' = [h \in Holding |-> IF h \in Unsettled THEN positions[h]
                                       ELSE settlements[h]]
  /\ positions' = [h \in Holding |-> IF h \in Unsettled THEN 0
                                     ELSE positions[h]]
  /\ UNCHANGED <<round, market, orders, lastOrderId, fills, post, cancel, worker>>

\* Delete the trading rows of some teams.
DeleteRowsOf(team) ==
  /\ orders' = [o \in OrderId |-> IF orders[o].team \in team THEN NoRow
                                  ELSE orders[o]]
  /\ fills' = [o \in OrderId |-> IF orders[o].team \in team THEN <<>>
                                 ELSE fills[o]]
  /\ positions' = [h \in Holding |-> IF h[1] \in team THEN 0 ELSE positions[h]]
  /\ settlements' = [h \in Holding |-> IF h[1] \in team THEN 0
                                       ELSE settlements[h]]
  /\ UNCHANGED <<market, lastOrderId, post, cancel, worker>>

ResetTeamRound(t) == DeleteRowsOf({t}) /\ UNCHANGED round

ResetRound == DeleteRowsOf(Teams) /\ round' = "draft"

-----------------------------------------------------------------------------
Init ==
  /\ round = "active"
  /\ market \in [Markets -> [status: {"open"}, yes: YesPrices, outcome: {None}]]
  /\ orders = [o \in OrderId |-> NoRow]
  /\ lastOrderId = 0
  /\ fills = [o \in OrderId |-> <<>>]
  /\ positions = [h \in Holding |-> 0]
  /\ settlements = [h \in Holding |-> 0]
  /\ post = [r \in Posts |-> [pc |-> "idle", team |-> None, key |-> None,
                              payload |-> None, order |-> 0, price |-> 0]]
  /\ cancel = [c \in Cancels |-> [pc |-> "idle", order |-> 0]]
  /\ worker = "idle"

\* The steps the server takes for a request it has accepted.
PostStep(r) ==
  \/ LookupAndCheckRisk(r)
  \/ CreateSubmitted(r)
  \/ CreateRejected(r)
  \/ PlaceAtVenue(r)
  \/ RecordVenueFailure(r)
  \/ RecordDispatch(r)

Request(r) ==
  \E t \in Teams, p \in Payloads, k \in Keys : Receive(r, t, k, p)

CancelRequest(c) == \E t \in Teams, o \in OrderId : CheckCancel(c, t, o)

WorkerStep == WorkerTick \/ AdvanceMarkets \/ FillOpenOrders

Abort ==
  \/ \E r \in Posts : AbortPost(r)
  \/ \E c \in Cancels : AbortCancel(c)
  \/ AbortTick

Operator ==
  \/ \E s \in RoundMoves : SetRoundStatus(s)
  \/ \E m \in Markets, outcome \in Outcomes : ResolveMarket(m, outcome)
  \/ SettleRound
  \/ \E t \in Teams : ResetTeamRound(t)
  \/ ResetRound

Trading ==
  \/ \E r \in Posts : Request(r) \/ PostStep(r)
  \/ \E c \in Cancels : CancelRequest(c) \/ WriteCanceled(c)
  \/ WorkerStep

Next ==
  \/ Trading
  \/ Abort
  \/ Operator

Spec == Init /\ [][Next]_vars

-----------------------------------------------------------------------------
(***************************************************************************)
(* Safety                                                                  *)
(***************************************************************************)
\* An order is executed once: the dispatch transaction of its handler and the
\* worker never both fill it, whichever of the two comes first.
SingleExecution == \A o \in OrderId : Len(fills[o]) <= 1

\* Status and fills tell the same story.  A filled order has its fill; an
\* order with a fill is filled, or a cancellation decided before the fill was
\* written over it; an order that never reached the venue has none; and no
\* fill outlives its order's row.
FillsMatchStatus ==
  \A o \in OrderId :
    /\ orders[o].status = "filled" => fills[o] # <<>>
    /\ fills[o] # <<>> => /\ orders[o].status \in {"filled", "canceled"}
                         /\ orders[o].venue

\* The idempotency key: a team's key names one order, however the retries of
\* a call and the call itself interleave.
UniqueKeys ==
  \A a, b \in OrderId :
    /\ Exists(a)
    /\ Exists(b)
    /\ orders[a].team = orders[b].team
    /\ orders[a].key = orders[b].key
    => a = b

\* A client is never shown an order as its own, new or replayed, that is
\* another team's or that another request body created.
RepliesAreOwn ==
  \A r \in Posts :
    LET row == orders[post[r].order]
    IN  /\ post[r].pc \in {"created", "replayed", "rejected", "failed"}
        /\ Exists(post[r].order)
        => /\ row.team = post[r].team
           /\ row.key = post[r].key
           /\ row.payload = post[r].payload

\* What a fill of team's trade p at this price adds to holding h.
Adds(team, p, price, h) ==
  LET quantity == QuantityForAmount(p.amount, price)
  IN  IF HoldingOf(team, p) # h THEN 0
      ELSE IF p.action = "buy" THEN quantity ELSE -quantity

\* What the fills of one order add to holding h, and what all fills do: the
\* quantity bought less the quantity sold.
AddedBy(o, h) ==
  LET row == orders[o]
  IN  SumFunctionOnSet([i \in DOMAIN fills[o] |->
                          Adds(row.team, row.payload, fills[o][i], h)],
                       DOMAIN fills[o])

NetFilled(h) == SumFunctionOnSet([o \in OrderId |-> AddedBy(o, h)], OrderId)

\* The books balance: a position is what its fills add up to, less what was
\* settled.  Three tables, written by the dispatch, the worker, the settlement
\* and the resets.
BooksBalance ==
  \A h \in Holding : positions[h] = NetFilled(h) - settlements[h]

\* A team is never paid for contracts on a market without an outcome, nor
\* twice: a settlement stands until a reset deletes it, and while it stands
\* nothing but a fill moves what the team holds.
SettledOnce ==
  [][\A h \in Holding :
       IF settlements'[h] = settlements[h]
       THEN settlements[h] # 0 /\ positions'[h] # positions[h] => fills' # fills
       ELSE \/ settlements'[h] = 0
            \/ /\ settlements[h] = 0
               /\ settlements'[h] = positions[h]
               /\ positions'[h] = 0
               /\ market[h[2]].outcome # None]_vars

\* What is canceled stays canceled and is never executed afterwards, by the
\* handler that is still dispatching it or by the worker.  (A reset may delete
\* it.)
NoFillAfterCancel ==
  [][\A o \in OrderId :
       orders[o].status = "canceled" /\ Exists(o)' =>
         orders'[o].status = "canceled" /\ fills'[o] = fills[o]]_vars

-----------------------------------------------------------------------------
(***************************************************************************)
(* The inductive invariant.                                                *)
(***************************************************************************)
\* Rows come with their columns; ids not given out and deleted ids have none.
RowsComplete ==
  \A o \in OrderId :
    /\ o > lastOrderId => ~Exists(o)
    /\ ~Exists(o) => orders[o] = NoRow /\ fills[o] = <<>>
    /\ Exists(o) => /\ orders[o].team \in Teams
                    /\ orders[o].key \in Keys
                    /\ orders[o].payload \in Payloads

\* What each status says of the venue and of the fills.
StatusTells ==
  \A o \in OrderId :
    /\ orders[o].status \in {"submitted", "rejected"} =>
         ~orders[o].venue /\ fills[o] = <<>>
    /\ orders[o].status = "open" => orders[o].venue /\ fills[o] = <<>>
    /\ orders[o].status = "failed" => fills[o] = <<>>
    /\ orders[o].status = "filled" => orders[o].venue /\ Len(fills[o]) = 1
    /\ orders[o].status = "canceled" =>
         orders[o].venue /\ (fills[o] = <<>> \/ Len(fills[o]) = 1)

\* A handler between its two transactions owns its order: nobody else has
\* touched the row, unless it was deleted, and nobody else works on it.
Owning == {"place", "fail", "dispatch"}

HandlersOwn ==
  \A r \in Posts :
    /\ post[r].pc # "idle" => /\ post[r].team \in Teams
                             /\ post[r].key \in Keys
                             /\ post[r].payload \in Payloads
    /\ post[r].pc \in Owning =>
         /\ post[r].order \in 1..lastOrderId
         /\ Exists(post[r].order) =>
              orders[post[r].order] =
                [status |-> "submitted", venue |-> FALSE, team |-> post[r].team,
                 key |-> post[r].key, payload |-> post[r].payload]
         /\ \A s \in Posts \ {r} :
              post[s].pc \in Owning => post[s].order # post[r].order

\* A cancellation that was allowed is about an order the venue has seen.
CancelsDispatched ==
  \A c \in Cancels :
    cancel[c].pc = "act" =>
      /\ cancel[c].order \in 1..lastOrderId
      /\ Exists(cancel[c].order) => orders[cancel[c].order].venue

\* An open market has a price at which a trade has a quantity.
OpenPrices ==
  \A m \in Markets : market[m].status = "open" => market[m].yes \in 1..(BPS - 1)

IInv ==
  /\ TypeOK
  /\ RowsComplete
  /\ StatusTells
  /\ HandlersOwn
  /\ CancelsDispatched
  /\ OpenPrices
  /\ UniqueKeys

-----------------------------------------------------------------------------
(***************************************************************************)
(* What the documents promise and the code does not keep                   *)
(***************************************************************************)
\* docs/game-logic.md: "canceled before fill".
CanceledBeforeFill ==
  \A o \in OrderId : orders[o].status = "canceled" => fills[o] = <<>>

-----------------------------------------------------------------------------
(***************************************************************************)
(* Liveness.  The server runs an accepted request to its end unless it is  *)
(* aborted; the worker's ticker keeps ticking, and not every tick dies at  *)
(* the same place.  Nothing is assumed of the clients and the operator.    *)
(***************************************************************************)
Fairness ==
  /\ \A r \in Posts : WF_vars(PostStep(r))
  /\ \A c \in Cancels : WF_vars(WriteCanceled(c))
  /\ WF_vars(WorkerTick)
  /\ SF_vars(AdvanceMarkets)
  /\ SF_vars(FillOpenOrders)

FairSpec == Spec /\ Fairness

\* A resting order whose limit the market has reached does not stay there: as
\* long as the round runs and the price holds, the worker executes it or fails
\* it, and no other order's trouble keeps it from doing so.
FillableOrdersClose ==
  \A o \in OrderId : []<>(o \notin Fillable \/ round # "active")

-----------------------------------------------------------------------------
(***************************************************************************)
(* What a client may rely on, whatever the steps in between: OrderBook.    *)
(***************************************************************************)
Book == INSTANCE OrderBook WITH
          status   <- [o \in OrderId |-> orders[o].status],
          executed <- [o \in OrderId |-> fills[o] # <<>>],
          lastId   <- lastOrderId

BookSpec == Book!Spec
=============================================================================
