------------------------ MODULE OrderLifecycleProofs ------------------------
(***************************************************************************)
(* Theorems about OrderLifecycle, for every value of its constants.        *)
(*                                                                         *)
(* First IInv: it holds at first (InitIInv), every action preserves it     *)
(* (one lemma each, named after the action), so every step does (NextIInv).*)
(* Types, single execution, agreement of statuses and fills and uniqueness *)
(* of keys follow.  Then the refinement of OrderBook, again with one lemma *)
(* per kind of step; what a step may do to a row (RowsStep), from which    *)
(* NoFillAfterCancel and RepliesAreOwn follow; and, with what Held         *)
(* computes (HeldSum), SettledOnce and the balance of the books.           *)
(***************************************************************************)
EXTENDS OrderLifecycle, FiniteInduction, TLAPS

-----------------------------------------------------------------------------
(***************************************************************************)
(* Arithmetic, the initial states, and what an action leaves alone         *)
(***************************************************************************)
\* Quotients and quantities are natural numbers.
LEMMA QuotientNat == ASSUME NEW a \in Nat, NEW b \in Nat, b > 0 PROVE a \div b \in Nat
  BY SMT

LEMMA QuantityNat ==
  ASSUME NEW amount \in Nat, NEW price \in Int
  PROVE  QuantityForAmount(amount, price) \in Nat
  BY QuotientNat, SMT DEF QuantityForAmount, BPS

\* The prices of an open market are in the range of a market's.
LEMMA OpenInRange == ASSUME NEW price \in 1..(BPS - 1) PROVE price \in 0..BPS
  <1>1. BPS = 10000
    BY DEF BPS
  <1>2. price \in 1..9999
    BY <1>1, SMT
  <1> QED BY <1>1, <1>2, SMT

\* The initial states satisfy the invariant.
LEMMA InitIInv == ASSUME Init PROVE IInv
  <1> USE DEF Init
  <1>0. NoRow \in OrderRow
    BY OrderAssumption DEF NoRow, OrderRow
  <1>1. TypeOK
    <2>1. market \in [Markets -> MarketRow]
      <3>1. [status: {"open"}, yes: YesPrices, outcome: {None}] \subseteq MarketRow
        <4>1. YesPrices \subseteq 0..BPS
          BY OrderAssumption, OpenInRange
        <4> QED BY <4>1, Zenon DEF MarketRow
      <3> QED BY <3>1
    <2>2. orders \in [OrderId -> OrderRow]
      BY <1>0
    <2>3. post \in [Posts -> PostRow]
      BY SMT DEF PostRow, BPS
    <2>4. cancel \in [Cancels -> CancelRow]
      BY SMT DEF CancelRow
    <2>5. fills \in [OrderId -> Seq(1..BPS)]
      BY SMT DEF BPS
    <2>q. QED BY <2>1, <2>2, <2>3, <2>4, <2>5, OrderAssumption DEF TypeOK
  <1>2. RowsComplete
    BY DEF RowsComplete, Exists, NoRow
  <1>3. StatusTells
    BY DEF StatusTells, NoRow
  <1>4. HandlersOwn /\ CancelsDispatched
    BY DEF HandlersOwn, Owning, CancelsDispatched
  <1>5. OpenPrices
    <2>1. SUFFICES ASSUME NEW m \in Markets PROVE market[m].yes \in 1..(BPS - 1)
      BY DEF OpenPrices
    <2>2. market[m] \in [status: {"open"}, yes: YesPrices, outcome: {None}]
      OBVIOUS
    <2>3. market[m].yes \in YesPrices
      BY <2>2
    <2> QED BY <2>3, OrderAssumption
  <1>6. UniqueKeys
    BY DEF UniqueKeys, Exists, NoRow
  <1> QED BY <1>1, <1>2, <1>3, <1>4, <1>5, <1>6 DEF IInv

\* An action that leaves orders and fills alone.
LEMMA SameRows ==
  ASSUME IInv, UNCHANGED <<orders, lastOrderId, fills>>
  PROVE  RowsComplete' /\ StatusTells' /\ UniqueKeys'
  BY DEF IInv, RowsComplete, StatusTells, UniqueKeys, Exists

\* An action that leaves the orders and the handlers alone.
LEMMA SameHandlers ==
  ASSUME IInv, UNCHANGED <<orders, lastOrderId, post>>
  PROVE  HandlersOwn'
  BY DEF IInv, HandlersOwn, Exists, Owning

\* An action that leaves the orders and the cancellations alone.
LEMMA SameCancels ==
  ASSUME IInv, UNCHANGED <<orders, lastOrderId, cancel>>
  PROVE  CancelsDispatched'
  BY DEF IInv, CancelsDispatched, Exists

\* Handlers and cancellations work on ids that were given out.
LEMMA KnownIds ==
  ASSUME IInv
  PROVE  /\ lastOrderId \in Nat /\ 1..lastOrderId \subseteq OrderId
         /\ \A r \in Posts : post[r].pc \in Owning =>
              /\ post[r].order \in OrderId
              /\ Exists(post[r].order) => /\ orders[post[r].order].status = "submitted"
                                         /\ ~orders[post[r].order].venue
         /\ \A c \in Cancels : cancel[c].pc = "act" => cancel[c].order \in OrderId
  <1>1. lastOrderId \in 0..MaxOrderId
    BY DEF IInv, TypeOK
  <1>2. lastOrderId \in Nat /\ 1..lastOrderId \subseteq OrderId
    BY <1>1, OrderAssumption DEF OrderId
  <1>3. ASSUME NEW r \in Posts, post[r].pc \in Owning
        PROVE  /\ post[r].order \in OrderId
               /\ Exists(post[r].order) => /\ orders[post[r].order].status = "submitted"
                                          /\ ~orders[post[r].order].venue
    <2>1. HandlersOwn!(r)
      BY DEF IInv, HandlersOwn
    <2>2. post[r].order \in OrderId
      BY <1>2, <1>3, <2>1
    <2> QED BY <1>3, <2>1, <2>2
  <1>4. \A c \in Cancels : cancel[c].pc = "act" => cancel[c].order \in OrderId
    BY <1>2 DEF IInv, CancelsDispatched
  <1> QED BY <1>2, <1>3, <1>4

\* An action that leaves what the handlers own as it is, or deletes it.
LEMMA OthersTouched ==
  ASSUME IInv, UNCHANGED <<lastOrderId, post>>,
         \A r \in Posts : post[r].pc \in Owning =>
           \/ orders'[post[r].order] = orders[post[r].order]
           \/ orders'[post[r].order] = NoRow
  PROVE  HandlersOwn'
  <1> SUFFICES ASSUME NEW r \in Posts PROVE HandlersOwn!(r)'
    BY DEF HandlersOwn
  <1>1. HandlersOwn!(r)
    BY DEF IInv, HandlersOwn
  <1> QED BY <1>1 DEF Exists, NoRow

\* One lemma per action: the worker reads the round, ...
LEMMA WorkerTickInv == ASSUME IInv, WorkerTick PROVE IInv'
  <1> USE DEF WorkerTick, books
  <1>1. TypeOK'
    BY DEF IInv, TypeOK
  <1>2. OpenPrices'
    BY DEF IInv, OpenPrices
  <1> QED BY <1>1, <1>2, SameRows, SameHandlers, SameCancels DEF IInv

LEMMA AbortTickInv == ASSUME IInv, AbortTick PROVE IInv'
  <1> USE DEF AbortTick, books
  <1>1. TypeOK'
    BY DEF IInv, TypeOK
  <1>2. OpenPrices'
    BY DEF IInv, OpenPrices
  <1> QED BY <1>1, <1>2, SameRows, SameHandlers, SameCancels DEF IInv

LEMMA SetRoundStatusInv ==
  ASSUME IInv, NEW s \in RoundMoves, SetRoundStatus(s)
  PROVE  IInv'
  <1> USE DEF SetRoundStatus, books
  <1>1. TypeOK'
    BY OrderAssumption DEF IInv, TypeOK
  <1>2. OpenPrices'
    BY DEF IInv, OpenPrices
  <1> QED BY <1>1, <1>2, SameRows, SameHandlers, SameCancels DEF IInv

LEMMA AdvanceMarketsInv == ASSUME IInv, AdvanceMarkets PROVE IInv'
  <1> USE DEF AdvanceMarkets, books
  <1>1. PICK yes \in [Markets -> YesPrices],
             moved \in SUBSET {m \in Markets : market[m].status = "open"} :
          market' = [m \in Markets |-> IF m \in moved
                                       THEN [market[m] EXCEPT !.yes = yes[m]]
                                       ELSE market[m]]
    OBVIOUS
  <1>2. \A m \in Markets : yes[m] \in 1..(BPS - 1)
    BY OrderAssumption
  <1>3. \A m \in Markets :
          market'[m] \in MarketRow /\ (market'[m].status = "open" =>
                                         market'[m].yes \in 1..(BPS - 1))
    <2>1. TAKE m \in Markets
    <2>2. market[m] \in MarketRow
      BY DEF IInv, TypeOK
    <2>3. market[m].status = "open" => market[m].yes \in 1..(BPS - 1)
      BY DEF IInv, OpenPrices
    <2>4. CASE m \in moved
      <3>1. market'[m] = [market[m] EXCEPT !.yes = yes[m]]
        BY <1>1, <2>4
      <3> HIDE DEF AdvanceMarkets
      <3>2. yes[m] \in 1..(BPS - 1)
        BY <1>2
      <3>3. yes[m] \in 0..BPS
        BY <3>2, OpenInRange
      <3> QED BY <2>2, <3>1, <3>2, <3>3 DEF MarketRow
    <2>5. CASE m \notin moved
      <3>1. market'[m] = market[m]
        BY <1>1, <2>5
      <3> QED BY <2>2, <2>3, <3>1
    <2> QED BY <2>4, <2>5
  <1>4. TypeOK'
    BY <1>1, <1>3 DEF IInv, TypeOK
  <1>5. OpenPrices'
    BY <1>3 DEF OpenPrices
  <1> QED BY <1>4, <1>5, SameRows, SameHandlers, SameCancels DEF IInv

LEMMA ResolveMarketInv ==
  ASSUME IInv, NEW m \in Markets, NEW outcome \in Outcomes,
         ResolveMarket(m, outcome)
  PROVE  IInv'
  <1> USE DEF ResolveMarket, books
  <1>1. market' \in [Markets -> MarketRow]
    <2>1. TerminalYesPrice(outcome) \in 0..BPS
      BY DEF TerminalYesPrice, BPS
    <2>2. market' = [market EXCEPT ![m] = [status |-> "resolved",
                       yes |-> TerminalYesPrice(outcome), outcome |-> outcome]]
      OBVIOUS
    <2> HIDE DEF ResolveMarket
    <2> QED BY <2>1, <2>2 DEF IInv, TypeOK, MarketRow
  <1>2. TypeOK'
    BY <1>1 DEF IInv, TypeOK
  <1>3. OpenPrices'
    BY DEF IInv, OpenPrices, TypeOK
  <1> QED BY <1>2, <1>3, SameRows, SameHandlers, SameCancels DEF IInv

LEMMA SettleRoundInv == ASSUME IInv, SettleRound PROVE IInv'
  <1> USE DEF SettleRound
  <1>1. positions' \in [Holding -> Nat] /\ settlements' \in [Holding -> Nat]
    BY DEF IInv, TypeOK
  <1>2. TypeOK'
    BY <1>1 DEF IInv, TypeOK
  <1>3. OpenPrices'
    BY DEF IInv, OpenPrices
  <1> QED BY <1>2, <1>3, SameRows, SameHandlers, SameCancels DEF IInv

LEMMA CheckCancelInv ==
  ASSUME IInv, NEW c \in Cancels, NEW t \in Teams, NEW o \in OrderId,
         CheckCancel(c, t, o)
  PROVE  IInv'
  <1> USE DEF CheckCancel, books
  <1>1. cancel' \in [Cancels -> CancelRow]
    BY DEF IInv, TypeOK, CancelRow
  <1>2. TypeOK'
    BY <1>1 DEF IInv, TypeOK
  <1>3. OpenPrices'
    BY DEF IInv, OpenPrices
  <1>4. CancelsDispatched'
    <2>1. Cancelable(t, o) => o \in 1..lastOrderId /\ orders[o].venue
      BY OrderAssumption DEF Cancelable, IInv, RowsComplete, TypeOK, OrderId
    <2> QED BY <2>1 DEF IInv, TypeOK, CancelsDispatched, Exists
  <1> QED BY <1>2, <1>3, <1>4, SameRows, SameHandlers DEF IInv

LEMMA AbortCancelInv ==
  ASSUME IInv, NEW c \in Cancels, AbortCancel(c)
  PROVE  IInv'
  <1> USE DEF AbortCancel, books
  <1>1. cancel' \in [Cancels -> CancelRow]
    BY DEF IInv, TypeOK, CancelRow
  <1>2. TypeOK'
    BY <1>1 DEF IInv, TypeOK
  <1>3. OpenPrices'
    BY DEF IInv, OpenPrices
  <1>4. CancelsDispatched'
    BY DEF IInv, TypeOK, CancelsDispatched, Exists
  <1> QED BY <1>2, <1>3, <1>4, SameRows, SameHandlers DEF IInv

LEMMA WriteCanceledInv ==
  ASSUME IInv, NEW c \in Cancels, WriteCanceled(c)
  PROVE  IInv'
  <1> DEFINE o == cancel[c].order
  <1>0. /\ cancel[c].pc = "act" /\ cancel[c] \in CancelRow
        /\ UNCHANGED <<round, market, lastOrderId, fills, positions,
                       settlements, post, worker>>
    BY DEF WriteCanceled, IInv, TypeOK
  <1>1. OpenPrices'
    BY <1>0 DEF IInv, OpenPrices
  <1>2. CASE ~Exists(o)
    <2>0. UNCHANGED orders /\ cancel' = [cancel EXCEPT ![c].pc = "error"]
      BY <1>2 DEF WriteCanceled
    <2>1. cancel' \in [Cancels -> CancelRow]
      BY <1>0, <2>0 DEF IInv, TypeOK, CancelRow
    <2>2. TypeOK'
      BY <1>0, <2>0, <2>1 DEF IInv, TypeOK
    <2>3. CancelsDispatched'
      BY <1>0, <2>0 DEF IInv, TypeOK, CancelsDispatched, Exists
    <2> QED BY <1>0, <1>1, <2>0, <2>2, <2>3, SameRows, SameHandlers DEF IInv
  <1>3. CASE Exists(o)
    <2>0. /\ orders' = [orders EXCEPT ![o].status = "canceled"]
          /\ cancel' = [cancel EXCEPT ![c].pc = "canceled"]
      BY <1>3 DEF WriteCanceled
    <2>1. o \in OrderId /\ orders[o].venue /\ orders[o] \in OrderRow
      BY <1>0, <1>3, OrderAssumption DEF IInv, TypeOK, CancelsDispatched, OrderId
    <2>2. \A q \in OrderId :
            orders'[q] = IF q = o THEN [orders[o] EXCEPT !.status = "canceled"]
                         ELSE orders[q]
      BY <2>0, <2>1 DEF IInv, TypeOK
    <2>3. TypeOK'
      <3>1. orders' \in [OrderId -> OrderRow]
        BY <2>1, <2>0 DEF IInv, TypeOK, OrderRow, Statuses
      <3>2. cancel' \in [Cancels -> CancelRow]
        BY <1>0, <2>0 DEF IInv, TypeOK, CancelRow
      <3> QED BY <1>0, <3>1, <3>2 DEF IInv, TypeOK
    <2>4. RowsComplete'
      BY <1>0, <1>3, <2>1, <2>2 DEF IInv, RowsComplete, Exists, OrderRow
    <2>5. StatusTells'
      <3>1. fills[o] = <<>> \/ Len(fills[o]) = 1
        <4>1. orders[o].status = "submitted" \/ orders[o].status = "rejected"
              \/ orders[o].status = "open" \/ orders[o].status = "failed"
              \/ orders[o].status = "filled" \/ orders[o].status = "canceled"
          BY <1>3, <2>1 DEF Exists, OrderRow, Statuses
        <4> QED BY <2>1, <4>1 DEF IInv, StatusTells
      <3> SUFFICES ASSUME NEW q \in OrderId
                   PROVE  StatusTells!(q)'
        BY DEF StatusTells
      <3>2. CASE q = o
        BY <1>0, <2>1, <2>2, <3>1, <3>2 DEF OrderRow
      <3>3. CASE q # o
        BY <1>0, <2>2, <3>3 DEF IInv, StatusTells
      <3> QED BY <3>2, <3>3
    <2>6. HandlersOwn'
      <3>1. \A r \in Posts : post[r].pc \in Owning => post[r].order # o
        BY <1>3, <2>1, KnownIds
      <3>2. \A q \in OrderId : q # o => orders'[q] = orders[q]
        BY <2>2
      <3> QED BY <1>0, <3>1, <3>2, KnownIds, OthersTouched
    <2>7. CancelsDispatched'
      <3>1. \A q \in OrderId : orders'[q].venue = orders[q].venue
                               /\ (Exists(q)' => Exists(q))
        BY <1>3, <2>1, <2>2 DEF OrderRow, Exists
      <3> SUFFICES ASSUME NEW d \in Cancels, cancel'[d].pc = "act"
                   PROVE  CancelsDispatched!(d)!2'
        BY DEF CancelsDispatched
      <3>2. cancel[d] = cancel'[d]
        BY <1>0, <2>0 DEF IInv, TypeOK, CancelRow
      <3>3. cancel[d].order \in OrderId
        BY <3>2, OrderAssumption DEF IInv, TypeOK, CancelsDispatched, OrderId
      <3> QED BY <1>0, <3>1, <3>2, <3>3 DEF IInv, CancelsDispatched
    <2>8. UniqueKeys'
      BY <1>3, <2>1, <2>2 DEF IInv, UniqueKeys, Exists, OrderRow
    <2> QED BY <1>1, <2>3, <2>4, <2>5, <2>6, <2>7, <2>8 DEF IInv
  <1> QED BY <1>2, <1>3

PostPcs == {"idle"} \cup InFlight \cup Replies \cup {"aborted"}

\* A handler's place is one of its places.
LEMMA PostPcTyped ==
  ASSUME IInv, NEW r \in Posts, NEW pc \in PostPcs
  PROVE  [post EXCEPT ![r].pc = pc] \in [Posts -> PostRow]
  BY DEF IInv, TypeOK, PostRow, PostPcs

\* One handler moves: what it has to show for HandlersOwn.
LEMMA OneHandlerMoves ==
  ASSUME IInv, NEW r \in Posts, lastOrderId' = lastOrderId,
         \A s \in Posts \ {r} : post'[s] = post[s],
         post'[r].pc # "idle" => /\ post'[r].team \in Teams
                                 /\ post'[r].key \in Keys
                                 /\ post'[r].payload \in Payloads,
         \A q \in OrderId : \/ orders'[q] = orders[q]
                            \/ post[r].pc \in Owning /\ q = post[r].order,
         post'[r].pc \in Owning =>
           /\ post[r].pc \in Owning
           /\ post'[r] = [post[r] EXCEPT !.pc = post'[r].pc,
                                         !.price = post'[r].price]
           /\ post[r] \in PostRow
           /\ orders' = orders
  PROVE  HandlersOwn'
  <1>1. ASSUME NEW s \in Posts, s # r
        PROVE  HandlersOwn!(s)'
    <2>1. HandlersOwn!(s)
      BY DEF IInv, HandlersOwn
    <2>2. post'[s] = post[s]
      BY <1>1
    <2>3. ASSUME post[s].pc \in Owning
          PROVE  orders'[post[s].order] = orders[post[s].order]
      <3>1. post[s].order \in OrderId
        BY <2>3, KnownIds
      <3>2. post[r].pc \in Owning => post[s].order # post[r].order
        BY <1>1, <2>1, <2>3
      <3> QED BY <3>1, <3>2
    <2>4. ASSUME post[s].pc \in Owning, NEW t \in Posts \ {s}, post'[t].pc \in Owning
          PROVE  post'[t].order # post'[s].order
      <3>1. CASE t = r
        <4>1. post[r].pc \in Owning /\ post'[r].order = post[r].order
          BY <2>4, <3>1 DEF PostRow
        <4> QED BY <1>1, <2>1, <2>2, <2>4, <3>1, <4>1
      <3>2. CASE t # r
        BY <2>1, <2>2, <2>4, <3>2
      <3> QED BY <3>1, <3>2
    <2> QED BY <2>1, <2>2, <2>3, <2>4 DEF Exists
  <1>2. HandlersOwn!(r)'
    <2>1. HandlersOwn!(r)
      BY DEF IInv, HandlersOwn
    <2>2. ASSUME post'[r].pc \in Owning
          PROVE  /\ post[r].pc \in Owning
                 /\ post'[r].order = post[r].order
                 /\ post'[r].team = post[r].team
                 /\ post'[r].key = post[r].key
                 /\ post'[r].payload = post[r].payload
                 /\ orders' = orders
      BY <2>2 DEF PostRow
    <2> QED BY <2>1, <2>2 DEF Exists
  <1> QED BY <1>1, <1>2 DEF HandlersOwn

\* Nothing but a handler changes.
LEMMA OnlyPostInv ==
  ASSUME IInv, UNCHANGED <<round, market, books, cancel, worker>>,
         post' \in [Posts -> PostRow], HandlersOwn'
  PROVE  IInv'
  <1> USE DEF books
  <1>1. TypeOK'
    BY DEF IInv, TypeOK
  <1>2. OpenPrices'
    BY DEF IInv, OpenPrices
  <1> QED BY <1>1, <1>2, SameRows, SameCancels DEF IInv

LEMMA AbortPostInv ==
  ASSUME IInv, NEW r \in Posts, AbortPost(r)
  PROVE  IInv'
  <1>1. post' \in [Posts -> PostRow]
    BY PostPcTyped DEF AbortPost, PostPcs
  <1>2. post \in [Posts -> PostRow]
    BY DEF IInv, TypeOK
  <1>3. HandlersOwn'
    <2>1. HandlersOwn!(r) /\ post[r].pc # "idle"
      BY DEF IInv, HandlersOwn, AbortPost, InFlight
    <2>2. post'[r] = [post[r] EXCEPT !.pc = "aborted"]
      BY <1>2 DEF AbortPost
    <2>3. post[r] \in PostRow
      BY <1>2
    <2>4. /\ post'[r].team = post[r].team
          /\ post'[r].key = post[r].key
          /\ post'[r].payload = post[r].payload
          /\ post'[r].pc = "aborted"
      BY <2>2, <2>3 DEF PostRow
    <2> QED BY <1>2, <2>1, <2>4, OneHandlerMoves DEF AbortPost, books, Owning
  <1> QED BY <1>1, <1>3, OnlyPostInv DEF AbortPost

LEMMA ReceiveInv ==
  ASSUME IInv, NEW r \in Posts, NEW t \in Teams, NEW k \in Keys,
         NEW p \in Payloads, Receive(r, t, k, p)
  PROVE  IInv'
  <1>1. PICK pc \in {"lookup", "error"} :
          post' = [post EXCEPT ![r] = [@ EXCEPT !.pc = pc, !.team = t, !.key = k,
                                                !.payload = p]]
    BY DEF Receive
  <1>2. post \in [Posts -> PostRow]
    BY DEF IInv, TypeOK
  <1>3. post' \in [Posts -> PostRow]
    <2>1. post[r] \in PostRow
      BY <1>2
    <2>2. [post[r] EXCEPT !.pc = pc, !.team = t, !.key = k, !.payload = p] \in PostRow
      BY <2>1 DEF PostRow, InFlight, Replies
    <2> QED BY <1>1, <1>2, <2>2
  <1>4. post'[r].pc = pc /\ post'[r].team = t /\ post'[r].key = k
        /\ post'[r].payload = p
    BY <1>1, <1>2 DEF PostRow
  <1>5. HandlersOwn'
    BY <1>1, <1>2, <1>4, OneHandlerMoves DEF Receive, books, Owning
  <1> QED BY <1>3, <1>5, OnlyPostInv DEF Receive

\* The answer to a call whose key is known is of the right type.
LEMMA ReplayTyped ==
  ASSUME IInv, NEW r \in Posts, NEW o \in OrderId
  PROVE  /\ ReplayOf(r, o) \in PostRow
         /\ ReplayOf(r, o).pc \in {"replayed", "conflict"}
         /\ ReplayOf(r, o).team = post[r].team
         /\ ReplayOf(r, o).key = post[r].key
         /\ ReplayOf(r, o).payload = post[r].payload
  <1>1. post[r] \in PostRow
    BY DEF IInv, TypeOK
  <1> QED BY <1>1 DEF ReplayOf, PostRow, Replies

LEMMA LookupAndCheckRiskInv ==
  ASSUME IInv, NEW r \in Posts, LookupAndCheckRisk(r)
  PROVE  IInv'
  <1>1. post \in [Posts -> PostRow] /\ HandlersOwn!(r) /\ post[r].pc # "idle"
    BY DEF IInv, TypeOK, HandlersOwn, LookupAndCheckRisk
  <1>2. PICK new \in PostRow :
          /\ post' = [post EXCEPT ![r] = new]
          /\ new.pc \in {"replayed", "conflict", "reject", "create"}
          /\ new.team = post[r].team /\ new.key = post[r].key
          /\ new.payload = post[r].payload
    <2>1. CASE \E o \in WithKey(post[r].team, post[r].key) :
                 post' = [post EXCEPT ![r] = ReplayOf(r, o)]
      BY <2>1, ReplayTyped DEF WithKey
    <2>2. CASE \E pc \in {"reject", "create"} : post' = [post EXCEPT ![r].pc = pc]
      <3>1. PICK pc \in {"reject", "create"} :
              post' = [post EXCEPT ![r] = [post[r] EXCEPT !.pc = pc]]
        BY <2>2
      <3>2. post[r] \in PostRow
        BY <1>1
      <3>3. [post[r] EXCEPT !.pc = pc] \in PostRow
        BY <3>2 DEF PostRow, InFlight
      <3> QED BY <3>1, <3>2, <3>3 DEF PostRow
    <2> QED BY <2>1, <2>2 DEF LookupAndCheckRisk
  <1>3. post' \in [Posts -> PostRow]
    BY <1>1, <1>2
  <1>4. HandlersOwn'
    <2>1. post'[r] = new
      BY <1>1, <1>2
    <2> QED BY <1>1, <1>2, <2>1, OneHandlerMoves DEF LookupAndCheckRisk, books, Owning
  <1> QED BY <1>3, <1>4, OnlyPostInv DEF LookupAndCheckRisk

\* The price of the other outcome.
LEMMA OtherSide == \A yes \in 1..(BPS - 1) : BPS - yes \in 1..(BPS - 1)
  BY DEF BPS

\* A price of an open market is one a trade has a quantity at.
LEMMA PriceTyped ==
  ASSUME IInv, NEW p \in Payloads, market[p.market].status = "open"
  PROVE  PriceOf(p) \in 1..(BPS - 1)
  <1>1. p.market \in Markets
    BY OrderAssumption DEF Payload
  <1>2. market[p.market].yes \in 1..(BPS - 1)
    BY <1>1 DEF IInv, OpenPrices
  <1>3. \A yes \in 1..(BPS - 1) : BPS - yes \in 1..(BPS - 1)
    BY OtherSide
  <1> QED BY <1>2, <1>3 DEF PriceOf, OutcomePrice

LEMMA PlaceAtVenueInv ==
  ASSUME IInv, NEW r \in Posts, PlaceAtVenue(r)
  PROVE  IInv'
  <1>1. post \in [Posts -> PostRow] /\ post[r] \in PostRow
    BY DEF IInv, TypeOK
  <1>2. HandlersOwn!(r) /\ post[r].pc = "place"
    BY DEF IInv, HandlersOwn, PlaceAtVenue
  <1>3. PICK pc \in {"dispatch", "fail"}, price \in 0..BPS :
          post' = [post EXCEPT ![r] = [post[r] EXCEPT !.pc = pc, !.price = price]]
    <2>1. CASE post' = [post EXCEPT ![r].pc = "fail"]
      <3>1. post[r].price \in 0..BPS
        BY <1>1 DEF PostRow
      <3>2. post' = [post EXCEPT ![r] = [post[r] EXCEPT !.pc = "fail",
                                                        !.price = post[r].price]]
        BY <1>1, <2>1 DEF PostRow
      <3> QED BY <3>1, <3>2
    <2>2. CASE /\ market[post[r].payload.market].status = "open"
               /\ post' = [post EXCEPT ![r].pc = "dispatch",
                    ![r].price = IF Crosses(post[r].payload, PriceOf(post[r].payload))
                                 THEN PriceOf(post[r].payload) ELSE 0]
      <3> DEFINE price == IF Crosses(post[r].payload, PriceOf(post[r].payload))
                          THEN PriceOf(post[r].payload) ELSE 0
      <3>1. price \in 0..BPS
        <4>1. post[r].payload \in Payloads
          BY <1>2
        <4>2. PriceOf(post[r].payload) \in 1..(BPS - 1)
          BY <2>2, <4>1, PriceTyped
        <4>3. \A n \in 1..(BPS - 1) : n \in 0..BPS
          BY DEF BPS
        <4>4. 0 \in 0..BPS
          BY DEF BPS
        <4> QED BY <4>2, <4>3, <4>4
      <3>2. post' = [post EXCEPT ![r] = [post[r] EXCEPT !.pc = "dispatch",
                                                        !.price = price]]
        BY <1>1, <2>2
      <3> HIDE DEF price
      <3> QED BY <3>1, <3>2
    <2> QED BY <2>1, <2>2 DEF PlaceAtVenue
  <1>4. [post[r] EXCEPT !.pc = pc, !.price = price] \in PostRow
    BY <1>1 DEF PostRow, InFlight
  <1>5. post' \in [Posts -> PostRow]
    BY <1>1, <1>3, <1>4
  <1>6. HandlersOwn'
    <2>1. post'[r] = [post[r] EXCEPT !.pc = pc, !.price = price]
      BY <1>1, <1>3
    <2>2. /\ post'[r].pc = pc /\ post'[r].price = price
          /\ post'[r].team = post[r].team /\ post'[r].key = post[r].key
          /\ post'[r].payload = post[r].payload
      BY <1>1, <2>1 DEF PostRow
    <2>3. UNCHANGED <<orders, lastOrderId>>
      BY DEF PlaceAtVenue, books
    <2> QED BY <1>1, <1>2, <1>3, <2>1, <2>2, <2>3, OneHandlerMoves DEF Owning
  <1> QED BY <1>5, <1>6, OnlyPostInv DEF PlaceAtVenue

\* The row a handler inserts.
RowOf(r, status) == [status |-> status, venue |-> FALSE, team |-> post[r].team,
                     key |-> post[r].key, payload |-> post[r].payload]

\* The insertion of a row, and the handler that goes on with it.
LEMMA InsertOrderInv ==
  ASSUME IInv, NEW r \in Posts, post[r].pc \in {"create", "reject"},
         NEW status \in {"submitted", "rejected"}, NEW next \in {"place", "rejected"},
         next = "place" => status = "submitted",
         WithKey(post[r].team, post[r].key) = {},
         InsertOrder(r, status),
         post' = [post EXCEPT ![r].pc = next, ![r].order = lastOrderId + 1],
         UNCHANGED <<round, market, fills, positions, settlements, cancel, worker>>
  PROVE  IInv'
  <1> DEFINE n == lastOrderId + 1
  <1>1. n \in OrderId /\ n \notin 1..lastOrderId /\ lastOrderId' = n
    BY OrderAssumption, KnownIds DEF InsertOrder, OrderId
  <1>1a. n > lastOrderId /\ lastOrderId \in Nat
    BY KnownIds
  <1>2. ~Exists(n) /\ fills[n] = <<>>
    BY <1>1, <1>1a DEF IInv, RowsComplete
  <1>3. /\ post \in [Posts -> PostRow] /\ post[r] \in PostRow
        /\ post[r].team \in Teams /\ post[r].key \in Keys
        /\ post[r].payload \in Payloads
    BY DEF IInv, TypeOK, HandlersOwn
  <1>4. RowOf(r, status) \in OrderRow
    BY <1>3 DEF RowOf, OrderRow, Statuses
  <1>5. \A q \in OrderId : orders'[q] = IF q = n THEN RowOf(r, status) ELSE orders[q]
    BY <1>1 DEF InsertOrder, IInv, TypeOK, RowOf
  <1>6. orders' \in [OrderId -> OrderRow]
    BY <1>4 DEF InsertOrder, IInv, TypeOK, RowOf
  <1> HIDE DEF n
  <1>7. post' = [post EXCEPT ![r] = [post[r] EXCEPT !.pc = next, !.order = n]]
    BY <1>3 DEF n
  <1>8. [post[r] EXCEPT !.pc = next, !.order = n] \in PostRow
    BY <1>1, <1>3 DEF PostRow, InFlight, Replies
  <1>9. post' \in [Posts -> PostRow]
    BY <1>3, <1>7, <1>8
  <1>10. TypeOK'
    <2>1. n \in 0..MaxOrderId
      BY <1>1 DEF OrderId
    <2> QED BY <1>1, <1>6, <1>9, <2>1 DEF IInv, TypeOK
  <1>11. RowsComplete'
    <2> SUFFICES ASSUME NEW q \in OrderId PROVE RowsComplete!(q)'
      BY DEF RowsComplete
    <2>1. CASE q = n
      <3>1. ~(q > n)
        BY <1>1, <2>1 DEF OrderId
      <3> QED BY <1>1, <1>3, <1>5, <2>1, <3>1 DEF RowOf, Exists
    <2>2. CASE q # n
      <3>1. RowsComplete!(q)
        BY DEF IInv, RowsComplete
      <3>2. q > n => q > lastOrderId
        BY <1>1a DEF n, OrderId
      <3> QED BY <1>1, <1>5, <2>2, <3>1, <3>2 DEF Exists
    <2> QED BY <2>1, <2>2
  <1>12. StatusTells'
    <2> SUFFICES ASSUME NEW q \in OrderId PROVE StatusTells!(q)'
      BY DEF StatusTells
    <2>1. CASE q = n
      BY <1>2, <1>5, <2>1 DEF RowOf
    <2>2. CASE q # n
      BY <1>5, <2>2 DEF IInv, StatusTells
    <2> QED BY <2>1, <2>2
  <1>13. HandlersOwn'
    <2>1. \A s \in Posts : post[s].pc \in Owning =>
            /\ s # r /\ post[s].order \in OrderId /\ post[s].order # n
            /\ post[s].order \in 1..lastOrderId
            /\ post'[s] = post[s] /\ orders'[post[s].order] = orders[post[s].order]
      <3> SUFFICES ASSUME NEW s \in Posts, post[s].pc \in Owning
                   PROVE  /\ s # r /\ post[s].order \in OrderId
                          /\ post[s].order # n /\ post[s].order \in 1..lastOrderId
                          /\ post'[s] = post[s]
                          /\ orders'[post[s].order] = orders[post[s].order]
        OBVIOUS
      <3>1. s # r
        BY DEF Owning
      <3>2. HandlersOwn!(s)
        BY DEF IInv, HandlersOwn
      <3>3. post[s].order \in OrderId /\ post[s].order # n
        BY <1>1, <3>2, KnownIds
      <3> QED BY <1>3, <1>5, <1>7, <3>1, <3>2, <3>3
    <2>2. \A s \in Posts \ {r} : post'[s] = post[s]
      BY <1>3, <1>7
    <2>3. /\ post'[r].pc = next /\ post'[r].order = n
          /\ post'[r].team = post[r].team /\ post'[r].key = post[r].key
          /\ post'[r].payload = post[r].payload
      <3>1. post'[r] = [post[r] EXCEPT !.pc = next, !.order = n]
        BY <1>3, <1>7
      <3> QED BY <1>3, <3>1 DEF PostRow
    <2>4. n \in 1..n /\ 1..lastOrderId \subseteq 1..n
      BY <1>1a DEF n
    <2>5. ASSUME NEW s \in Posts, s # r PROVE HandlersOwn!(s)'
      <3>1. HandlersOwn!(s) /\ post'[s] = post[s]
        BY <2>2, <2>5 DEF IInv, HandlersOwn
      <3>2. ASSUME post[s].pc \in Owning, NEW t \in Posts \ {s}, post'[t].pc \in Owning
            PROVE  post'[t].order # post'[s].order
        BY <2>1, <2>2, <2>3, <3>1, <3>2
      <3> QED BY <1>1, <2>1, <2>4, <3>1, <3>2 DEF Exists
    <2>6. HandlersOwn!(r)'
      <3>1. next = "place" => orders'[n] =
              [status |-> "submitted", venue |-> FALSE, team |-> post'[r].team,
               key |-> post'[r].key, payload |-> post'[r].payload]
        BY <1>1, <1>5, <2>3 DEF RowOf
      <3>2. next \in Owning => next = "place"
        BY DEF Owning
      <3>3. \A s \in Posts \ {r} : post'[s].pc \in Owning => post'[s].order # n
        BY <2>1, <2>2
      <3> QED BY <1>1, <1>3, <2>3, <2>4, <3>1, <3>2, <3>3
    <2> QED BY <2>5, <2>6 DEF HandlersOwn
  <1>14. CancelsDispatched'
    <2> SUFFICES ASSUME NEW c \in Cancels PROVE CancelsDispatched!(c)'
      BY DEF CancelsDispatched
    <2>1. CancelsDispatched!(c)
      BY DEF IInv, CancelsDispatched
    <2>2. cancel[c].pc = "act" => cancel[c].order \in OrderId /\ cancel[c].order # n
      BY <1>1, <2>1, KnownIds
    <2>3. 1..lastOrderId \subseteq 1..n
      BY <1>1a DEF n
    <2> QED BY <1>1, <1>5, <2>1, <2>2, <2>3 DEF Exists
  <1>15. OpenPrices'
    BY DEF IInv, OpenPrices
  <1>16. UniqueKeys'
    <2> SUFFICES ASSUME NEW a \in OrderId, NEW b \in OrderId,
                        Exists(a)', Exists(b)',
                        orders'[a].team = orders'[b].team,
                        orders'[a].key = orders'[b].key
                 PROVE  a = b
      BY DEF UniqueKeys, Exists
    <2>1. CASE a # n /\ b # n
      BY <1>5, <2>1 DEF IInv, UniqueKeys, Exists
    <2>2. \A q \in OrderId : Exists(q) => \/ orders[q].team # post[r].team
                                          \/ orders[q].key # post[r].key
      BY DEF WithKey
    <2>3. orders'[n].team = post[r].team /\ orders'[n].key = post[r].key
      BY <1>1, <1>5 DEF RowOf
    <2>4. CASE a = n /\ b # n
      BY <1>5, <2>2, <2>3, <2>4 DEF Exists
    <2>5. CASE a # n /\ b = n
      BY <1>5, <2>2, <2>3, <2>5 DEF Exists
    <2> QED BY <2>1, <2>4, <2>5
  <1> QED BY <1>10, <1>11, <1>12, <1>13, <1>14, <1>15, <1>16 DEF IInv

LEMMA CreateOrderInv ==
  ASSUME IInv, NEW r \in Posts, post[r].pc \in {"create", "reject"},
         NEW status \in {"submitted", "rejected"}, NEW next \in {"place", "rejected"},
         next = "place" => status = "submitted",
         CreateOrder(r, status, next),
         UNCHANGED <<round, market, fills, positions, settlements, cancel, worker>>
  PROVE  IInv'
  <1>1. CASE \E o \in WithKey(post[r].team, post[r].key) :
               /\ post' = [post EXCEPT ![r] =
                    IF post[r].key \in ClientKeys
                    THEN ReplayOf(r, o) ELSE [@ EXCEPT !.pc = "error"]]
               /\ UNCHANGED <<orders, lastOrderId>>
    <2>1. /\ post \in [Posts -> PostRow] /\ post[r] \in PostRow
          /\ HandlersOwn!(r) /\ post[r].pc # "idle"
      BY DEF IInv, TypeOK, HandlersOwn
    <2>2. PICK o \in WithKey(post[r].team, post[r].key) :
            /\ post' = [post EXCEPT ![r] =
                 IF post[r].key \in ClientKeys
                 THEN ReplayOf(r, o) ELSE [post[r] EXCEPT !.pc = "error"]]
            /\ UNCHANGED <<orders, lastOrderId>>
      BY <1>1
    <2>3. PICK new \in PostRow :
            /\ post' = [post EXCEPT ![r] = new]
            /\ new.pc \in {"replayed", "conflict", "error"}
            /\ new.team = post[r].team /\ new.key = post[r].key
            /\ new.payload = post[r].payload
      <3>1. CASE post[r].key \in ClientKeys
        BY <2>2, <3>1, ReplayTyped DEF WithKey
      <3>2. CASE post[r].key \notin ClientKeys
        <4>1. post' = [post EXCEPT ![r] = [post[r] EXCEPT !.pc = "error"]]
          BY <2>2, <3>2
        <4>2. [post[r] EXCEPT !.pc = "error"] \in PostRow
          BY <2>1 DEF PostRow, Replies
        <4> QED BY <2>1, <4>1, <4>2 DEF PostRow
      <3> QED BY <3>1, <3>2
    <2>4. post'[r] = new /\ post' \in [Posts -> PostRow]
      BY <2>1, <2>3
    <2>5. HandlersOwn'
      BY <2>1, <2>2, <2>3, <2>4, OneHandlerMoves DEF Owning
    <2> QED BY <2>2, <2>4, <2>5, OnlyPostInv DEF books
  <1>2. CASE /\ WithKey(post[r].team, post[r].key) = {}
             /\ InsertOrder(r, status)
             /\ post' = [post EXCEPT ![r].pc = next, ![r].order = lastOrderId + 1]
    BY <1>2, InsertOrderInv
  <1> QED BY <1>1, <1>2 DEF CreateOrder

LEMMA CreateSubmittedInv ==
  ASSUME IInv, NEW r \in Posts, CreateSubmitted(r)
  PROVE  IInv'
  BY CreateOrderInv DEF CreateSubmitted

LEMMA CreateRejectedInv ==
  ASSUME IInv, NEW r \in Posts, CreateRejected(r)
  PROVE  IInv'
  BY CreateOrderInv DEF CreateRejected

\* A handler ends: its order gets its status, and its fill if it has one.
LEMMA HandlerEndsInv ==
  ASSUME IInv, NEW r \in Posts, post[r].pc \in Owning, Exists(post[r].order),
         NEW status \in {"failed", "open", "filled"}, NEW venue \in BOOLEAN,
         NEW pc \in {"failed", "created"},
         orders' = [orders EXCEPT ![post[r].order].status = status,
                                  ![post[r].order].venue = venue],
         post' = [post EXCEPT ![r].pc = pc],
         fills' \in [OrderId -> Seq(1..BPS)],
         \A q \in OrderId : q # post[r].order => fills'[q] = fills[q],
         status = "filled" => venue /\ Len(fills'[post[r].order]) = 1,
         status = "open" => venue /\ fills'[post[r].order] = <<>>,
         status = "failed" => fills'[post[r].order] = <<>>,
         positions' \in [Holding -> Nat],
         UNCHANGED <<round, market, lastOrderId, settlements, cancel, worker>>
  PROVE  IInv'
  <1> DEFINE o == post[r].order
  <1>1. /\ o \in OrderId /\ orders[o].status = "submitted" /\ ~orders[o].venue
        /\ post \in [Posts -> PostRow] /\ post[r] \in PostRow
        /\ orders \in [OrderId -> OrderRow] /\ orders[o] \in OrderRow
        /\ HandlersOwn!(r)
    BY KnownIds DEF IInv, TypeOK, HandlersOwn
  <1> HIDE DEF o
  <1>2. /\ [orders[o] EXCEPT !.status = status, !.venue = venue] \in OrderRow
        /\ orders' = [orders EXCEPT ![o] =
                        [orders[o] EXCEPT !.status = status, !.venue = venue]]
    <2>1. orders' = [orders EXCEPT ![o] =
                       [orders[o] EXCEPT !.status = status, !.venue = venue]]
      BY <1>1 DEF o
    <2> QED BY <1>1, <2>1 DEF OrderRow, Statuses
  <1>3. /\ orders'[o].status = status /\ orders'[o].venue = venue
        /\ orders'[o].team = orders[o].team /\ orders'[o].key = orders[o].key
        /\ orders'[o].payload = orders[o].payload
        /\ \A q \in OrderId : q # o => orders'[q] = orders[q]
    <2>1. orders'[o] = [orders[o] EXCEPT !.status = status, !.venue = venue]
      BY <1>1, <1>2
    <2>2. \A q \in OrderId : q # o => orders'[q] = orders[q]
      BY <1>1, <1>2
    <2> QED BY <1>1, <2>1, <2>2 DEF OrderRow
  <1>4. Exists(o) /\ \A q \in OrderId : Exists(q)' <=> Exists(q)
    BY <1>1, <1>3 DEF Exists, o
  <1>5. TypeOK'
    <2>1. post' \in [Posts -> PostRow]
      BY PostPcTyped DEF PostPcs, Replies
    <2>2. orders' \in [OrderId -> OrderRow]
      BY <1>1, <1>2
    <2> QED BY <2>1, <2>2 DEF IInv, TypeOK
  <1>6. RowsComplete'
    <2> SUFFICES ASSUME NEW q \in OrderId PROVE RowsComplete!(q)'
      BY DEF RowsComplete
    <2>1. RowsComplete!(q)
      BY DEF IInv, RowsComplete
    <2> QED BY <1>3, <1>4, <2>1 DEF o
  <1>7. StatusTells'
    <2> SUFFICES ASSUME NEW q \in OrderId PROVE StatusTells!(q)'
      BY DEF StatusTells
    <2>1. CASE q = o
      BY <1>3, <2>1 DEF o
    <2>2. CASE q # o
      BY <1>3, <2>2 DEF IInv, StatusTells, o
    <2> QED BY <2>1, <2>2
  <1>8. HandlersOwn'
    <2>1. post'[r].pc = pc /\ post'[r].team = post[r].team
          /\ post'[r].key = post[r].key /\ post'[r].payload = post[r].payload
      <3>1. post'[r] = [post[r] EXCEPT !.pc = pc]
        BY <1>1
      <3> QED BY <1>1, <3>1 DEF PostRow
    <2>2. post[r].pc # "idle"
      BY DEF Owning
    <2> QED BY <1>1, <1>3, <2>1, <2>2, OneHandlerMoves DEF Owning, o
  <1>9. CancelsDispatched'
    <2> SUFFICES ASSUME NEW c \in Cancels PROVE CancelsDispatched!(c)'
      BY DEF CancelsDispatched
    <2>1. CancelsDispatched!(c)
      BY DEF IInv, CancelsDispatched
    <2>2. cancel[c].pc = "act" => cancel[c].order # o /\ cancel[c].order \in OrderId
      BY <1>1, <1>4, <2>1, KnownIds
    <2> QED BY <1>3, <1>4, <2>1, <2>2
  <1>10. OpenPrices'
    BY DEF IInv, OpenPrices
  <1>11. UniqueKeys'
    <2>1. \A q \in OrderId : orders'[q].team = orders[q].team
                             /\ orders'[q].key = orders[q].key
      BY <1>3
    <2> QED BY <1>4, <2>1 DEF IInv, UniqueKeys
  <1> QED BY <1>5, <1>6, <1>7, <1>8, <1>9, <1>10, <1>11 DEF IInv

\* A handler ends in an error and leaves the books alone.
LEMMA HandlerErrsInv ==
  ASSUME IInv, NEW r \in Posts, post[r].pc \in Owning,
         post' = [post EXCEPT ![r].pc = "error"],
         UNCHANGED <<round, market, books, cancel, worker>>
  PROVE  IInv'
  <1>1. /\ post \in [Posts -> PostRow] /\ post[r] \in PostRow
        /\ HandlersOwn!(r) /\ post[r].pc # "idle"
    BY DEF IInv, TypeOK, HandlersOwn, Owning
  <1>2. post' \in [Posts -> PostRow]
    BY PostPcTyped DEF PostPcs, Replies
  <1>3. post'[r].pc = "error" /\ post'[r].team = post[r].team
        /\ post'[r].key = post[r].key /\ post'[r].payload = post[r].payload
    <2>1. post'[r] = [post[r] EXCEPT !.pc = "error"]
      BY <1>1
    <2> QED BY <1>1, <2>1 DEF PostRow
  <1>4. HandlersOwn'
    BY <1>1, <1>3, OneHandlerMoves DEF Owning, books
  <1> QED BY <1>2, <1>4, OnlyPostInv

LEMMA RecordVenueFailureInv ==
  ASSUME IInv, NEW r \in Posts, RecordVenueFailure(r)
  PROVE  IInv'
  <1>1. post[r].pc = "fail" /\ post[r].pc \in Owning
    BY DEF RecordVenueFailure, Owning
  <1>2. CASE Exists(post[r].order)
    <2>1. fills[post[r].order] = <<>>
      BY <1>1, <1>2, KnownIds DEF IInv, StatusTells
    <2>2. fills \in [OrderId -> Seq(1..BPS)] /\ positions \in [Holding -> Nat]
      BY DEF IInv, TypeOK
    <2>3. /\ orders' = [orders EXCEPT ![post[r].order].status = "failed",
                                      ![post[r].order].venue = FALSE]
          /\ post' = [post EXCEPT ![r].pc = "failed"]
          /\ UNCHANGED <<round, market, lastOrderId, fills, positions,
                         settlements, cancel, worker>>
      BY <1>2 DEF RecordVenueFailure
    <2> QED BY <1>1, <1>2, <2>1, <2>2, <2>3, HandlerEndsInv
  <1>3. CASE ~Exists(post[r].order)
    BY <1>1, <1>3, HandlerErrsInv DEF RecordVenueFailure, books
  <1> QED BY <1>2, <1>3

\* A fill that can be applied leaves a position that is not negative.
LEMMA FillTyped ==
  ASSUME NEW held \in [Holding -> Nat], NEW team \in Teams, NEW p \in Payloads,
         NEW price \in Nat, CanApply(held, team, p, price)
  PROVE  ApplyFill(held, team, p, price) \in [Holding -> Nat]
  <1>1. /\ p.market \in Markets /\ p.action \in Actions /\ p.outcome \in Outcomes
        /\ p.amount \in Nat
    BY OrderAssumption DEF Payload
  <1>2. HoldingOf(team, p) \in Holding
    BY <1>1 DEF HoldingOf, Holding
  <1> DEFINE quantity == QuantityForAmount(p.amount, price)
             h        == HoldingOf(team, p)
  <1>3. quantity \in Nat
    <2>1. price \in Int
      OBVIOUS
    <2> QED BY <1>1, <2>1, QuantityNat
  <1>4. p.action = "sell" => quantity <= held[h]
    BY DEF CanApply
  <1>5. ApplyFill(held, team, p, price) =
          [held EXCEPT ![h] = IF p.action = "buy" THEN held[h] + quantity
                              ELSE held[h] - quantity]
    BY DEF ApplyFill
  <1> HIDE DEF quantity, h
  <1>6. p.action = "buy" => held[h] + quantity \in Nat
    BY <1>2, <1>3 DEF h
  <1>7. p.action = "sell" => held[h] - quantity \in Nat
    BY <1>2, <1>3, <1>4 DEF h
  <1> QED BY <1>1, <1>2, <1>5, <1>6, <1>7 DEF h, Actions

LEMMA RecordDispatchInv ==
  ASSUME IInv, NEW r \in Posts, RecordDispatch(r)
  PROVE  IInv'
  <1>1. post[r].pc = "dispatch" /\ post[r].pc \in Owning
    BY DEF RecordDispatch, Owning
  <1>2. CASE DispatchCommits(r)
    <2> DEFINE o == post[r].order
               price == post[r].price
    <2>1. Exists(o) /\ o \in OrderId /\ fills[o] = <<>>
      BY <1>1, <1>2, KnownIds DEF IInv, StatusTells, DispatchCommits
    <2>2. /\ fills \in [OrderId -> Seq(1..BPS)] /\ positions \in [Holding -> Nat]
          /\ price \in 0..BPS
          /\ post[r].team \in Teams /\ post[r].payload \in Payloads
      BY <1>1 DEF IInv, TypeOK, PostRow, HandlersOwn
    <2>3. /\ orders' = [orders EXCEPT ![o].status = IF price > 0 THEN "filled" ELSE "open",
                                      ![o].venue = TRUE]
          /\ fills' = IF price > 0 THEN [fills EXCEPT ![o] = Append(fills[o], price)]
                      ELSE fills
          /\ positions' = IF price > 0 THEN ApplyFill(positions, post[r].team,
                                              post[r].payload, price)
                          ELSE positions
          /\ post' = [post EXCEPT ![r].pc = "created"]
          /\ UNCHANGED <<round, market, lastOrderId, settlements, cancel, worker>>
      BY <1>2 DEF RecordDispatch
    <2>4. CASE price > 0
      <3>1. price \in 1..BPS /\ price \in Nat
        <4> HIDE DEF price
        <4>1. ASSUME NEW n \in 0..BPS, n > 0 PROVE n \in 1..BPS /\ n \in Nat
          BY <4>1 DEF BPS
        <4> QED BY <2>2, <2>4, <4>1
      <3>2. fills[o] \in Seq(1..BPS)
        BY <2>1, <2>2
      <3>3. Append(fills[o], price) \in Seq(1..BPS) /\ Len(Append(fills[o], price)) = 1
        BY <2>1, <3>1, <3>2
      <3>4. positions' \in [Holding -> Nat]
        BY <1>2, <2>2, <2>3, <2>4, <3>1, FillTyped DEF DispatchCommits
      <3>5. /\ fills' \in [OrderId -> Seq(1..BPS)]
            /\ fills'[o] = Append(fills[o], price)
            /\ \A q \in OrderId : q # o => fills'[q] = fills[q]
        BY <2>1, <2>2, <2>3, <2>4, <3>3
      <3>6. Len(fills'[o]) = 1
        BY <3>3, <3>5
      <3> QED BY <1>1, <2>1, <2>3, <2>4, <3>4, <3>5, <3>6, HandlerEndsInv
    <2>5. CASE ~(price > 0)
      BY <1>1, <2>1, <2>2, <2>3, <2>5, HandlerEndsInv
    <2> QED BY <2>4, <2>5
  <1>3. CASE ~DispatchCommits(r)
    BY <1>1, <1>3, HandlerErrsInv DEF RecordDispatch, books
  <1> QED BY <1>2, <1>3

\* A reset deletes rows, fills, positions and settlements of some teams.
LEMMA DeleteRowsOfInv ==
  ASSUME IInv, NEW team \in SUBSET Teams, DeleteRowsOf(team),
         round' \in {"draft", "active", "paused", "completed"}
  PROVE  IInv'
  <1>1. /\ orders \in [OrderId -> OrderRow] /\ fills \in [OrderId -> Seq(1..BPS)]
        /\ positions \in [Holding -> Nat] /\ settlements \in [Holding -> Nat]
    BY DEF IInv, TypeOK
  <1>2. /\ \A o \in OrderId :
             \/ orders'[o] = orders[o] /\ fills'[o] = fills[o]
             \/ orders'[o] = NoRow /\ fills'[o] = <<>>
        /\ UNCHANGED <<market, lastOrderId, post, cancel, worker>>
    BY DEF DeleteRowsOf
  <1>3. TypeOK'
    <2>1. NoRow \in OrderRow
      BY DEF NoRow, OrderRow
    <2>2. orders' \in [OrderId -> OrderRow]
      BY <1>1, <2>1 DEF DeleteRowsOf
    <2>3. fills' \in [OrderId -> Seq(1..BPS)]
      <3>1. <<>> \in Seq(1..BPS)
        OBVIOUS
      <3> QED BY <1>1, <3>1 DEF DeleteRowsOf
    <2>4. positions' \in [Holding -> Nat] /\ settlements' \in [Holding -> Nat]
      BY <1>1 DEF DeleteRowsOf
    <2> QED BY <1>2, <2>2, <2>3, <2>4 DEF IInv, TypeOK
  <1>4. NoRow.status = "none"
    BY DEF NoRow
  <1>5. RowsComplete'
    <2> SUFFICES ASSUME NEW q \in OrderId PROVE RowsComplete!(q)'
      BY DEF RowsComplete
    <2>1. RowsComplete!(q)
      BY DEF IInv, RowsComplete
    <2> QED BY <1>2, <1>4, <2>1 DEF Exists
  <1>6. StatusTells'
    <2> SUFFICES ASSUME NEW q \in OrderId PROVE StatusTells!(q)'
      BY DEF StatusTells
    <2>1. StatusTells!(q)
      BY DEF IInv, StatusTells
    <2> QED BY <1>2, <1>4, <2>1
  <1>7. HandlersOwn'
    BY <1>2, KnownIds, OthersTouched
  <1>8. CancelsDispatched'
    <2> SUFFICES ASSUME NEW c \in Cancels PROVE CancelsDispatched!(c)'
      BY DEF CancelsDispatched
    <2>1. CancelsDispatched!(c)
      BY DEF IInv, CancelsDispatched
    <2> QED BY <1>2, <1>4, <2>1, KnownIds DEF Exists
  <1>9. OpenPrices'
    BY <1>2 DEF IInv, OpenPrices
  <1>10. UniqueKeys'
    <2>1. \A q \in OrderId : Exists(q)' => Exists(q) /\ orders'[q] = orders[q]
      BY <1>2, <1>4 DEF Exists
    <2> QED BY <2>1 DEF IInv, UniqueKeys, Exists
  <1> QED BY <1>3, <1>5, <1>6, <1>7, <1>8, <1>9, <1>10 DEF IInv

\* The price a seller gets is a price.
LEMMA BidTyped ==
  ASSUME NEW price \in 1..(BPS - 1)
  PROVE  price \in 1..BPS /\ Bid(price) \in 1..BPS
  <1>1. price \in Int /\ 1 <= price /\ price <= 9999
    BY DEF BPS
  <1>2. Bid(price) \in Int /\ 1 <= Bid(price) /\ Bid(price) <= 10000
    BY <1>1 DEF Bid
  <1>3. ASSUME NEW n \in Int, 1 <= n, n <= 10000 PROVE n \in 1..BPS
    BY <1>3 DEF BPS
  <1> QED BY <1>1, <1>2, <1>3

\* So is the price the worker fills at.
LEMMA WorkerPriceTyped ==
  ASSUME IInv, NEW o \in Fillable
  PROVE  WorkerPrice(orders[o].payload) \in 1..BPS
  <1>1. o \in OrderId /\ Exists(o) /\ market[orders[o].payload.market].status = "open"
    BY DEF Fillable, FillCandidates, Exists
  <1>2. orders[o].payload \in Payloads
    BY <1>1 DEF IInv, RowsComplete
  <1>3. PriceOf(orders[o].payload) \in 1..(BPS - 1)
    BY <1>1, <1>2, PriceTyped
  <1> QED BY <1>3, BidTyped DEF WorkerPrice

\* The transaction that fills resting orders.
LEMMA FillOpenOrdersInv == ASSUME IInv, FillOpenOrders PROVE IInv'
  <1>1. /\ worker' = "idle"
        /\ UNCHANGED <<round, market, lastOrderId, settlements, post, cancel>>
    BY DEF FillOpenOrders
  <1>2. OpenPrices'
    BY <1>1 DEF IInv, OpenPrices
  <1>3. CASE ~FillsApply
    <2>1. UNCHANGED <<orders, fills, positions>>
      BY <1>3 DEF FillOpenOrders
    <2>2. TypeOK'
      BY <1>1, <2>1 DEF IInv, TypeOK
    <2> QED BY <1>1, <1>2, <2>1, <2>2, SameRows, SameHandlers, SameCancels DEF IInv
  <1>4. CASE FillsApply
    <2>1. /\ positions' = Held[MaxOrderId]
          /\ orders' = [o \in OrderId |->
               IF o \in FilledNow THEN [orders[o] EXCEPT !.status = "filled"]
               ELSE IF o \in Fillable THEN [orders[o] EXCEPT !.status = "failed"]
               ELSE orders[o]]
          /\ fills' = [o \in OrderId |->
               IF o \in FilledNow
               THEN Append(fills[o], WorkerPrice(orders[o].payload)) ELSE fills[o]]
      BY <1>4 DEF FillOpenOrders
    <2>2. positions' \in [Holding -> Nat]
      BY <1>4, <2>1, OrderAssumption DEF FillsApply
    <2>3. FilledNow \subseteq Fillable
      BY DEF FilledNow
    <2>4. ASSUME NEW o \in Fillable
          PROVE  /\ o \in OrderId /\ Exists(o) /\ orders[o].venue
                 /\ orders[o] \in OrderRow /\ fills[o] = <<>>
                 /\ fills[o] \in Seq(1..BPS)
      <3>1. o \in OrderId /\ orders[o].venue
            /\ (orders[o].status = "submitted" \/ orders[o].status = "open")
        BY DEF Fillable, FillCandidates
      <3> QED BY <3>1 DEF IInv, TypeOK, StatusTells, Exists
    \* What becomes of each row.
    <2>5. ASSUME NEW o \in OrderId
          PROVE  /\ orders'[o].venue = orders[o].venue
                 /\ orders'[o].team = orders[o].team
                 /\ orders'[o].key = orders[o].key
                 /\ orders'[o].payload = orders[o].payload
                 /\ Exists(o)' <=> Exists(o)
                 /\ orders'[o] \in OrderRow
                 /\ fills'[o] \in Seq(1..BPS)
                 /\ o \in FilledNow => /\ orders'[o].status = "filled"
                                       /\ Len(fills'[o]) = 1
                 /\ o \in Fillable \ FilledNow => /\ orders'[o].status = "failed"
                                                  /\ fills'[o] = <<>>
                 /\ o \notin Fillable => /\ orders'[o] = orders[o]
                                         /\ fills'[o] = fills[o]
      <3>0. orders[o] \in OrderRow /\ fills[o] \in Seq(1..BPS)
        BY DEF IInv, TypeOK
      <3>1. CASE o \in FilledNow
        <4>1. orders'[o] = [orders[o] EXCEPT !.status = "filled"]
          BY <2>1, <3>1
        <4>2. fills'[o] = Append(<<>>, WorkerPrice(orders[o].payload))
          BY <2>1, <2>3, <2>4, <3>1
        <4>3. fills'[o] \in Seq(1..BPS) /\ Len(fills'[o]) = 1
          BY <2>3, <3>1, <4>2, WorkerPriceTyped
        <4> QED BY <2>3, <2>4, <3>0, <3>1, <4>1, <4>3 DEF OrderRow, Statuses, Exists
      <3>2. CASE o \in Fillable \ FilledNow
        <4>1. orders'[o] = [orders[o] EXCEPT !.status = "failed"] /\ fills'[o] = fills[o]
          BY <2>1, <3>2
        <4> QED BY <2>4, <3>0, <3>2, <4>1 DEF OrderRow, Statuses, Exists
      <3>3. CASE o \notin Fillable
        <4>1. orders'[o] = orders[o] /\ fills'[o] = fills[o]
          BY <2>1, <2>3, <3>3
        <4> QED BY <2>3, <3>0, <3>3, <4>1 DEF Exists
      <3> QED BY <3>1, <3>2, <3>3
    <2>6. TypeOK'
      <3>1. orders' \in [OrderId -> OrderRow]
        BY <2>1, <2>5
      <3>2. fills' \in [OrderId -> Seq(1..BPS)]
        BY <2>1, <2>5
      <3> QED BY <1>1, <2>2, <3>1, <3>2 DEF IInv, TypeOK
    <2>7. RowsComplete'
      <3> SUFFICES ASSUME NEW o \in OrderId PROVE RowsComplete!(o)'
        BY DEF RowsComplete
      <3>1. RowsComplete!(o)
        BY DEF IInv, RowsComplete
      <3> QED BY <1>1, <2>4, <2>5, <3>1
    <2>8. StatusTells'
      <3> SUFFICES ASSUME NEW o \in OrderId PROVE StatusTells!(o)'
        BY DEF StatusTells
      <3>1. StatusTells!(o)
        BY DEF IInv, StatusTells
      <3>2. CASE o \in FilledNow
        BY <2>3, <2>4, <2>5, <3>2
      <3>3. CASE o \in Fillable \ FilledNow
        BY <2>5, <3>3
      <3>4. CASE o \notin Fillable
        BY <2>5, <3>1, <3>4
      <3> QED BY <3>2, <3>3, <3>4
    <2>9. HandlersOwn'
      <3>1. \A r \in Posts : post[r].pc \in Owning => post[r].order \notin Fillable
        <4> SUFFICES ASSUME NEW r \in Posts, post[r].pc \in Owning,
                            post[r].order \in Fillable
                     PROVE  FALSE
          OBVIOUS
        <4>1. Exists(post[r].order) /\ orders[post[r].order].venue
          BY <2>4
        <4> QED BY <4>1, KnownIds
      <3> QED BY <1>1, <2>5, <3>1, KnownIds, OthersTouched
    <2>10. CancelsDispatched'
      <3> SUFFICES ASSUME NEW c \in Cancels PROVE CancelsDispatched!(c)'
        BY DEF CancelsDispatched
      <3>1. CancelsDispatched!(c)
        BY DEF IInv, CancelsDispatched
      <3> QED BY <1>1, <2>5, <3>1, KnownIds
    <2>11. UniqueKeys'
      BY <2>5 DEF IInv, UniqueKeys
    <2> QED BY <1>2, <2>6, <2>7, <2>8, <2>9, <2>10, <2>11 DEF IInv
  <1> QED BY <1>3, <1>4

-----------------------------------------------------------------------------
\* A step in which nothing changes.
LEMMA StutterInv == ASSUME IInv, UNCHANGED vars PROVE IInv'
  <1>1. UNCHANGED <<round, market, orders, lastOrderId, fills, positions, settlements,
                    post, cancel, worker>>
    BY DEF vars, books
  <1>2. TypeOK'
    BY <1>1 DEF IInv, TypeOK
  <1>3. OpenPrices'
    BY <1>1 DEF IInv, OpenPrices
  <1> QED BY <1>1, <1>2, <1>3, SameRows, SameHandlers, SameCancels DEF IInv

\* Every step preserves the invariant.
LEMMA NextIInv == ASSUME IInv, [Next]_vars PROVE IInv'
  <1>1. CASE Trading
    <2>1. ASSUME NEW r \in Posts, Request(r) PROVE IInv'
      BY <2>1, ReceiveInv DEF Request
    <2>2. ASSUME NEW r \in Posts, PostStep(r) PROVE IInv'
      BY <2>2, LookupAndCheckRiskInv, CreateSubmittedInv, CreateRejectedInv,
         PlaceAtVenueInv, RecordVenueFailureInv, RecordDispatchInv DEF PostStep
    <2>3. ASSUME NEW c \in Cancels, CancelRequest(c) PROVE IInv'
      BY <2>3, CheckCancelInv DEF CancelRequest
    <2>4. ASSUME NEW c \in Cancels, WriteCanceled(c) PROVE IInv'
      BY <2>4, WriteCanceledInv
    <2>5. ASSUME WorkerStep PROVE IInv'
      BY <2>5, WorkerTickInv, AdvanceMarketsInv, FillOpenOrdersInv DEF WorkerStep
    <2> QED BY <1>1, <2>1, <2>2, <2>3, <2>4, <2>5 DEF Trading
  <1>2. CASE Abort
    BY <1>2, AbortPostInv, AbortCancelInv, AbortTickInv DEF Abort
  <1>3. CASE Operator
    <2>1. ASSUME NEW s \in RoundMoves, SetRoundStatus(s) PROVE IInv'
      BY <2>1, SetRoundStatusInv
    <2>2. ASSUME NEW m \in Markets, NEW outcome \in Outcomes, ResolveMarket(m, outcome)
          PROVE  IInv'
      BY <2>2, ResolveMarketInv
    <2>3. ASSUME SettleRound PROVE IInv'
      BY <2>3, SettleRoundInv
    <2>4. ASSUME NEW t \in Teams, ResetTeamRound(t) PROVE IInv'
      <3>1. DeleteRowsOf({t}) /\ round' = round
        BY <2>4 DEF ResetTeamRound
      <3>2. round' \in {"draft", "active", "paused", "completed"}
        BY <3>1 DEF IInv, TypeOK
      <3> QED BY <3>1, <3>2, DeleteRowsOfInv
    <2>5. ASSUME ResetRound PROVE IInv'
      BY <2>5, DeleteRowsOfInv DEF ResetRound
    <2> QED BY <1>3, <2>1, <2>2, <2>3, <2>4, <2>5 DEF Operator
  <1>4. CASE UNCHANGED vars
    BY <1>4, StutterInv
  <1> QED BY <1>1, <1>2, <1>3, <1>4 DEF Next

\* IInv is an invariant, for any number of teams, markets, orders and calls.
THEOREM Invariance == Spec => []IInv
  BY InitIInv, NextIInv, PTL DEF Spec

\* Every variable keeps its type; among them: no position goes below zero,
\* however many sells compete for it.
THEOREM TypeCorrect == Spec => []TypeOK
  <1>1. IInv => TypeOK
    BY DEF IInv
  <1> QED BY <1>1, Invariance, PTL

\* No order is executed twice.
THEOREM ExecutedOnce == Spec => []SingleExecution
  <1>1. ASSUME IInv PROVE SingleExecution
    <2> SUFFICES ASSUME NEW o \in OrderId PROVE Len(fills[o]) <= 1
      BY DEF SingleExecution
    <2>1. StatusTells!(o) /\ orders[o] \in OrderRow /\ RowsComplete!(o)
      BY <1>1 DEF IInv, StatusTells, TypeOK, RowsComplete
    <2>2. fills[o] = <<>> \/ Len(fills[o]) = 1
      BY <2>1 DEF OrderRow, Statuses, Exists
    <2>3. CASE fills[o] = <<>>
      BY <2>3
    <2>4. CASE Len(fills[o]) = 1
      BY <2>4
    <2> QED BY <2>2, <2>3, <2>4
  <1> QED BY <1>1, Invariance, PTL

\* Orders' statuses and fills tell the same story.
THEOREM StatusesMatch == Spec => []FillsMatchStatus
  <1>1. ASSUME IInv PROVE FillsMatchStatus
    <2> SUFFICES ASSUME NEW o \in OrderId PROVE FillsMatchStatus!(o)
      BY DEF FillsMatchStatus
    <2>1. StatusTells!(o) /\ orders[o] \in OrderRow /\ RowsComplete!(o)
      BY <1>1 DEF IInv, StatusTells, TypeOK, RowsComplete
    <2>2. CASE orders[o].status = "filled"
      <3>1. Len(<<>>) # 1
        OBVIOUS
      <3> QED BY <2>1, <2>2, <3>1
    <2>3. CASE orders[o].status # "filled"
      BY <2>1, <2>3 DEF OrderRow, Statuses, Exists
    <2> QED BY <2>2, <2>3
  <1> QED BY <1>1, Invariance, PTL

\* A team's key names one order.
THEOREM KeysUnique == Spec => []UniqueKeys
  <1>1. IInv => UniqueKeys
    BY DEF IInv
  <1> QED BY <1>1, Invariance, PTL

-----------------------------------------------------------------------------
(***************************************************************************)
(* What a step may do to an order.  Every step of the system is a step of  *)
(* OrderBook or leaves it alone.                                           *)
(***************************************************************************)
BookStatus   == [o \in OrderId |-> orders[o].status]
BookExecuted == [o \in OrderId |-> fills[o] # <<>>]

\* A step that changes nothing the book sees.
LEMMA BookStutters ==
  ASSUME UNCHANGED <<orders, fills, lastOrderId>>
  PROVE  UNCHANGED Book!bookVars
  BY DEF Book!bookVars

\* An insertion is an Accept of the book.
LEMMA BookAccepts ==
  ASSUME IInv, NEW r \in Posts, NEW s \in {"submitted", "rejected"},
         InsertOrder(r, s), UNCHANGED fills
  PROVE  Book!Accept(s)
  <1> DEFINE n == lastOrderId + 1
  <1>1. n \in OrderId /\ lastOrderId < MaxOrderId
    BY OrderAssumption, KnownIds DEF InsertOrder, OrderId
  <1>2. orders \in [OrderId -> OrderRow]
    BY DEF IInv, TypeOK
  <1>3. BookStatus' = [BookStatus EXCEPT ![n] = s]
    BY <1>1, <1>2 DEF BookStatus, InsertOrder
  <1> QED BY <1>1, <1>3 DEF InsertOrder, Book!Accept, BookStatus

\* A dispatch that rests or fails is an Answer.
LEMMA BookAnswers ==
  ASSUME IInv, NEW r \in Posts, post[r].pc \in Owning, Exists(post[r].order),
         NEW s \in {"open", "failed"}, NEW venue \in BOOLEAN,
         orders' = [orders EXCEPT ![post[r].order].status = s,
                                  ![post[r].order].venue = venue],
         UNCHANGED <<fills, lastOrderId>>
  PROVE  Book!Answer(post[r].order, s) /\ post[r].order \in Book!Ids
  <1> DEFINE o == post[r].order
  <1>1. o \in OrderId /\ orders[o].status = "submitted"
    BY KnownIds
  <1>2. orders \in [OrderId -> OrderRow]
    BY DEF IInv, TypeOK
  <1>3. BookStatus' = [BookStatus EXCEPT ![o] = s]
    BY <1>1, <1>2 DEF BookStatus, OrderRow
  <1> QED BY <1>1, <1>3 DEF Book!Answer, Book!Ids, BookStatus, OrderId

\* Fills, and the failures with them, are an Execute.
LEMMA BookExecutes ==
  ASSUME IInv, NEW filled \in SUBSET OrderId, NEW failed \in SUBSET OrderId,
         filled \cap failed = {},
         \A o \in filled : orders[o].status \in {"submitted", "open"},
         \A o \in failed : orders[o].status = "open",
         \A o \in OrderId :
           /\ o \in filled => orders'[o].status = "filled" /\ fills'[o] # <<>>
           /\ o \in failed => orders'[o].status = "failed" /\ fills'[o] = fills[o]
           /\ o \notin filled \cup failed => /\ orders'[o] = orders[o]
                                             /\ fills'[o] = fills[o],
         UNCHANGED lastOrderId
  PROVE  Book!Execute(filled, failed) /\ filled \in SUBSET Book!Ids
                                      /\ failed \in SUBSET Book!Ids
  <1>1. \A o \in filled : fills[o] = <<>>
    BY DEF IInv, StatusTells
  <1>2. BookStatus' = [o \in OrderId |-> IF o \in filled THEN "filled"
                                         ELSE IF o \in failed THEN "failed"
                                         ELSE BookStatus[o]]
    BY DEF BookStatus
  <1>3. BookExecuted' = [o \in OrderId |-> o \in filled \/ BookExecuted[o]]
    <2>1. \A o \in OrderId : fills'[o] # <<>> <=> (o \in filled \/ fills[o] # <<>>)
      OBVIOUS
    <2> QED BY <2>1, Zenon DEF BookExecuted
  <1>4. Book!Ids = OrderId
    BY DEF Book!Ids, OrderId
  <1>5. /\ \A o \in filled : BookStatus[o] \in {"submitted", "open"} /\ ~BookExecuted[o]
        /\ \A o \in failed \ filled : BookStatus[o] = "open"
    BY <1>1 DEF BookStatus, BookExecuted
  <1> QED BY <1>2, <1>3, <1>4, <1>5 DEF Book!Execute, BookStatus, BookExecuted

\* The disjuncts of the book's next-state relation, one at a time.
LEMMA CancelIsNext ==
  ASSUME NEW o \in Book!Ids, Book!CancelOrder(o) PROVE Book!Next
  BY DEF Book!Next

LEMMA DeleteIsNext ==
  ASSUME NEW gone \in SUBSET Book!Ids, Book!Delete(gone) PROVE Book!Next
  BY DEF Book!Next

LEMMA ExecuteIsNext ==
  ASSUME NEW filled \in SUBSET Book!Ids, NEW failed \in SUBSET Book!Ids,
         Book!Execute(filled, failed)
  PROVE  Book!Next
  BY DEF Book!Next

LEMMA BookCancels ==
  ASSUME IInv, NEW c \in Cancels, WriteCanceled(c)
  PROVE  [Book!Next]_(Book!bookVars)
  <1>1. CASE ~Exists(cancel[c].order)
    BY <1>1, BookStutters DEF WriteCanceled
  <1>2. CASE Exists(cancel[c].order)
    <2>0. PICK o \in OrderId : o = cancel[c].order
      BY <1>2, KnownIds DEF WriteCanceled
    <2>1. /\ Exists(o) /\ orders[o].venue
          /\ orders \in [OrderId -> OrderRow] /\ orders[o] \in OrderRow
      BY <1>2, <2>0 DEF WriteCanceled, IInv, TypeOK, CancelsDispatched
    <2>2. orders[o].status \in {"open", "filled", "failed", "canceled"}
      BY <2>1 DEF IInv, StatusTells, OrderRow, Statuses, Exists
    <2>3. orders' = [orders EXCEPT ![o].status = "canceled"]
          /\ UNCHANGED <<fills, lastOrderId>>
      BY <1>2, <2>0 DEF WriteCanceled
    <2>4. BookStatus' = [BookStatus EXCEPT ![o] = "canceled"]
      BY <2>1, <2>3 DEF BookStatus, OrderRow
    <2>5. CASE orders[o].status = "canceled"
      <3>1. BookStatus' = BookStatus
        BY <2>1, <2>4, <2>5 DEF BookStatus
      <3> QED BY <2>3, <3>1 DEF Book!bookVars, BookStatus
    <2>6. CASE orders[o].status # "canceled"
      <3>1. Book!CancelOrder(o)
        BY <2>1, <2>2, <2>3, <2>4, <2>6 DEF Book!CancelOrder, BookStatus
      <3>2. o \in Book!Ids
        BY <2>1 DEF Book!Ids, OrderId
      <3> QED BY <3>1, <3>2, CancelIsNext
    <2> QED BY <2>5, <2>6
  <1> QED BY <1>1, <1>2

LEMMA BookDeletes ==
  ASSUME IInv, NEW team \in SUBSET Teams, DeleteRowsOf(team)
  PROVE  [Book!Next]_(Book!bookVars)
  <1>0. PICK gone \in SUBSET OrderId : gone = {o \in OrderId : orders[o].team \in team}
    OBVIOUS
  <1>1. BookStatus' = [o \in OrderId |-> IF o \in gone THEN "none" ELSE BookStatus[o]]
    BY <1>0 DEF DeleteRowsOf, BookStatus, NoRow
  <1>2. BookExecuted' = [o \in OrderId |-> BookExecuted[o] /\ o \notin gone]
    <2>1. \A o \in OrderId : fills'[o] # <<>> <=> (fills[o] # <<>> /\ o \notin gone)
      BY <1>0 DEF DeleteRowsOf
    <2> QED BY <2>1, Zenon DEF BookExecuted
  <1>3. gone \in SUBSET Book!Ids /\ Book!Ids = OrderId
    BY DEF Book!Ids, OrderId
  <1>4. Book!Delete(gone)
    BY <1>1, <1>2, <1>3 DEF Book!Delete, BookStatus, BookExecuted, DeleteRowsOf
  <1> QED BY <1>3, <1>4, DeleteIsNext

LEMMA BookDispatches ==
  ASSUME IInv, NEW r \in Posts, RecordDispatch(r)
  PROVE  [Book!Next]_(Book!bookVars)
  <1> DEFINE o == post[r].order
             price == post[r].price
  <1>1. CASE ~DispatchCommits(r)
    BY <1>1, BookStutters DEF RecordDispatch
  <1>2. CASE DispatchCommits(r)
    <2>1. post[r].pc \in Owning /\ Exists(o)
      BY <1>2 DEF RecordDispatch, Owning, DispatchCommits
    <2>2. /\ o \in OrderId /\ orders[o].status = "submitted"
          /\ orders \in [OrderId -> OrderRow] /\ fills \in [OrderId -> Seq(1..BPS)]
      BY <2>1, KnownIds DEF IInv, TypeOK
    <2>3. /\ orders' = [orders EXCEPT ![o].status = IF price > 0 THEN "filled" ELSE "open",
                                      ![o].venue = TRUE]
          /\ fills' = IF price > 0 THEN [fills EXCEPT ![o] = Append(fills[o], price)]
                      ELSE fills
          /\ UNCHANGED lastOrderId
      BY <1>2 DEF RecordDispatch
    <2>4. CASE price > 0
      <3>1. /\ orders'[o].status = "filled"
            /\ \A q \in OrderId : q # o => orders'[q] = orders[q] /\ fills'[q] = fills[q]
        BY <2>2, <2>3, <2>4 DEF OrderRow
      <3>2. fills'[o] # <<>>
        <4>1. fills'[o] = Append(fills[o], price) /\ fills[o] \in Seq(1..BPS)
          BY <2>2, <2>3, <2>4
        <4>2. fills[o] = <<>>
          BY <2>2 DEF IInv, StatusTells
        <4> QED BY <4>1, <4>2
      <3>3. Book!Execute({o}, {}) /\ {o} \in SUBSET Book!Ids /\ {} \in SUBSET Book!Ids
        BY <2>2, <2>3, <3>1, <3>2, BookExecutes
      <3> QED BY <3>3 DEF Book!Next
    <2>5. CASE ~(price > 0)
      <3>1. Book!Answer(o, "open") /\ o \in Book!Ids
        BY <2>1, <2>3, <2>5, BookAnswers
      <3> QED BY <3>1 DEF Book!Next
    <2> QED BY <2>4, <2>5
  <1> QED BY <1>1, <1>2

LEMMA BookFills ==
  ASSUME IInv, FillOpenOrders
  PROVE  [Book!Next]_(Book!bookVars)
  <1>1. CASE ~FillsApply
    BY <1>1, BookStutters DEF FillOpenOrders
  <1>2. CASE FillsApply
    <2>1. FilledNow \subseteq Fillable /\ Fillable \subseteq OrderId
      BY DEF FilledNow, Fillable, FillCandidates
    <2>2. \A o \in Fillable : orders[o].status = "open" /\ fills[o] = <<>>
      BY DEF IInv, StatusTells, Fillable, FillCandidates
    <2>3. /\ orders' = [o \in OrderId |->
               IF o \in FilledNow THEN [orders[o] EXCEPT !.status = "filled"]
               ELSE IF o \in Fillable THEN [orders[o] EXCEPT !.status = "failed"]
               ELSE orders[o]]
          /\ fills' = [o \in OrderId |->
               IF o \in FilledNow
               THEN Append(fills[o], WorkerPrice(orders[o].payload)) ELSE fills[o]]
          /\ UNCHANGED lastOrderId
      BY <1>2 DEF FillOpenOrders
    <2>4. ASSUME NEW o \in OrderId
          PROVE  /\ o \in FilledNow => orders'[o].status = "filled" /\ fills'[o] # <<>>
                 /\ o \in Fillable \ FilledNow =>
                      orders'[o].status = "failed" /\ fills'[o] = fills[o]
                 /\ o \notin FilledNow \cup (Fillable \ FilledNow) =>
                      orders'[o] = orders[o] /\ fills'[o] = fills[o]
      <3>1. orders[o] \in OrderRow
        BY DEF IInv, TypeOK
      <3>2. CASE o \in FilledNow
        <4>1. fills'[o] = Append(<<>>, WorkerPrice(orders[o].payload))
          BY <2>1, <2>2, <2>3, <3>2
        <4>2. fills'[o] # <<>>
          BY <2>1, <3>2, <4>1, WorkerPriceTyped
        <4> QED BY <2>3, <3>1, <3>2, <4>2 DEF OrderRow
      <3>3. CASE o \notin FilledNow
        BY <2>1, <2>3, <3>1, <3>3 DEF OrderRow
      <3> QED BY <3>2, <3>3
    <2>5. PICK filled \in SUBSET OrderId, failed \in SUBSET OrderId :
             filled = FilledNow /\ failed = Fillable \ FilledNow
      BY <2>1
    <2>6. /\ \A o \in filled : orders[o].status \in {"submitted", "open"}
          /\ \A o \in failed : orders[o].status = "open"
      BY <2>1, <2>2, <2>5
    <2>7. \A o \in OrderId :
            /\ o \in filled => orders'[o].status = "filled" /\ fills'[o] # <<>>
            /\ o \in failed => orders'[o].status = "failed" /\ fills'[o] = fills[o]
            /\ o \notin filled \cup failed => /\ orders'[o] = orders[o]
                                              /\ fills'[o] = fills[o]
      BY <2>4, <2>5
    <2>8. filled \cap failed = {} /\ UNCHANGED lastOrderId
      BY <2>3, <2>5
    <2>9. /\ Book!Execute(filled, failed)
          /\ filled \in SUBSET Book!Ids /\ failed \in SUBSET Book!Ids
      BY <2>6, <2>7, <2>8, BookExecutes
    <2> QED BY <2>9, ExecuteIsNext
  <1> QED BY <1>1, <1>2

LEMMA BookCreates ==
  ASSUME IInv, NEW r \in Posts, NEW s \in {"submitted", "rejected"}, NEW next,
         CreateOrder(r, s, next), UNCHANGED fills
  PROVE  [Book!Next]_(Book!bookVars)
  BY BookAccepts, BookStutters DEF CreateOrder, Book!Next

\* Every step is a step of the book or a stutter.
LEMMA BookStep ==
  ASSUME IInv, [Next]_vars
  PROVE  [Book!Next]_(Book!bookVars)
  <1> USE BookStutters DEF books
  <1>1. CASE Trading
    <2>1. ASSUME NEW r \in Posts, Request(r) PROVE [Book!Next]_(Book!bookVars)
      BY <2>1 DEF Request, Receive
    <2>2. ASSUME NEW r \in Posts, PostStep(r) PROVE [Book!Next]_(Book!bookVars)
      <3>1. CASE LookupAndCheckRisk(r) \/ PlaceAtVenue(r)
        BY <3>1 DEF LookupAndCheckRisk, PlaceAtVenue
      <3>2. CASE CreateSubmitted(r) \/ CreateRejected(r)
        BY <3>2, BookCreates DEF CreateSubmitted, CreateRejected
      <3>3. CASE RecordVenueFailure(r)
        <4>1. CASE Exists(post[r].order)
          <5>1. /\ post[r].pc \in Owning
                /\ orders' = [orders EXCEPT ![post[r].order].status = "failed",
                                            ![post[r].order].venue = FALSE]
                /\ UNCHANGED <<fills, lastOrderId>>
            BY <3>3, <4>1 DEF RecordVenueFailure, Owning
          <5> QED BY <4>1, <5>1, BookAnswers DEF Book!Next
        <4>2. CASE ~Exists(post[r].order)
          BY <3>3, <4>2 DEF RecordVenueFailure
        <4> QED BY <4>1, <4>2
      <3>4. CASE RecordDispatch(r)
        BY <3>4, BookDispatches
      <3> QED BY <2>2, <3>1, <3>2, <3>3, <3>4 DEF PostStep
    <2>3. ASSUME NEW c \in Cancels, CancelRequest(c) PROVE [Book!Next]_(Book!bookVars)
      BY <2>3 DEF CancelRequest, CheckCancel
    <2>4. ASSUME NEW c \in Cancels, WriteCanceled(c) PROVE [Book!Next]_(Book!bookVars)
      BY <2>4, BookCancels
    <2>5. ASSUME WorkerStep PROVE [Book!Next]_(Book!bookVars)
      BY <2>5, BookFills DEF WorkerStep, WorkerTick, AdvanceMarkets
    <2> QED BY <1>1, <2>1, <2>2, <2>3, <2>4, <2>5 DEF Trading
  <1>2. CASE Abort
    BY <1>2 DEF Abort, AbortPost, AbortCancel, AbortTick
  <1>3. CASE Operator
    <2>1. CASE \E s \in RoundMoves : SetRoundStatus(s)
      BY <2>1 DEF SetRoundStatus
    <2>2. CASE \E m \in Markets, outcome \in Outcomes : ResolveMarket(m, outcome)
      BY <2>2 DEF ResolveMarket
    <2>3. CASE SettleRound
      BY <2>3 DEF SettleRound
    <2>4. CASE \E t \in Teams : ResetTeamRound(t)
      BY <2>4, BookDeletes DEF ResetTeamRound
    <2>5. CASE ResetRound
      BY <2>5, BookDeletes DEF ResetRound
    <2> QED BY <1>3, <2>1, <2>2, <2>3, <2>4, <2>5 DEF Operator
  <1>4. CASE UNCHANGED vars
    BY <1>4 DEF vars
  <1> QED BY <1>1, <1>2, <1>3, <1>4 DEF Next

\* Initial states are initial states of the book.
LEMMA BookInit == ASSUME Init PROVE Book!Init
  <1>1. BookStatus = [o \in OrderId |-> "none"]
    BY DEF BookStatus, Init, NoRow
  <1>2. BookExecuted = [o \in OrderId |-> FALSE]
    BY DEF BookExecuted, Init
  <1> QED BY <1>1, <1>2 DEF Book!Init, Book!Ids, OrderId, BookStatus, BookExecuted, Init

\* The system implements OrderBook: whatever the handlers, the worker and the
\* operator do between each other's steps, an order's life is one OrderBook
\* allows.
THEOREM ImplementsOrderBook == Spec => BookSpec
  BY BookInit, BookStep, Invariance, PTL DEF Spec, BookSpec, Book!Spec

-----------------------------------------------------------------------------
(***************************************************************************)
(* What a step may do to a row.  The action properties and RepliesAreOwn   *)
(* follow from this.                                                       *)
(***************************************************************************)
\* The row stays, with its team, its key and its payload.
SameColumns(o) == /\ orders'[o].team = orders[o].team
                  /\ orders'[o].key = orders[o].key
                  /\ orders'[o].payload = orders[o].payload
                  /\ Exists(o) /\ Exists(o)'

\* Nothing, delete it, insert it, answer or execute it while it is submitted
\* or open, or cancel it.
RowStep(o) ==
  \/ orders'[o] = orders[o] /\ fills'[o] = fills[o]
  \/ orders'[o] = NoRow
  \/ o = lastOrderId + 1 /\ ~Exists(o) /\ fills'[o] = fills[o]
  \/ SameColumns(o) /\ orders[o].status \in {"submitted", "open"}
  \/ SameColumns(o) /\ orders'[o].status = "canceled" /\ fills'[o] = fills[o]

RowSteps == /\ \A o \in OrderId : RowStep(o)
            /\ lastOrderId' \in {lastOrderId, lastOrderId + 1}

\* Actions that leave rows and fills alone.
LEMMA RowsStay ==
  ASSUME UNCHANGED <<orders, fills, lastOrderId>> PROVE RowSteps
  BY DEF RowSteps, RowStep

\* One lemma per kind of step: the transaction of a dispatch, ...
LEMMA DispatchRows == ASSUME IInv, NEW r \in Posts, RecordDispatch(r) PROVE RowSteps
  <1>1. CASE ~DispatchCommits(r)
    BY <1>1, RowsStay DEF RecordDispatch
  <1>2. CASE DispatchCommits(r)
    <2>0. post[r].pc \in Owning /\ Exists(post[r].order)
      BY <1>2 DEF RecordDispatch, Owning, DispatchCommits
    <2>1. PICK o \in OrderId : o = post[r].order /\ Exists(o)
      BY <2>0, KnownIds
    <2> DEFINE price == post[r].price
    <2>2. /\ orders[o].status = "submitted"
          /\ orders \in [OrderId -> OrderRow] /\ fills \in [OrderId -> Seq(1..BPS)]
      BY <2>0, <2>1, KnownIds DEF IInv, TypeOK
    <2>3. /\ orders' = [orders EXCEPT ![o].status = IF price > 0 THEN "filled" ELSE "open",
                                      ![o].venue = TRUE]
          /\ fills' = IF price > 0 THEN [fills EXCEPT ![o] = Append(fills[o], price)]
                      ELSE fills
          /\ UNCHANGED lastOrderId
      BY <1>2, <2>1 DEF RecordDispatch
    <2>4. SameColumns(o)
      BY <2>1, <2>2, <2>3 DEF SameColumns, OrderRow, Exists
    <2>5. ASSUME NEW q \in OrderId PROVE RowStep(q)
      <3>1. CASE q = o
        BY <2>2, <2>4, <3>1 DEF RowStep
      <3>2. CASE q # o
        BY <2>2, <2>3, <3>2 DEF RowStep
      <3> QED BY <3>1, <3>2
    <2> QED BY <2>3, <2>5 DEF RowSteps
  <1> QED BY <1>1, <1>2

\* ... of a venue failure, ...
LEMMA VenueFailureRows ==
  ASSUME IInv, NEW r \in Posts, RecordVenueFailure(r) PROVE RowSteps
  <1>1. CASE ~Exists(post[r].order)
    BY <1>1, RowsStay DEF RecordVenueFailure
  <1>2. CASE Exists(post[r].order)
    <2>0. PICK o \in OrderId : o = post[r].order /\ Exists(o)
      BY <1>2, KnownIds DEF RecordVenueFailure, Owning
    <2>1. orders[o].status = "submitted" /\ orders \in [OrderId -> OrderRow]
      BY <2>0, KnownIds DEF IInv, TypeOK, RecordVenueFailure, Owning
    <2>2. /\ orders' = [orders EXCEPT ![o].status = "failed", ![o].venue = FALSE]
          /\ UNCHANGED <<fills, lastOrderId>>
      BY <1>2, <2>0 DEF RecordVenueFailure
    <2>3. SameColumns(o)
      BY <2>0, <2>1, <2>2 DEF SameColumns, OrderRow, Exists
    <2>4. ASSUME NEW q \in OrderId PROVE RowStep(q)
      <3>1. CASE q = o
        BY <2>1, <2>3, <3>1 DEF RowStep
      <3>2. CASE q # o
        BY <2>1, <2>2, <3>2 DEF RowStep
      <3> QED BY <3>1, <3>2
    <2> QED BY <2>2, <2>4 DEF RowSteps
  <1> QED BY <1>1, <1>2

\* ... of an insertion, ...
LEMMA InsertRows ==
  ASSUME IInv, NEW r \in Posts, NEW s \in {"submitted", "rejected"}, NEW next,
         CreateOrder(r, s, next), UNCHANGED fills
  PROVE  RowSteps
  <1>1. CASE UNCHANGED <<orders, lastOrderId>>
    BY <1>1, RowsStay
  <1>2. CASE InsertOrder(r, s)
    <2> DEFINE n == lastOrderId + 1
    <2>1. n \in OrderId /\ lastOrderId' = n /\ lastOrderId \in Nat
      BY <1>2, OrderAssumption, KnownIds DEF InsertOrder, OrderId
    <2>2. ~Exists(n)
      BY <2>1 DEF IInv, RowsComplete
    <2>3. \A q \in OrderId : q # n => orders'[q] = orders[q]
      BY <1>2 DEF InsertOrder, IInv, TypeOK
    <2> QED BY <2>1, <2>2, <2>3 DEF RowSteps, RowStep
  <1> QED BY <1>1, <1>2 DEF CreateOrder

\* ... of a cancellation, ...
LEMMA CancelRows == ASSUME IInv, NEW c \in Cancels, WriteCanceled(c) PROVE RowSteps
  <1>1. CASE ~Exists(cancel[c].order)
    BY <1>1, RowsStay DEF WriteCanceled
  <1>2. CASE Exists(cancel[c].order)
    <2>0. PICK o \in OrderId : o = cancel[c].order /\ Exists(o)
      BY <1>2, KnownIds DEF WriteCanceled
    <2>1. orders \in [OrderId -> OrderRow]
      BY DEF IInv, TypeOK
    <2>2. orders' = [orders EXCEPT ![o].status = "canceled"]
          /\ UNCHANGED <<fills, lastOrderId>>
      BY <1>2, <2>0 DEF WriteCanceled
    <2>3. SameColumns(o) /\ orders'[o].status = "canceled"
      BY <2>0, <2>1, <2>2 DEF SameColumns, OrderRow, Exists
    <2>4. ASSUME NEW q \in OrderId PROVE RowStep(q)
      <3>1. CASE q = o
        BY <2>2, <2>3, <3>1 DEF RowStep
      <3>2. CASE q # o
        BY <2>1, <2>2, <3>2 DEF RowStep
      <3> QED BY <3>1, <3>2
    <2> QED BY <2>2, <2>4 DEF RowSteps
  <1> QED BY <1>1, <1>2

\* ... of the worker ...
LEMMA FillRows == ASSUME IInv, FillOpenOrders PROVE RowSteps
  <1>1. CASE ~FillsApply
    BY <1>1, RowsStay DEF FillOpenOrders
  <1>2. CASE FillsApply
    <2>1. FilledNow \subseteq Fillable
      BY DEF FilledNow
    <2>2. /\ orders' = [o \in OrderId |->
               IF o \in FilledNow THEN [orders[o] EXCEPT !.status = "filled"]
               ELSE IF o \in Fillable THEN [orders[o] EXCEPT !.status = "failed"]
               ELSE orders[o]]
          /\ fills' = [o \in OrderId |->
               IF o \in FilledNow
               THEN Append(fills[o], WorkerPrice(orders[o].payload)) ELSE fills[o]]
          /\ UNCHANGED lastOrderId
      BY <1>2 DEF FillOpenOrders
    <2>3. ASSUME NEW o \in OrderId PROVE RowStep(o)
      <3>1. CASE o \notin Fillable
        <4>1. orders'[o] = orders[o] /\ fills'[o] = fills[o]
          BY <2>1, <2>2, <3>1
        <4> QED BY <4>1 DEF RowStep
      <3>2. CASE o \in Fillable
        <4>1. orders[o] \in OrderRow /\ orders[o].status \in {"submitted", "open"}
          BY <3>2 DEF IInv, TypeOK, Fillable, FillCandidates
        <4>2. \E status \in {"filled", "failed"} :
                orders'[o] = [orders[o] EXCEPT !.status = status]
          BY <2>2, <3>2
        <4>3. SameColumns(o)
          BY <4>1, <4>2 DEF SameColumns, OrderRow, Exists
        <4> QED BY <4>1, <4>3 DEF RowStep
      <3> QED BY <3>1, <3>2
    <2> QED BY <2>2, <2>3 DEF RowSteps
  <1> QED BY <1>1, <1>2

\* ... and of a reset.
LEMMA DeleteRows == ASSUME IInv, NEW team \in SUBSET Teams, DeleteRowsOf(team) PROVE RowSteps
  BY DEF DeleteRowsOf, RowSteps, RowStep

\* Every step does to every row what RowStep allows.
LEMMA RowsStep == ASSUME IInv, [Next]_vars PROVE RowSteps
  <1> USE RowsStay DEF books
  <1>1. CASE Trading
    <2>1. ASSUME NEW r \in Posts, Request(r) PROVE RowSteps
      BY <2>1 DEF Request, Receive
    <2>2. ASSUME NEW r \in Posts, PostStep(r) PROVE RowSteps
      <3>1. CASE LookupAndCheckRisk(r) \/ PlaceAtVenue(r)
        BY <3>1 DEF LookupAndCheckRisk, PlaceAtVenue
      <3>2. CASE CreateSubmitted(r) \/ CreateRejected(r)
        BY <3>2, InsertRows DEF CreateSubmitted, CreateRejected
      <3>3. CASE RecordVenueFailure(r) \/ RecordDispatch(r)
        BY <3>3, VenueFailureRows, DispatchRows
      <3> QED BY <2>2, <3>1, <3>2, <3>3 DEF PostStep
    <2>3. ASSUME NEW c \in Cancels, CancelRequest(c) PROVE RowSteps
      BY <2>3 DEF CancelRequest, CheckCancel
    <2>4. ASSUME NEW c \in Cancels, WriteCanceled(c) PROVE RowSteps
      BY <2>4, CancelRows
    <2>5. ASSUME WorkerStep PROVE RowSteps
      BY <2>5, FillRows DEF WorkerStep, WorkerTick, AdvanceMarkets
    <2> QED BY <1>1, <2>1, <2>2, <2>3, <2>4, <2>5 DEF Trading
  <1>2. CASE Abort
    BY <1>2 DEF Abort, AbortPost, AbortCancel, AbortTick
  <1>3. CASE Operator
    <2>1. CASE \E s \in RoundMoves : SetRoundStatus(s)
      BY <2>1 DEF SetRoundStatus
    <2>2. CASE \E m \in Markets, outcome \in Outcomes : ResolveMarket(m, outcome)
      BY <2>2 DEF ResolveMarket
    <2>3. CASE SettleRound
      BY <2>3 DEF SettleRound
    <2>4. CASE \E t \in Teams : ResetTeamRound(t)
      BY <2>4, DeleteRows DEF ResetTeamRound
    <2>5. CASE ResetRound
      BY <2>5, DeleteRows DEF ResetRound
    <2> QED BY <1>3, <2>1, <2>2, <2>3, <2>4, <2>5 DEF Operator
  <1>4. CASE UNCHANGED vars
    BY <1>4 DEF vars
  <1> QED BY <1>1, <1>2, <1>3, <1>4 DEF Next

\* What is canceled is not executed afterwards: the handler that is still
\* dispatching an order only finds it submitted, the worker only fills orders
\* that are submitted or open, and ids are not used twice.
THEOREM CanceledStays == Spec => NoFillAfterCancel
  <1>1. ASSUME IInv, [Next]_vars
        PROVE  [\A o \in OrderId :
                  orders[o].status = "canceled" /\ Exists(o)' =>
                    orders'[o].status = "canceled" /\ fills'[o] = fills[o]]_vars
    <2> SUFFICES ASSUME NEW o \in OrderId, orders[o].status = "canceled", Exists(o)'
                 PROVE  orders'[o].status = "canceled" /\ fills'[o] = fills[o]
      OBVIOUS
    <2>1. RowStep(o)
      BY <1>1, RowsStep DEF RowSteps
    <2> QED BY <2>1 DEF RowStep, Exists, NoRow
  <1> QED BY <1>1, Invariance, PTL DEF Spec, NoFillAfterCancel

-----------------------------------------------------------------------------
(***************************************************************************)
(* Replies.  RepliesAreOwn speaks of rows that exist; that an id in a      *)
(* reply was given out before keeps a later row from taking its place.     *)
(***************************************************************************)
\* The replies that show an order.
OrderReplies == {"created", "replayed", "rejected", "failed"}

ReplyOwn(r) ==
  post[r].pc \in OrderReplies =>
    /\ post[r].order \in 1..lastOrderId
    /\ Exists(post[r].order) =>
         /\ orders[post[r].order].team = post[r].team
         /\ orders[post[r].order].key = post[r].key
         /\ orders[post[r].order].payload = post[r].payload

RepliesKnown == \A r \in Posts : ReplyOwn(r)

\* A handler that does not move keeps its reply.
LEMMA ReplyKept ==
  ASSUME IInv, [Next]_vars, NEW r \in Posts, ReplyOwn(r), post'[r] = post[r]
  PROVE  ReplyOwn(r)'
  <1> SUFFICES ASSUME post[r].pc \in OrderReplies
               PROVE  ReplyOwn(r)!2'
    BY DEF ReplyOwn
  <1> DEFINE o == post[r].order
  <1>1. o \in 1..lastOrderId /\ o \in OrderId /\ o # lastOrderId + 1
    BY KnownIds DEF ReplyOwn
  <1>2. RowStep(o) /\ lastOrderId' \in {lastOrderId, lastOrderId + 1}
    BY <1>1, RowsStep DEF RowSteps
  <1>3. o \in 1..lastOrderId'
    BY <1>1, <1>2, KnownIds
  <1>4. Exists(o)' => /\ Exists(o)
                      /\ orders'[o].team = orders[o].team
                      /\ orders'[o].key = orders[o].key
                      /\ orders'[o].payload = orders[o].payload
    BY <1>1, <1>2 DEF RowStep, SameColumns, Exists, NoRow
  <1> QED BY <1>3, <1>4 DEF ReplyOwn, Exists

\* A replay shows an order that the key and the request name.
LEMMA FoundReplies ==
  ASSUME IInv, NEW r \in Posts, NEW o \in WithKey(post[r].team, post[r].key),
         post' = [post EXCEPT ![r] = ReplayOf(r, o)],
         UNCHANGED <<orders, lastOrderId>>
  PROVE  ReplyOwn(r)' /\ \A s \in Posts \ {r} : post'[s] = post[s]
  <1>1. post \in [Posts -> PostRow] /\ post[r] \in PostRow
    BY DEF IInv, TypeOK
  <1>2. /\ o \in OrderId /\ Exists(o)
        /\ orders[o].team = post[r].team /\ orders[o].key = post[r].key
    BY DEF WithKey
  <1>3. o \in 1..lastOrderId
    BY <1>2, KnownIds, OrderAssumption DEF IInv, RowsComplete, OrderId
  <1>4. /\ post'[r].order = o
        /\ post'[r].team = post[r].team
        /\ post'[r].key = post[r].key
        /\ post'[r].payload = post[r].payload
        /\ post'[r].pc \in OrderReplies => orders[o].payload = post[r].payload
    BY <1>1 DEF ReplayOf, PostRow, OrderReplies
  <1> QED BY <1>1, <1>2, <1>3, <1>4 DEF ReplyOwn

\* The row a handler has just inserted is the one it replies with.
LEMMA CreateReplies ==
  ASSUME IInv, NEW r \in Posts, NEW status, NEW next \in {"place", "rejected"},
         CreateOrder(r, status, next)
  PROVE  ReplyOwn(r)' /\ \A s \in Posts \ {r} : post'[s] = post[s]
  <1>1. /\ post \in [Posts -> PostRow] /\ post[r] \in PostRow
        /\ orders \in [OrderId -> OrderRow]
    BY DEF IInv, TypeOK
  <1>2. CASE /\ InsertOrder(r, status)
             /\ post' = [post EXCEPT ![r].pc = next, ![r].order = lastOrderId + 1]
    <2>1. PICK n \in OrderId : n = lastOrderId + 1 /\ lastOrderId' = n /\ n \in 1..n
      BY <1>2, OrderAssumption, KnownIds DEF InsertOrder, OrderId
    <2>2. orders'[n] = [status |-> status, venue |-> FALSE, team |-> post[r].team,
                        key |-> post[r].key, payload |-> post[r].payload]
      BY <1>1, <1>2, <2>1 DEF InsertOrder
    <2>3. /\ post'[r].order = n
          /\ post'[r].team = post[r].team
          /\ post'[r].key = post[r].key
          /\ post'[r].payload = post[r].payload
      BY <1>1, <1>2, <2>1 DEF PostRow
    <2> QED BY <1>1, <1>2, <2>1, <2>2, <2>3 DEF ReplyOwn
  <1>3. CASE \E o \in WithKey(post[r].team, post[r].key) :
               /\ post' = [post EXCEPT ![r] =
                    IF post[r].key \in ClientKeys
                    THEN ReplayOf(r, o) ELSE [@ EXCEPT !.pc = "error"]]
               /\ UNCHANGED <<orders, lastOrderId>>
    <2>1. PICK o \in WithKey(post[r].team, post[r].key) :
            /\ post' = [post EXCEPT ![r] =
                 IF post[r].key \in ClientKeys
                 THEN ReplayOf(r, o) ELSE [post[r] EXCEPT !.pc = "error"]]
            /\ UNCHANGED <<orders, lastOrderId>>
      BY <1>3
    <2>2. CASE post[r].key \in ClientKeys
      BY <2>1, <2>2, FoundReplies
    <2>3. CASE post[r].key \notin ClientKeys
      <3>1. post' = [post EXCEPT ![r] = [post[r] EXCEPT !.pc = "error"]]
        BY <2>1, <2>3
      <3> QED BY <1>1, <3>1 DEF ReplyOwn, OrderReplies, PostRow
    <2> QED BY <2>2, <2>3
  <1> QED BY <1>2, <1>3 DEF CreateOrder

\* A step of handler r leaves it with a reply of its own.
LEMMA PostReplies ==
  ASSUME IInv, NEW r \in Posts, PostStep(r)
  PROVE  ReplyOwn(r)' /\ \A s \in Posts \ {r} : post'[s] = post[s]
  <1>0. post \in [Posts -> PostRow] /\ post[r] \in PostRow
    BY DEF IInv, TypeOK
  <1>1. CASE LookupAndCheckRisk(r)
    <2>1. CASE \E pc \in {"reject", "create"} : post' = [post EXCEPT ![r].pc = pc]
      BY <1>0, <2>1 DEF ReplyOwn, OrderReplies, PostRow
    <2>2. CASE \E o \in WithKey(post[r].team, post[r].key) :
                 post' = [post EXCEPT ![r] = ReplayOf(r, o)]
      BY <1>0, <1>1, <2>2, FoundReplies DEF LookupAndCheckRisk, books
    <2> QED BY <1>1, <2>1, <2>2 DEF LookupAndCheckRisk
  <1>2. CASE CreateSubmitted(r) \/ CreateRejected(r)
    BY <1>2, CreateReplies DEF CreateSubmitted, CreateRejected
  <1>3. CASE PlaceAtVenue(r)
    BY <1>0, <1>3 DEF PlaceAtVenue, ReplyOwn, OrderReplies, PostRow
  <1>4. CASE RecordVenueFailure(r) \/ RecordDispatch(r)
    <2>1. post[r].pc \in Owning /\ HandlersOwn!(r)
      BY <1>4 DEF RecordVenueFailure, RecordDispatch, Owning, IInv, HandlersOwn
    <2>2. CASE post' = [post EXCEPT ![r].pc = "error"]
      BY <1>0, <2>2 DEF ReplyOwn, OrderReplies, PostRow
    <2>3. CASE /\ Exists(post[r].order)
               /\ \E pc \in {"failed", "created"} : post' = [post EXCEPT ![r].pc = pc]
      <3>1. PICK o \in OrderId : o = post[r].order /\ Exists(o)
        BY <2>1, <2>3, KnownIds
      <3>2. RowStep(o) /\ UNCHANGED lastOrderId
        BY <1>4, VenueFailureRows, DispatchRows DEF RowSteps, RecordVenueFailure,
           RecordDispatch
      <3>3. o # lastOrderId + 1
        BY <2>1, <3>1, KnownIds
      <3>4. /\ orders[o].team = post[r].team /\ orders[o].key = post[r].key
            /\ orders[o].payload = post[r].payload
        BY <2>1, <3>1
      <3>5. /\ post'[r].order = o
            /\ post'[r].team = post[r].team
            /\ post'[r].key = post[r].key
            /\ post'[r].payload = post[r].payload
            /\ \A s \in Posts \ {r} : post'[s] = post[s]
        <4>1. PICK pc : post' = [post EXCEPT ![r].pc = pc]
          BY <2>3
        <4> QED BY <1>0, <3>1, <4>1 DEF PostRow
      <3>6. Exists(o)' => SameColumns(o) \/ orders'[o] = orders[o]
        BY <3>2, <3>3 DEF RowStep, Exists, NoRow
      <3> QED BY <2>1, <3>1, <3>2, <3>4, <3>5, <3>6 DEF ReplyOwn, SameColumns, Exists
    <2> QED BY <1>4, <2>2, <2>3 DEF RecordVenueFailure, RecordDispatch, DispatchCommits
  <1> QED BY <1>1, <1>2, <1>3, <1>4 DEF PostStep

\* Every step leaves every handler with a reply of its own.
LEMMA RepliesStep ==
  ASSUME IInv, RepliesKnown, [Next]_vars PROVE RepliesKnown'
  <1> SUFFICES ASSUME NEW s \in Posts PROVE ReplyOwn(s)'
    BY DEF RepliesKnown
  <1>1. ReplyOwn(s) /\ (post'[s] = post[s] => ReplyOwn(s)')
    BY ReplyKept DEF RepliesKnown
  <1>2. CASE UNCHANGED post
    BY <1>1, <1>2
  <1>3. ASSUME NEW r \in Posts, PostStep(r) PROVE ReplyOwn(s)'
    BY <1>1, <1>3, PostReplies
  <1>4. ASSUME NEW r \in Posts, \/ AbortPost(r)
                                \/ Request(r)
        PROVE  ReplyOwn(s)'
    <2>1. post \in [Posts -> PostRow] /\ post[r] \in PostRow
      BY DEF IInv, TypeOK
    <2>2. post'[r].pc \notin OrderReplies /\ \A q \in Posts \ {r} : post'[q] = post[q]
      <3>1. CASE AbortPost(r)
        BY <2>1, <3>1 DEF AbortPost, OrderReplies, PostRow
      <3>2. CASE Request(r)
        <4>0. PICK t \in Teams, p \in Payloads, k \in Keys : Receive(r, t, k, p)
          BY <3>2 DEF Request
        <4>1. PICK pc \in {"lookup", "error"} :
                post' = [post EXCEPT ![r] = [post[r] EXCEPT !.pc = pc, !.team = t,
                                                            !.key = k, !.payload = p]]
          BY <4>0 DEF Receive
        <4> QED BY <2>1, <4>1 DEF OrderReplies, PostRow
      <3> QED BY <1>4, <3>1, <3>2
    <2> QED BY <1>1, <2>2 DEF ReplyOwn
  <1>5. \/ UNCHANGED post
        \/ \E r \in Posts : PostStep(r) \/ AbortPost(r) \/ Request(r)
    <2>1. CASE Trading
      BY <2>1 DEF Trading, CancelRequest, CheckCancel, WriteCanceled, WorkerStep,
         WorkerTick, AdvanceMarkets, FillOpenOrders
    <2>2. CASE Abort
      BY <2>2 DEF Abort, AbortCancel, AbortTick
    <2>3. CASE Operator
      BY <2>3 DEF Operator, SetRoundStatus, ResolveMarket, SettleRound,
         ResetTeamRound, ResetRound, DeleteRowsOf
    <2>4. CASE UNCHANGED vars
      BY <2>4 DEF vars
    <2> QED BY <2>1, <2>2, <2>3, <2>4 DEF Next
  <1> QED BY <1>2, <1>3, <1>4, <1>5

\* A client is never shown another team's order as its own, nor one that
\* another request created.
THEOREM RepliesOwn == Spec => []RepliesAreOwn
  <1>1. Init => RepliesKnown
    BY DEF Init, RepliesKnown, ReplyOwn, OrderReplies
  <1>2. RepliesKnown => RepliesAreOwn
    BY DEF RepliesKnown, ReplyOwn, OrderReplies, RepliesAreOwn
  <1> QED BY <1>1, <1>2, RepliesStep, Invariance, PTL DEF Spec

-----------------------------------------------------------------------------
(***************************************************************************)
(* The worker's transaction: what Held, which is defined by recursion over *)
(* the orders, computes.                                                   *)
(***************************************************************************)
\* What a fill adds is an integer.
LEMMA AddsInt ==
  ASSUME NEW team, NEW p \in Payloads, NEW price \in Int, NEW h
  PROVE  Adds(team, p, price, h) \in Int
  <1>1. p.amount \in Nat
    BY OrderAssumption DEF Payload
  <1>2. QuantityForAmount(p.amount, price) \in Nat
    BY <1>1, QuantityNat
  <1> DEFINE quantity == QuantityForAmount(p.amount, price)
  <1>3. quantity \in Int /\ -quantity \in Int
    <2> HIDE DEF quantity
    <2> QED BY <1>2 DEF quantity
  <1> QED BY <1>3 DEF Adds

\* ApplyFill adds what Adds says, at every holding.
LEMMA FillAdds ==
  ASSUME NEW held \in [Holding -> Int], NEW team \in Teams, NEW p \in Payloads,
         NEW price \in Int
  PROVE  /\ ApplyFill(held, team, p, price) \in [Holding -> Int]
         /\ \A h \in Holding : ApplyFill(held, team, p, price)[h]
                                 = held[h] + Adds(team, p, price, h)
  <1> DEFINE quantity == QuantityForAmount(p.amount, price)
             g == HoldingOf(team, p)
             new == IF p.action = "buy" THEN held[g] + quantity ELSE held[g] - quantity
  <1>1. p.amount \in Nat /\ p.market \in Markets /\ p.outcome \in Outcomes
    BY OrderAssumption DEF Payload
  <1>2. quantity \in Nat
    BY <1>1, QuantityNat
  <1>3. g \in Holding
    BY <1>1 DEF HoldingOf, Holding
  <1>4. ApplyFill(held, team, p, price) = [held EXCEPT ![g] = new]
    BY DEF ApplyFill
  <1>5. Adds(team, p, price, g) = IF p.action = "buy" THEN quantity ELSE -quantity
    BY DEF Adds
  <1>6. \A h \in Holding : h # g => Adds(team, p, price, h) = 0
    BY DEF Adds
  <1> HIDE DEF quantity, g
  <1>7. new \in Int /\ new = held[g] + Adds(team, p, price, g)
    BY <1>2, <1>3, <1>5
  <1> HIDE DEF new
  <1> QED BY <1>3, <1>4, <1>6, <1>7

\* A fillable order has a team, a trade and a price.
LEMMA FillableTyped ==
  ASSUME IInv, NEW o \in Fillable
  PROVE  /\ o \in OrderId /\ orders[o].team \in Teams /\ orders[o].payload \in Payloads
         /\ WorkerPrice(orders[o].payload) \in Int
         /\ fills[o] = <<>> /\ orders[o].status = "open"
  <1>1. o \in OrderId /\ Exists(o) /\ orders[o].venue
        /\ orders[o].status \in {"submitted", "open"}
    BY DEF Fillable, FillCandidates, Exists
  <1>2. orders[o].team \in Teams /\ orders[o].payload \in Payloads
    BY <1>1 DEF IInv, RowsComplete
  <1>3. WorkerPrice(orders[o].payload) \in 1..BPS
    BY WorkerPriceTyped
  <1>4. \A n \in 1..BPS : n \in Int
    BY DEF BPS
  <1>5. fills[o] = <<>> /\ orders[o].status = "open"
    BY <1>1 DEF IInv, StatusTells
  <1> QED BY <1>1, <1>2, <1>3, <1>4, <1>5

\* Held is the function its definition describes.
LEMMA HeldIs ==
  ASSUME IInv
  PROVE  /\ Held[0] = positions
         /\ \A n \in 0..MaxOrderId : Held[n] \in [Holding -> Int]
         /\ \A n \in 1..MaxOrderId :
              Held[n] = IF n \in Fillable /\ Covered(Held[n - 1], n)
                        THEN ApplyFill(Held[n - 1], orders[n].team, orders[n].payload,
                                       WorkerPrice(orders[n].payload))
                        ELSE Held[n - 1]
  <1> DEFINE D == [Holding -> Int]
             next(n, d) == IF n \in Fillable /\ Covered(d, n)
                           THEN ApplyFill(d, orders[n].team, orders[n].payload,
                                          WorkerPrice(orders[n].payload))
                           ELSE d
             step == [x \in (1..MaxOrderId) \X D |-> next(x[1], x[2])]
             IsHeld(f) == f = [n \in 0..MaxOrderId |->
                                 IF n = 0 THEN positions ELSE next(n, f[n - 1])]
  <1>1. ASSUME NEW n, NEW d \in D PROVE next(n, d) \in D
    BY FillableTyped, FillAdds
  <1>2. step \in [(1..MaxOrderId) \X D -> D]
    BY <1>1
  <1>3. positions \in D
    BY DEF IInv, TypeOK
  <1>4. PICK f \in [0..MaxOrderId -> D] :
          f = [n \in 0..MaxOrderId |-> IF n = 0 THEN positions
                                       ELSE step[<<n, f[n - 1]>>]]
    <2>1. MaxOrderId \in Nat
      BY OrderAssumption
    <2> HIDE DEF D, step
    <2>2. \E f \in [0..MaxOrderId -> D] : Recursive(MaxOrderId, positions, step, f)
      BY <1>2, <1>3, <2>1, RecursionExists
    <2> QED BY <2>2 DEF Recursive
  <1>5. IsHeld(f)
    <2>1. ASSUME NEW n \in 0..MaxOrderId, n # 0
          PROVE  step[<<n, f[n - 1]>>] = next(n, f[n - 1])
      <3>1. n \in 1..MaxOrderId /\ n - 1 \in 0..MaxOrderId
        BY <2>1, OrderAssumption
      <3>2. f[n - 1] \in D
        BY <3>1
      <3> HIDE DEF D, next
      <3> QED BY <3>1, <3>2
    <2> HIDE DEF next, step, D
    <2> QED BY <1>4, <2>1
  <1>6. Held = CHOOSE g : IsHeld(g)
    BY DEF Held
  <1>7. IsHeld(Held)
    <2> HIDE DEF IsHeld
    <2> QED BY <1>5, <1>6
  <1> HIDE DEF next
  <1>8. /\ Held[0] = positions
        /\ \A n \in 1..MaxOrderId : Held[n] = next(n, Held[n - 1])
    BY <1>7, OrderAssumption
  <1>9. \A n \in 0..MaxOrderId : Held[n] \in D
    <2> DEFINE Bad == {n \in 0..MaxOrderId : Held[n] \notin D}
    <2> SUFFICES ASSUME Bad # {} PROVE FALSE
      OBVIOUS
    <2>1. PICK n \in Bad : \A k \in Bad : n <= k
      <3>1. Bad \in SUBSET Nat
        OBVIOUS
      <3> HIDE DEF Bad
      <3> QED BY <3>1, LeastElement
    <2>2. n \in 0..MaxOrderId /\ n # 0
      <3> HIDE DEF D
      <3> QED BY <1>3, <1>8
    <2>4. n \in 1..MaxOrderId /\ n - 1 \in 0..MaxOrderId /\ ~(n <= n - 1)
      BY <2>2, OrderAssumption
    <2>3. Held[n - 1] \in D
      <3> HIDE DEF D
      <3> QED BY <2>1, <2>4
    <2> HIDE DEF D
    <2> QED BY <1>1, <1>8, <2>4, <2>3
  <1> USE DEF next
  <1> QED BY <1>8, <1>9

\* What the fill of order o in this transaction would add to holding h.
Added(o, h) == IF o \in FilledNow
               THEN Adds(orders[o].team, orders[o].payload,
                         WorkerPrice(orders[o].payload), h)
               ELSE 0

\* It is an integer.
LEMMA AddedInt == ASSUME IInv, NEW o, NEW h PROVE Added(o, h) \in Int
  BY FillableTyped, AddsInt DEF Added, FilledNow

\* After the orders up to n, a team holds what it held and what they added.
LEMMA HeldSum ==
  ASSUME IInv, NEW h \in Holding
  PROVE  Held[MaxOrderId][h] =
           positions[h] + SumFunctionOnSet([o \in OrderId |-> Added(o, h)], OrderId)
  <1> DEFINE f == [o \in OrderId |-> Added(o, h)]
             Upto(n) == SumFunctionOnSet(f, 1..n)
             Bad == {n \in 0..MaxOrderId : Held[n][h] # positions[h] + Upto(n)}
  <1>0. positions[h] \in Int /\ MaxOrderId \in Nat
    BY OrderAssumption DEF IInv, TypeOK
  <1>1. ASSUME Bad # {} PROVE FALSE
    <2>1. PICK n \in Bad : \A k \in Bad : n <= k
      <3>1. Bad \in SUBSET Nat
        OBVIOUS
      <3> HIDE DEF Bad
      <3> QED BY <1>1, <3>1, LeastElement
    <2>2. n # 0
      <3>1. 1..0 = {}
        OBVIOUS
      <3>2. Upto(0) = 0
        BY <3>1, SumEmpty
      <3>3. Held[0][h] = positions[h]
        BY HeldIs
      <3> QED BY <1>0, <3>2, <3>3
    <2>3. /\ n \in 1..MaxOrderId /\ n - 1 \in 0..MaxOrderId /\ n \in OrderId
          /\ n - 1 \notin Bad
      BY <1>0, <2>1, <2>2 DEF OrderId
    <2>4. Held[n - 1][h] = positions[h] + Upto(n - 1)
      BY <2>3
    <2>5. 1..n \subseteq OrderId /\ n \in 1..n /\ (1..n) \ {n} = 1..(n - 1)
          /\ n \in Int /\ n - 1 \in Int
      <3> HIDE DEF Bad, Upto, f
      <3> QED BY <1>0, <2>3 DEF OrderId
    <2>6. /\ IsFiniteSet(1..n) /\ IsFiniteSet(1..(n - 1))
          /\ \A o \in 1..n : f[o] \in Int
          /\ \A o \in 1..(n - 1) : f[o] \in Int
      <3>1. \A o \in OrderId : f[o] \in Int
        BY AddedInt
      <3>2. IsFiniteSet(1..n) /\ IsFiniteSet(1..(n - 1))
        <4> HIDE DEF Bad, Upto, f
        <4> QED BY <2>5, FS_Interval
      <3> HIDE DEF Bad, Upto, f
      <3> QED BY <2>5, <3>1, <3>2
    <2>7. Upto(n) = f[n] + Upto(n - 1) /\ Upto(n - 1) \in Int
      <3>1. SumFunctionOnSet(f, 1..n) = f[n] + SumFunctionOnSet(f, (1..n) \ {n})
        <4> HIDE DEF f, Bad
        <4> QED BY <2>5, <2>6, SumAdd
      <3>2. SumFunctionOnSet(f, 1..(n - 1)) \in Int
        <4> HIDE DEF f, Bad
        <4> QED BY <2>6, SumInt
      <3> HIDE DEF f, Bad
      <3> QED BY <2>5, <3>1, <3>2
    <2>8. Held[n][h] = Held[n - 1][h] + Added(n, h)
      <3>1. n \in FilledNow <=> n \in Fillable /\ Covered(Held[n - 1], n)
        BY DEF FilledNow
      <3>2. Held[n - 1] \in [Holding -> Int]
        BY <2>3, HeldIs
      <3>3. CASE n \in FilledNow
        <4>1. n \in Fillable
          BY <3>1, <3>3
        <4>2. /\ orders[n].team \in Teams /\ orders[n].payload \in Payloads
              /\ WorkerPrice(orders[n].payload) \in Int
          BY <4>1, FillableTyped
        <4>3. Held[n] = ApplyFill(Held[n - 1], orders[n].team, orders[n].payload,
                                  WorkerPrice(orders[n].payload))
          BY <2>3, <3>1, <3>3, HeldIs
        <4>4. Added(n, h) = Adds(orders[n].team, orders[n].payload,
                                 WorkerPrice(orders[n].payload), h)
          BY <3>3 DEF Added
        <4> QED BY <3>2, <4>2, <4>3, <4>4, FillAdds
      <3>4. CASE n \notin FilledNow
        <4>1. Held[n] = Held[n - 1] /\ Added(n, h) = 0
          BY <2>3, <3>1, <3>4, HeldIs DEF Added
        <4> QED BY <3>2, <4>1
      <3> QED BY <3>3, <3>4
    <2>9. f[n] = Added(n, h) /\ Added(n, h) \in Int
      BY <2>3, AddedInt
    <2> HIDE DEF Upto, f
    <2>10. Held[n][h] = positions[h] + Upto(n)
      BY <1>0, <2>4, <2>7, <2>8, <2>9
    <2> QED BY <2>1, <2>10
  <1>2. MaxOrderId \in 0..MaxOrderId /\ OrderId = 1..MaxOrderId
    BY <1>0 DEF OrderId
  <1> QED BY <1>1, <1>2

\* A transaction that fills nothing moves nothing.
LEMMA NothingFilled ==
  ASSUME IInv, FilledNow = {}, NEW h \in Holding
  PROVE  Held[MaxOrderId][h] = positions[h]
  <1> DEFINE f == [o \in OrderId |-> Added(o, h)]
  <1>1. \A o \in OrderId : f[o] = 0
    BY DEF Added
  <1>2. IsFiniteSet(OrderId)
    BY OrderAssumption, FS_Interval DEF OrderId
  <1>3. SumFunctionOnSet(f, OrderId) = 0
    <2> HIDE DEF f
    <2> QED BY <1>1, <1>2, SumZero
  <1>4. positions[h] \in Int
    BY DEF IInv, TypeOK
  <1> QED BY <1>3, <1>4, HeldSum

\* What is settled once is not settled again.  The worker's transaction moves
\* a position only with a fill (NothingFilled); a settlement takes the whole
\* of what is held on a resolved market; a reset deletes both.
THEOREM SettlesOnce == Spec => SettledOnce
  <1>1. ASSUME IInv, [Next]_vars
        PROVE  [\A h \in Holding :
                  IF settlements'[h] = settlements[h]
                  THEN settlements[h] # 0 /\ positions'[h] # positions[h] =>
                         fills' # fills
                  ELSE \/ settlements'[h] = 0
                       \/ /\ settlements[h] = 0
                          /\ settlements'[h] = positions[h]
                          /\ positions'[h] = 0
                          /\ market[h[2]].outcome # None]_vars
    <2> SUFFICES ASSUME NEW h \in Holding
                 PROVE  IF settlements'[h] = settlements[h]
                        THEN settlements[h] # 0 /\ positions'[h] # positions[h] =>
                               fills' # fills
                        ELSE \/ settlements'[h] = 0
                             \/ /\ settlements[h] = 0
                                /\ settlements'[h] = positions[h]
                                /\ positions'[h] = 0
                                /\ market[h[2]].outcome # None
      OBVIOUS
    <2> DEFINE Goal == IF settlements'[h] = settlements[h]
                       THEN settlements[h] # 0 /\ positions'[h] # positions[h] =>
                              fills' # fills
                       ELSE \/ settlements'[h] = 0
                            \/ /\ settlements[h] = 0
                               /\ settlements'[h] = positions[h]
                               /\ positions'[h] = 0
                               /\ market[h[2]].outcome # None
    <2>1. CASE UNCHANGED <<positions, settlements>>
      BY <2>1
    <2>2. ASSUME NEW r \in Posts, RecordDispatch(r) PROVE Goal
      <3>1. CASE UNCHANGED <<positions, settlements>>
        BY <3>1
      <3>2. CASE DispatchCommits(r) /\ post[r].price > 0
        <4>1. PICK o \in OrderId : o = post[r].order
          BY <1>1, <2>2, <3>2, KnownIds DEF DispatchCommits, RecordDispatch, Owning
        <4>2. /\ fills' = [fills EXCEPT ![o] = Append(fills[o], post[r].price)]
              /\ UNCHANGED settlements
          BY <2>2, <3>2, <4>1 DEF RecordDispatch
        <4>3. fills[o] \in Seq(1..BPS) /\ fills'[o] = Append(fills[o], post[r].price)
          BY <1>1, <4>1, <4>2 DEF IInv, TypeOK
        <4>4. Len(fills'[o]) # Len(fills[o])
          <5>1. Len(Append(fills[o], post[r].price)) = Len(fills[o]) + 1
                /\ Len(fills[o]) \in Nat
            BY <4>3
          <5> QED BY <4>3, <5>1
        <4> QED BY <4>2, <4>4
      <3> QED BY <2>2, <3>1, <3>2 DEF RecordDispatch
    <2>3. ASSUME FillOpenOrders PROVE Goal
      <3>1. CASE UNCHANGED <<positions, settlements>>
        BY <3>1
      <3>2. CASE FillsApply /\ FilledNow = {}
        BY <1>1, <2>3, <3>2, NothingFilled DEF FillOpenOrders
      <3>3. CASE FillsApply /\ FilledNow # {}
        <4>1. PICK o \in FilledNow : TRUE
          BY <3>3
        <4>2. o \in Fillable /\ o \in OrderId /\ fills[o] = <<>>
          BY <1>1, <4>1, FillableTyped DEF FilledNow
        <4>3. fills'[o] = Append(<<>>, WorkerPrice(orders[o].payload))
              /\ UNCHANGED settlements
          BY <2>3, <3>3, <4>2 DEF FillOpenOrders
        <4>4. fills'[o] # <<>>
          BY <1>1, <4>2, <4>3, WorkerPriceTyped
        <4> QED BY <4>2, <4>3, <4>4
      <3> QED BY <2>3, <3>1, <3>2, <3>3 DEF FillOpenOrders
    <2>4. ASSUME SettleRound PROVE Goal
      <3>1. CASE h \in Unsettled
        <4>1. settlements'[h] = positions[h] /\ positions'[h] = 0
              /\ settlements[h] = 0 /\ market[h[2]].outcome # None
          BY <2>4, <3>1 DEF SettleRound, Unsettled
        <4> QED BY <4>1
      <3>2. CASE h \notin Unsettled
        BY <2>4, <3>2 DEF SettleRound
      <3> QED BY <3>1, <3>2
    <2>5. ASSUME NEW team \in SUBSET Teams, DeleteRowsOf(team) PROVE Goal
      BY <2>5 DEF DeleteRowsOf
    <2> HIDE DEF Goal
    <2>6. CASE Trading
      <3>1. ASSUME NEW r \in Posts, PostStep(r) PROVE Goal \/ UNCHANGED <<positions, settlements>>
        BY <2>2, <3>1 DEF PostStep, LookupAndCheckRisk, CreateSubmitted, CreateRejected,
           PlaceAtVenue, RecordVenueFailure, books
      <3>2. ASSUME WorkerStep PROVE Goal \/ UNCHANGED <<positions, settlements>>
        BY <2>3, <3>2 DEF WorkerStep, WorkerTick, AdvanceMarkets, books
      <3>3. \/ UNCHANGED <<positions, settlements>>
            \/ \E r \in Posts : PostStep(r)
            \/ WorkerStep
        BY <2>6 DEF Trading, Request, Receive, CancelRequest, CheckCancel,
           WriteCanceled, books
      <3>4. UNCHANGED <<positions, settlements>> => Goal
        BY <2>1 DEF Goal
      <3> QED BY <3>1, <3>2, <3>3, <3>4 DEF Goal
    <2>7. CASE Abort
      <3>1. UNCHANGED <<positions, settlements>>
        BY <2>7 DEF Abort, AbortPost, AbortCancel, AbortTick, books
      <3> QED BY <2>1, <3>1
    <2>8. CASE Operator
      <3>1. CASE \/ \E s \in RoundMoves : SetRoundStatus(s)
                 \/ \E m \in Markets, outcome \in Outcomes : ResolveMarket(m, outcome)
        <4>1. UNCHANGED <<positions, settlements>>
          BY <3>1 DEF SetRoundStatus, ResolveMarket, books
        <4> QED BY <2>1, <4>1
      <3>2. CASE SettleRound
        BY <2>4, <3>2 DEF Goal
      <3>3. CASE \/ ResetRound
                 \/ \E t \in Teams : ResetTeamRound(t)
        <4>1. \E team \in SUBSET Teams : DeleteRowsOf(team)
          BY <3>3 DEF ResetRound, ResetTeamRound
        <4> QED BY <2>5, <4>1 DEF Goal
      <3> QED BY <2>8, <3>1, <3>2, <3>3 DEF Operator
    <2>9. CASE UNCHANGED vars
      BY <2>1, <2>9 DEF vars, books
    <2> QED BY <1>1, <2>6, <2>7, <2>8, <2>9 DEF Next, Goal
  <1> QED BY <1>1, Invariance, PTL DEF Spec, SettledOnce

-----------------------------------------------------------------------------
(***************************************************************************)
(* The balance of the books                                                *)
(***************************************************************************)
\* There are finitely many orders.
LEMMA OrderIdFinite == IsFiniteSet(OrderId) /\ MaxOrderId \in Nat
  BY OrderAssumption, FS_Interval DEF OrderId

\* The sum over no fills, ...
LEMMA NoneAdds == ASSUME NEW f PROVE SumFunctionOnSet(f, DOMAIN <<>>) = 0
  <1>1. DOMAIN <<>> = {}
    OBVIOUS
  <1> QED BY <1>1, SumEmpty

\* ... and over one.
LEMMA OneAdds ==
  ASSUME NEW s \in Seq(Int), Len(s) = 1, NEW f, f[1] \in Int
  PROVE  SumFunctionOnSet(f, DOMAIN s) = f[1]
  <1>1. DOMAIN s = {1}
    OBVIOUS
  <1>2. IsFiniteSet({1}) /\ {1} \ {1} = {}
    BY FS_Singleton
  <1>3. SumFunctionOnSet(f, {1}) = f[1] + SumFunctionOnSet(f, {1} \ {1})
    BY <1>2, SumAdd
  <1>4. SumFunctionOnSet(f, {}) = 0
    BY SumEmpty
  <1>5. SumFunctionOnSet(f, {1}) = f[1]
    <2>1. SumFunctionOnSet(f, {1}) = f[1] + 0
      BY <1>2, <1>3, <1>4, Zenon
    <2> QED BY <2>1
  <1> QED BY <1>1, <1>5, Zenon

\* An entry of a sequence is one of its values.
LEMMA EntryIn ==
  ASSUME NEW S, NEW s \in Seq(S), NEW i \in 1..Len(s) PROVE s[i] \in S
  OBVIOUS

\* What the fills of an order add is an integer; it is zero if there are none,
\* and at other holdings.
LEMMA AddedByInt ==
  ASSUME IInv, NEW o \in OrderId, NEW h
  PROVE  /\ AddedBy(o, h) \in Int
         /\ fills[o] = <<>> => AddedBy(o, h) = 0
         /\ HoldingOf(orders[o].team, orders[o].payload) # h => AddedBy(o, h) = 0
  <1> DEFINE f == [i \in DOMAIN fills[o] |->
                     Adds(orders[o].team, orders[o].payload, fills[o][i], h)]
  <1>1. AddedBy(o, h) = SumFunctionOnSet(f, DOMAIN fills[o])
    BY DEF AddedBy
  <1>2. CASE fills[o] = <<>>
    BY <1>1, <1>2, NoneAdds
  <1>3. CASE fills[o] # <<>>
    <2>1. /\ fills[o] \in Seq(1..BPS) /\ orders[o].payload \in Payloads
          /\ 1..BPS \subseteq Int
      BY <1>3 DEF IInv, TypeOK, RowsComplete, BPS
    <2>2. \A i \in DOMAIN fills[o] : f[i] \in Int
      <3>1. \A i \in DOMAIN fills[o] : fills[o][i] \in 1..BPS
        <4> HIDE DEF f
        <4>1. DOMAIN fills[o] = 1..Len(fills[o])
          BY <2>1
        <4>2. \A i \in 1..Len(fills[o]) : fills[o][i] \in 1..BPS
          BY <2>1, EntryIn
        <4> QED BY <4>1, <4>2, Zenon
      <3> QED BY <2>1, <3>1, AddsInt
    <2>3. IsFiniteSet(DOMAIN fills[o])
      <3>1. DOMAIN fills[o] = 1..Len(fills[o]) /\ Len(fills[o]) \in Nat
        BY <2>1
      <3> QED BY <3>1, FS_Interval
    <2>4. HoldingOf(orders[o].team, orders[o].payload) # h =>
            \A i \in DOMAIN fills[o] : f[i] = 0
      BY DEF Adds
    <2> HIDE DEF f
    <2> QED BY <1>1, <1>3, <2>2, <2>3, <2>4, SumInt, SumZero
  <1> QED BY <1>2, <1>3

\* The sum over all orders grows by what it grows by at each of them.
LEMMA NetGrows ==
  ASSUME IInv, NEW h, NEW d \in [OrderId -> Int],
         \A o \in OrderId : AddedBy(o, h)' = AddedBy(o, h) + d[o]
  PROVE  /\ NetFilled(h)' = NetFilled(h) + SumFunctionOnSet(d, OrderId)
         /\ NetFilled(h) \in Int /\ SumFunctionOnSet(d, OrderId) \in Int
  <1> DEFINE f == [o \in OrderId |-> AddedBy(o, h)]
             g == [o \in OrderId |-> AddedBy(o, h)']
  <1>1. NetFilled(h) = SumFunctionOnSet(f, OrderId)
    BY DEF NetFilled
  <1>2. NetFilled(h)' = SumFunctionOnSet(g, OrderId)
    BY DEF NetFilled, OrderId
  <1>3. \A o \in OrderId : f[o] \in Int /\ d[o] \in Int /\ g[o] = f[o] + d[o]
    BY AddedByInt
  <1> HIDE DEF f, g
  <1> QED BY <1>1, <1>2, <1>3, OrderIdFinite, SumPlus, SumInt

\* A step that leaves what every order adds, and what is held and settled.
LEMMA BalanceKept ==
  ASSUME IInv, BooksBalance, UNCHANGED <<positions, settlements>>,
         \A o \in OrderId : fills'[o] = fills[o],
         \A o \in OrderId : fills[o] # <<>> =>
           orders'[o].team = orders[o].team /\ orders'[o].payload = orders[o].payload
  PROVE  BooksBalance'
  <1> SUFFICES ASSUME NEW h \in Holding
               PROVE  positions'[h] = NetFilled(h)' - settlements'[h]
    BY DEF BooksBalance, Holding
  <1> DEFINE d == [o \in OrderId |-> 0]
  <1>1. \A o \in OrderId : AddedBy(o, h)' = AddedBy(o, h) + d[o]
    <2> TAKE o \in OrderId
    <2>1. CASE fills[o] = <<>>
      <3>1. AddedBy(o, h)' = 0
        BY <2>1, NoneAdds DEF AddedBy
      <3> QED BY <2>1, <3>1, AddedByInt
    <2>2. CASE fills[o] # <<>>
      <3>1. AddedBy(o, h)' = AddedBy(o, h)
        BY <2>2 DEF AddedBy
      <3> QED BY <3>1, AddedByInt
    <2> QED BY <2>1, <2>2
  <1>2. SumFunctionOnSet(d, OrderId) = 0
    <2>1. \A o \in OrderId : d[o] = 0
      OBVIOUS
    <2> HIDE DEF d
    <2> QED BY <2>1, OrderIdFinite, SumZero
  <1>3. d \in [OrderId -> Int]
    OBVIOUS
  <1> HIDE DEF d
  <1>4. NetFilled(h)' = NetFilled(h) + 0 /\ NetFilled(h) \in Int
    BY <1>1, <1>2, <1>3, NetGrows
  <1> QED BY <1>4 DEF BooksBalance

\* A step that fills some orders, which had no fill, each at a price, and adds
\* to the positions what those fills add.
LEMMA FillsBalance ==
  ASSUME IInv, BooksBalance, NEW filled \in SUBSET OrderId,
         NEW price \in [filled -> 1..BPS],
         \A o \in filled : /\ fills[o] = <<>> /\ fills'[o] = <<price[o]>>
                           /\ orders[o].payload \in Payloads,
         \A o \in OrderId \ filled : fills'[o] = fills[o],
         \A o \in OrderId : orders'[o].team = orders[o].team
                            /\ orders'[o].payload = orders[o].payload,
         \A h \in Holding :
           positions'[h] = positions[h] + SumFunctionOnSet(
             [o \in OrderId |-> IF o \in filled
                                THEN Adds(orders[o].team, orders[o].payload, price[o], h)
                                ELSE 0], OrderId),
         UNCHANGED settlements
  PROVE  BooksBalance'
  <1> SUFFICES ASSUME NEW h \in Holding
               PROVE  positions'[h] = NetFilled(h)' - settlements'[h]
    BY DEF BooksBalance, Holding
  <1> DEFINE d == [o \in OrderId |-> IF o \in filled
                    THEN Adds(orders[o].team, orders[o].payload, price[o], h) ELSE 0]
  <1>1. \A o \in filled : price[o] \in Int
    <2>1. \A n \in 1..BPS : n \in Int
      BY DEF BPS
    <2> QED BY <2>1
  <1>2. d \in [OrderId -> Int]
    BY <1>1, AddsInt
  <1>3. \A o \in OrderId : AddedBy(o, h)' = AddedBy(o, h) + d[o]
    <2> TAKE o \in OrderId
    <2>1. AddedBy(o, h) \in Int
      BY AddedByInt
    <2>2. CASE o \in filled
      <3> DEFINE s == <<price[o]>>
                 f == [i \in DOMAIN s |-> Adds(orders[o].team, orders[o].payload, s[i], h)]
      <3>1. AddedBy(o, h)' = SumFunctionOnSet(f, DOMAIN s)
        BY <2>2 DEF AddedBy
      <3>2. s \in Seq(Int) /\ Len(s) = 1 /\ s[1] = price[o] /\ 1 \in DOMAIN s
        BY <1>1, <2>2
      <3>3. f[1] = d[o] /\ d[o] \in Int
        BY <1>2, <2>2, <3>2
      <3>4. AddedBy(o, h) = 0
        BY <2>2, AddedByInt
      <3> HIDE DEF s, f, d
      <3>5. AddedBy(o, h)' = d[o]
        BY <3>1, <3>2, <3>3, OneAdds
      <3> QED BY <3>3, <3>4, <3>5
    <2>3. CASE o \notin filled
      <3>1. AddedBy(o, h)' = AddedBy(o, h) /\ d[o] = 0
        BY <2>3 DEF AddedBy
      <3> QED BY <2>1, <3>1
    <2> QED BY <2>2, <2>3
  <1>4. positions'[h] = positions[h] + SumFunctionOnSet(d, OrderId)
    OBVIOUS
  <1>5. positions[h] \in Int /\ settlements[h] \in Int
        /\ positions[h] = NetFilled(h) - settlements[h]
    BY DEF IInv, TypeOK, BooksBalance
  <1> HIDE DEF d
  <1>6. /\ NetFilled(h)' = NetFilled(h) + SumFunctionOnSet(d, OrderId)
        /\ NetFilled(h) \in Int /\ SumFunctionOnSet(d, OrderId) \in Int
    BY <1>2, <1>3, NetGrows
  <1>7. positions'[h] = (NetFilled(h) + SumFunctionOnSet(d, OrderId)) - settlements[h]
    BY <1>4, <1>5, <1>6
  <1> QED BY <1>6, <1>7

\* One lemma per kind of step: a dispatch with a fill adds one fill, ...
LEMMA DispatchBalance ==
  ASSUME IInv, BooksBalance, NEW r \in Posts, RecordDispatch(r) PROVE BooksBalance'
  <1>1. CASE ~DispatchCommits(r)
    BY <1>1, BalanceKept DEF RecordDispatch
  <1>2. CASE DispatchCommits(r)
    <2>0. post[r].pc \in Owning /\ Exists(post[r].order) /\ HandlersOwn!(r)
          /\ post[r] \in PostRow
      BY <1>2 DEF RecordDispatch, Owning, DispatchCommits, IInv, HandlersOwn, TypeOK
    <2>1. PICK o \in OrderId, price \in 0..BPS : o = post[r].order /\ price = post[r].price
      BY <2>0, KnownIds DEF PostRow
    <2>2. /\ orders[o].team = post[r].team /\ orders[o].payload = post[r].payload
          /\ orders[o].team \in Teams /\ orders[o].payload \in Payloads
          /\ orders \in [OrderId -> OrderRow] /\ fills \in [OrderId -> Seq(1..BPS)]
          /\ positions \in [Holding -> Int] /\ fills[o] = <<>>
      BY <2>0, <2>1, KnownIds DEF IInv, TypeOK, StatusTells, Owning
    <2>3. /\ orders' = [orders EXCEPT ![o].status = IF price > 0 THEN "filled" ELSE "open",
                                      ![o].venue = TRUE]
          /\ fills' = IF price > 0 THEN [fills EXCEPT ![o] = Append(fills[o], price)]
                      ELSE fills
          /\ positions' = IF price > 0
                          THEN ApplyFill(positions, orders[o].team, orders[o].payload, price)
                          ELSE positions
          /\ UNCHANGED settlements
      BY <1>2, <2>1, <2>2 DEF RecordDispatch
    <2>4. \A q \in OrderId : orders'[q].team = orders[q].team
                             /\ orders'[q].payload = orders[q].payload
      BY <2>2, <2>3 DEF OrderRow
    <2>5. CASE ~(price > 0)
      <3>1. UNCHANGED <<positions, settlements>> /\ \A q \in OrderId : fills'[q] = fills[q]
        BY <2>3, <2>5
      <3> QED BY <2>4, <3>1, BalanceKept
    <2>6. CASE price > 0
      <3> DEFINE f == [q \in {o} |-> price]
      <3>1. f \in [{o} -> 1..BPS] /\ f[o] = price /\ price \in Int
        BY <2>6 DEF BPS
      <3>2. /\ fills'[o] = <<f[o]>>
            /\ \A q \in OrderId \ {o} : fills'[q] = fills[q]
        <4>1. fills' = [fills EXCEPT ![o] = Append(<<>>, price)]
          BY <2>2, <2>3, <2>6
        <4> QED BY <2>2, <3>1, <4>1
      <3>3. ASSUME NEW h \in Holding
            PROVE  positions'[h] = positions[h] + SumFunctionOnSet(
                     [q \in OrderId |-> IF q \in {o}
                        THEN Adds(orders[q].team, orders[q].payload, f[q], h)
                        ELSE 0], OrderId)
        <4> DEFINE a == Adds(orders[o].team, orders[o].payload, price, h)
                   zero == [q \in OrderId |-> 0]
                   d == [q \in OrderId |-> IF q \in {o}
                           THEN Adds(orders[q].team, orders[q].payload, f[q], h) ELSE 0]
        <4>1. positions'[h] = positions[h] + a /\ a \in Int
          BY <2>2, <2>3, <2>6, <3>1, FillAdds, AddsInt
        <4>2. d[o] = a /\ zero[o] = 0 /\ \A q \in OrderId \ {o} : zero[q] = d[q]
          BY <3>1
        <4>3. \A q \in OrderId : zero[q] = 0 /\ zero[q] \in Int /\ d[q] \in Int
          BY <4>1, <4>2
        <4> HIDE DEF a, d, zero
        <4>4. SumFunctionOnSet(zero, OrderId) = 0
          BY <4>3, OrderIdFinite, SumZero
        <4>5. SumFunctionOnSet(d, OrderId) = SumFunctionOnSet(zero, OrderId) + (d[o] - zero[o])
          BY <4>2, <4>3, OrderIdFinite, SumChange
        <4>6. SumFunctionOnSet(d, OrderId) = a
          BY <4>1, <4>2, <4>4, <4>5
        <4> QED BY <4>1, <4>6 DEF d
      <3> HIDE DEF f
      <3>4. PICK filled \in SUBSET OrderId : filled = {o}
        OBVIOUS
      <3>5. f \in [filled -> 1..BPS]
        BY <3>1, <3>4
      <3>6. /\ \A q \in filled : /\ fills[q] = <<>> /\ fills'[q] = <<f[q]>>
                                /\ orders[q].payload \in Payloads
            /\ \A q \in OrderId \ filled : fills'[q] = fills[q]
        BY <2>2, <3>2, <3>4
      <3>7. \A h \in Holding :
              positions'[h] = positions[h] + SumFunctionOnSet(
                [q \in OrderId |-> IF q \in filled
                   THEN Adds(orders[q].team, orders[q].payload, f[q], h)
                   ELSE 0], OrderId)
        BY <3>3, <3>4, Zenon
      <3> QED BY <2>3, <2>4, <3>5, <3>6, <3>7, FillsBalance
    <2> QED BY <2>5, <2>6
  <1> QED BY <1>1, <1>2

\* ... the worker adds those of FilledNow (HeldSum), ...
LEMMA FillBalance == ASSUME IInv, BooksBalance, FillOpenOrders PROVE BooksBalance'
  <1>1. CASE ~FillsApply
    BY <1>1, BalanceKept DEF FillOpenOrders
  <1>2. CASE FillsApply
    <2>1. FilledNow \subseteq Fillable /\ FilledNow \in SUBSET OrderId
      BY FillableTyped DEF FilledNow
    <2>2. /\ positions' = Held[MaxOrderId]
          /\ orders' = [o \in OrderId |->
               IF o \in FilledNow THEN [orders[o] EXCEPT !.status = "filled"]
               ELSE IF o \in Fillable THEN [orders[o] EXCEPT !.status = "failed"]
               ELSE orders[o]]
          /\ fills' = [o \in OrderId |->
               IF o \in FilledNow
               THEN Append(fills[o], WorkerPrice(orders[o].payload)) ELSE fills[o]]
          /\ UNCHANGED settlements
      BY <1>2 DEF FillOpenOrders
    <2> DEFINE price == [o \in FilledNow |-> WorkerPrice(orders[o].payload)]
    <2>3. price \in [FilledNow -> 1..BPS]
      BY <2>1, WorkerPriceTyped
    <2>4. \A o \in FilledNow : /\ fills[o] = <<>> /\ fills'[o] = <<price[o]>>
                               /\ orders[o].payload \in Payloads
      <3> TAKE o \in FilledNow
      <3>1. o \in Fillable /\ o \in OrderId /\ fills[o] = <<>> /\ orders[o].payload \in Payloads
        BY <2>1, FillableTyped
      <3>2. fills'[o] = Append(<<>>, WorkerPrice(orders[o].payload))
        BY <2>2, <3>1
      <3>3. fills'[o] = Append(<<>>, price[o])
        BY <3>2
      <3> QED BY <3>1, <3>3
    <2>5. \A o \in OrderId \ FilledNow : fills'[o] = fills[o]
      BY <2>2
    <2>6. \A o \in OrderId : orders'[o].team = orders[o].team
                             /\ orders'[o].payload = orders[o].payload
      <3> TAKE o \in OrderId
      <3>1. orders[o] \in OrderRow
        BY DEF IInv, TypeOK
      <3>2. \/ orders'[o] = orders[o]
            \/ \E status : orders'[o] = [orders[o] EXCEPT !.status = status]
        BY <2>2
      <3> QED BY <3>1, <3>2 DEF OrderRow
    <2>7. ASSUME NEW h \in Holding
          PROVE  positions'[h] = positions[h] + SumFunctionOnSet(
                   [o \in OrderId |-> IF o \in FilledNow
                      THEN Adds(orders[o].team, orders[o].payload, price[o], h)
                      ELSE 0], OrderId)
      <3>1. \A o \in OrderId : Added(o, h) =
              IF o \in FilledNow
              THEN Adds(orders[o].team, orders[o].payload, price[o], h) ELSE 0
        BY DEF Added
      <3>2. [o \in OrderId |-> Added(o, h)] =
              [o \in OrderId |-> IF o \in FilledNow
                 THEN Adds(orders[o].team, orders[o].payload, price[o], h) ELSE 0]
        BY <3>1
      <3> QED BY <2>2, <3>2, HeldSum
    <2>8. PICK filled \in SUBSET OrderId : filled = FilledNow
      BY <2>1
    <2> HIDE DEF price
    <2> QED BY <2>2, <2>3, <2>4, <2>5, <2>6, <2>7, <2>8, FillsBalance
  <1> QED BY <1>1, <1>2

\* ... a settlement moves a position into the settlements, ...
LEMMA SettleBalance == ASSUME IInv, BooksBalance, SettleRound PROVE BooksBalance'
  <1> SUFFICES ASSUME NEW h \in Holding
               PROVE  positions'[h] = NetFilled(h)' - settlements'[h]
    BY DEF BooksBalance, Holding
  <1>1. UNCHANGED <<orders, fills>>
    BY DEF SettleRound
  <1>2. NetFilled(h)' = NetFilled(h)
    BY <1>1 DEF NetFilled, AddedBy, OrderId
  <1>3. NetFilled(h) = positions[h] + settlements[h]
    <2> DEFINE d == [o \in OrderId |-> 0]
    <2>1. \A o \in OrderId : AddedBy(o, h)' = AddedBy(o, h) + d[o]
      <3> TAKE o \in OrderId
      <3>1. AddedBy(o, h)' = AddedBy(o, h)
        BY <1>1 DEF AddedBy
      <3> QED BY <3>1, AddedByInt
    <2>2. NetFilled(h) \in Int
      <3>1. d \in [OrderId -> Int]
        OBVIOUS
      <3> HIDE DEF d
      <3> QED BY <2>1, <3>1, NetGrows
    <2>3. positions[h] = NetFilled(h) - settlements[h] /\ positions[h] \in Int
          /\ settlements[h] \in Int
      BY DEF BooksBalance, IInv, TypeOK
    <2> QED BY <2>2, <2>3
  <1>4. positions[h] \in Nat /\ settlements[h] \in Nat
    BY DEF IInv, TypeOK
  <1>5. CASE h \in Unsettled
    <2>1. positions'[h] = 0 /\ settlements'[h] = positions[h] /\ settlements[h] = 0
      BY <1>5 DEF SettleRound, Unsettled
    <2> QED BY <1>2, <1>3, <1>4, <2>1
  <1>6. CASE h \notin Unsettled
    <2>1. positions'[h] = positions[h] /\ settlements'[h] = settlements[h]
      BY <1>6 DEF SettleRound
    <2> QED BY <1>2, <1>3, <1>4, <2>1
  <1> QED BY <1>5, <1>6

\* ... a reset leaves nothing of some teams, ...
LEMMA DeleteBalance ==
  ASSUME IInv, BooksBalance, NEW team \in SUBSET Teams, DeleteRowsOf(team)
  PROVE  BooksBalance'
  <1> SUFFICES ASSUME NEW h \in Holding
               PROVE  positions'[h] = NetFilled(h)' - settlements'[h]
    BY DEF BooksBalance, Holding
  <1>1. \A o \in OrderId :
          IF orders[o].team \in team THEN fills'[o] = <<>>
          ELSE orders'[o] = orders[o] /\ fills'[o] = fills[o]
    BY DEF DeleteRowsOf
  <1>2. \A o \in OrderId : HoldingOf(orders[o].team, orders[o].payload) = h =>
                             orders[o].team = h[1]
    BY DEF HoldingOf
  <1>3. \A o \in OrderId : IF orders[o].team \in team THEN AddedBy(o, h)' = 0
                           ELSE AddedBy(o, h)' = AddedBy(o, h)
    BY <1>1, NoneAdds DEF AddedBy
  <1>4. CASE h[1] \in team
    <2> DEFINE g == [o \in OrderId |-> AddedBy(o, h)']
    <2>1. NetFilled(h)' = SumFunctionOnSet(g, OrderId)
      BY DEF NetFilled, OrderId
    <2>2. \A o \in OrderId : g[o] = 0
      BY <1>2, <1>3, <1>4, AddedByInt
    <2> HIDE DEF g
    <2>3. NetFilled(h)' = 0
      BY <2>1, <2>2, OrderIdFinite, SumZero
    <2> QED BY <1>4, <2>3 DEF DeleteRowsOf
  <1>5. CASE h[1] \notin team
    <2> DEFINE d == [o \in OrderId |-> 0]
    <2>1. \A o \in OrderId : AddedBy(o, h)' = AddedBy(o, h) + d[o]
      <3> TAKE o \in OrderId
      <3>1. AddedBy(o, h)' = AddedBy(o, h)
        BY <1>2, <1>3, <1>5, AddedByInt
      <3> QED BY <3>1, AddedByInt
    <2>2. d \in [OrderId -> Int] /\ \A o \in OrderId : d[o] = 0
      OBVIOUS
    <2> HIDE DEF d
    <2>3. NetFilled(h)' = NetFilled(h) + 0 /\ NetFilled(h) \in Int
      BY <2>1, <2>2, NetGrows, OrderIdFinite, SumZero
    <2> QED BY <1>5, <2>3 DEF DeleteRowsOf, BooksBalance
  <1> QED BY <1>4, <1>5

\* ... and a new order has no fills.
LEMMA CreateBalance ==
  ASSUME IInv, BooksBalance, NEW r \in Posts, NEW s \in {"submitted", "rejected"},
         NEW next, CreateOrder(r, s, next), UNCHANGED <<fills, positions, settlements>>
  PROVE  BooksBalance'
  <1>1. CASE UNCHANGED <<orders, lastOrderId>>
    BY <1>1, BalanceKept
  <1>2. CASE InsertOrder(r, s)
    <2>1. lastOrderId + 1 \in OrderId /\ lastOrderId + 1 > lastOrderId
      BY <1>2, OrderAssumption, KnownIds DEF InsertOrder, OrderId
    <2>2. fills[lastOrderId + 1] = <<>>
      BY <2>1 DEF IInv, RowsComplete
    <2>3. \A q \in OrderId : q # lastOrderId + 1 => orders'[q] = orders[q]
      BY <1>2 DEF InsertOrder, IInv, TypeOK
    <2> QED BY <2>2, <2>3, BalanceKept
  <1> QED BY <1>1, <1>2 DEF CreateOrder

\* Every step keeps the balance.
LEMMA BalanceStep == ASSUME IInv, BooksBalance, [Next]_vars PROVE BooksBalance'
  <1>0. UNCHANGED <<orders, fills, positions, settlements>> => BooksBalance'
    BY BalanceKept
  <1>1. CASE Trading
    <2>1. ASSUME NEW r \in Posts, PostStep(r) PROVE BooksBalance'
      <3>1. CASE LookupAndCheckRisk(r) \/ PlaceAtVenue(r)
        BY <1>0, <3>1 DEF LookupAndCheckRisk, PlaceAtVenue, books
      <3>2. CASE CreateSubmitted(r) \/ CreateRejected(r)
        BY <3>2, CreateBalance DEF CreateSubmitted, CreateRejected
      <3>3. CASE RecordVenueFailure(r)
        <4>1. CASE ~Exists(post[r].order)
          BY <1>0, <3>3, <4>1 DEF RecordVenueFailure
        <4>2. CASE Exists(post[r].order)
          <5>1. PICK o \in OrderId : o = post[r].order
            BY <3>3, KnownIds DEF RecordVenueFailure, Owning
          <5>2. orders' = [orders EXCEPT ![o].status = "failed", ![o].venue = FALSE]
                /\ UNCHANGED <<fills, positions, settlements>>
            BY <3>3, <4>2, <5>1 DEF RecordVenueFailure
          <5>3. orders \in [OrderId -> OrderRow]
            BY DEF IInv, TypeOK
          <5>4. \A q \in OrderId : orders'[q].team = orders[q].team
                                   /\ orders'[q].payload = orders[q].payload
            BY <5>2, <5>3 DEF OrderRow
          <5> QED BY <5>2, <5>4, BalanceKept
        <4> QED BY <4>1, <4>2
      <3>4. CASE RecordDispatch(r)
        BY <3>4, DispatchBalance
      <3> QED BY <2>1, <3>1, <3>2, <3>3, <3>4 DEF PostStep
    <2>2. ASSUME NEW c \in Cancels, WriteCanceled(c) PROVE BooksBalance'
      <3>1. CASE ~Exists(cancel[c].order)
        BY <1>0, <2>2, <3>1 DEF WriteCanceled
      <3>2. CASE Exists(cancel[c].order)
        <4>1. orders' = [orders EXCEPT ![cancel[c].order].status = "canceled"]
              /\ UNCHANGED <<fills, positions, settlements>>
          BY <2>2, <3>2 DEF WriteCanceled
        <4>2. orders \in [OrderId -> OrderRow]
          BY DEF IInv, TypeOK
        <4>3. \A q \in OrderId : orders'[q].team = orders[q].team
                                 /\ orders'[q].payload = orders[q].payload
          BY <4>1, <4>2 DEF OrderRow
        <4> QED BY <4>1, <4>3, BalanceKept
      <3> QED BY <3>1, <3>2
    <2>3. ASSUME WorkerStep PROVE BooksBalance'
      BY <1>0, <2>3, FillBalance DEF WorkerStep, WorkerTick, AdvanceMarkets, books
    <2>4. \/ UNCHANGED <<orders, fills, positions, settlements>>
          \/ \E r \in Posts : PostStep(r)
          \/ \E c \in Cancels : WriteCanceled(c)
          \/ WorkerStep
      BY <1>1 DEF Trading, Request, Receive, CancelRequest, CheckCancel, books
    <2> QED BY <1>0, <2>1, <2>2, <2>3, <2>4
  <1>2. CASE Abort
    BY <1>0, <1>2 DEF Abort, AbortPost, AbortCancel, AbortTick, books
  <1>3. CASE Operator
    <2>1. CASE \/ \E s \in RoundMoves : SetRoundStatus(s)
               \/ \E m \in Markets, outcome \in Outcomes : ResolveMarket(m, outcome)
      BY <1>0, <2>1 DEF SetRoundStatus, ResolveMarket, books
    <2>2. CASE ResetRound \/ \E t \in Teams : ResetTeamRound(t)
      <3>1. \E team \in SUBSET Teams : DeleteRowsOf(team)
        BY <2>2 DEF ResetRound, ResetTeamRound
      <3> QED BY <3>1, DeleteBalance
    <2> QED BY <1>3, <2>1, <2>2, SettleBalance DEF Operator
  <1>4. CASE UNCHANGED vars
    BY <1>0, <1>4 DEF vars, books
  <1> QED BY <1>1, <1>2, <1>3, <1>4 DEF Next

\* A position is what its fills add up to, less what was settled.
THEOREM Balanced == Spec => []BooksBalance
  <1>1. ASSUME Init PROVE BooksBalance
    <2> SUFFICES ASSUME NEW h \in Holding
                 PROVE  positions[h] = NetFilled(h) - settlements[h]
      BY DEF BooksBalance
    <2> DEFINE f == [o \in OrderId |-> AddedBy(o, h)]
    <2>1. \A o \in OrderId : f[o] = 0
      BY <1>1, NoneAdds DEF Init, AddedBy
    <2>2. NetFilled(h) = SumFunctionOnSet(f, OrderId)
      BY DEF NetFilled
    <2> HIDE DEF f
    <2>3. NetFilled(h) = 0
      BY <2>1, <2>2, OrderIdFinite, SumZero
    <2> QED BY <1>1, <2>3 DEF Init
  <1> QED BY <1>1, BalanceStep, Invariance, PTL DEF Spec
=============================================================================
