--------------------------- MODULE MarketsProofs ---------------------------
(***************************************************************************)
(* What Markets keeps for every set of markets, of requests and of paths:  *)
(* its type, that the three tables agree on a market, and that a round     *)
(* which was settled stays settled.                                        *)
(***************************************************************************)
EXTENDS Markets, SequenceTheorems, TLAPS

-----------------------------------------------------------------------------
(***************************************************************************)
(* The inductive invariant                                                 *)
(***************************************************************************)
Prices == 0..Certain

Paths == Seq(1..(Certain - 1))

MarketRow == [status: {"none", "open", "closed", "resolved"}, price: Prices]

SimRow == [path: Paths, tick: Nat, resolved: BOOLEAN, final: Outcomes \union {"unknown"}]

Outcomes0 == Outcomes \union {"none"}

\* The types as functions, which TypeOK says in part of the simulated states only.
Typed ==
  /\ market \in [MarketIds -> MarketRow]
  /\ sim \in [MarketIds -> SimRow]
  /\ outcome \in [MarketIds -> Outcomes0]
  /\ listed \subseteq MarketIds
  /\ active \in BOOLEAN
  /\ held \in [MarketIds -> 0..MaxHeld]
  /\ resting \subseteq listed
  /\ buying \in [MarketIds -> {"none", "checked", "fills", "rests"}]
  /\ paid \in [MarketIds -> Outcomes0]
  /\ request \in [Requests -> RequestRow]
  /\ worker \in {"advance", "fill"}
  /\ reopened \subseteq MarketIds /\ overtaken \subseteq MarketIds
  /\ torn \subseteq MarketIds

\* A market on its way is at a price of its path; only its resolution takes one
\* step more.
OnItsPath(m) ==
  sim[m] # NoSim =>
    /\ sim[m].path # <<>>
    /\ sim[m].tick \in 1..(Len(sim[m].path) + 1)
    /\ ~sim[m].resolved => sim[m].tick \in 1..Len(sim[m].path)

\* There is room for the one buy that is underway or rests, on a listed market.
RoomToFill(m) ==
  /\ m \in resting \/ buying[m] # "none" => held[m] < MaxHeld /\ m \in listed
  /\ m \in resting => buying[m] = "none"

\* Seeding has a path, and what it wrote of the simulated state stands while that
\* is clean.
SeedingHasPath(q) == request[q].pc \in {"state", "price"} => request[q].input.path # <<>>

StateStands(q) ==
  request[q].pc = "price" /\ request[q].clean =>
    sim[request[q].market] = [path |-> request[q].input.path, tick |-> 1,
                              resolved |-> FALSE, final |-> "unknown"]

\* Once resolved a market is closed to orders for good, unless it is reopened.
ResolvedIsShut(m) ==
  m \notin reopened /\ outcome[m] # "none" => market[m].status = "resolved"

\* Nothing is held on m and no fill of it is on its way to be recorded.
Flat(m) == held[m] = 0 /\ buying[m] # "fills"

\* What was paid is gone.
PaidIsGone(m) ==
  m \notin reopened \union overtaken /\ paid[m] # "none" => outcome[m] # "none" /\ Flat(m)

\* What a settlement looked at has its outcome, and is paid when it is through.
Settling(q) ==
  request[q].kind \in {"settle", "complete"} =>
    /\ request[q].checked \subseteq listed
    /\ \A m \in request[q].checked : outcome[m] # "none"
    /\ request[q].pc \in {"complete", "done"} =>
         \A m \in request[q].checked \ (reopened \union overtaken) : Flat(m)

\* A row that says resolved has its outcome.
Known(m) ==
  market[m].status = "resolved" =>
    outcome[m] # "none" /\ market[m].price = Terminal(outcome[m])

ByMarket ==
  \A m \in MarketIds : /\ OnItsPath(m) /\ RoomToFill(m)
                       /\ ResolvedIsShut(m) /\ PaidIsGone(m) /\ Known(m)
                       /\ m \in listed => market[m].status # "none"

ByRequest ==
  \A q \in Requests : SeedingHasPath(q) /\ StateStands(q) /\ Settling(q)

IInv == Typed /\ ByMarket /\ ByRequest /\ RowsAgree
-----------------------------------------------------------------------------
(***************************************************************************)
(* Lemmas about the rows                                                   *)
(***************************************************************************)
\* What the actions put into a row is a row.
LEMMA RowsAreRows ==
  /\ NoRequest \in RequestRow /\ NoSim \in SimRow
  /\ \A pc \in {"done", "refused", "aborted"} :
       Ended(pc) \in RequestRow /\ Ended(pc).pc = pc /\ Ended(pc).kind = "none"
  /\ \A o \in Outcomes : Terminal(o) \in Prices
<1>1. NoRequest.market \in MarketIds /\ NoRequest.input \in Inputs
  BY MarketsAssumption DEF NoRequest
<1>2. NoRequest \in RequestRow
  BY <1>1 DEF NoRequest, RequestRow, Outcomes
<1>3. NoSim \in SimRow
  BY EmptySeq DEF NoSim, SimRow, Paths
<1>4. ASSUME NEW pc \in {"done", "refused", "aborted"}
      PROVE  Ended(pc) \in RequestRow /\ Ended(pc).pc = pc /\ Ended(pc).kind = "none"
  <2>1. Ended(pc) = [NoRequest EXCEPT !.pc = pc] /\ NoRequest.kind = "none"
    BY DEF Ended, NoRequest
  <2>. QED
    BY <1>2, <2>1 DEF RequestRow
<1>5. ASSUME NEW o \in Outcomes
      PROVE  Terminal(o) \in Prices
  BY MarketsAssumption DEF Terminal, Prices
<1>. QED
  BY <1>2, <1>3, <1>4, <1>5

\* A path that is not empty has a first step, and each step is a price.
LEMMA StepsArePrices ==
  ASSUME NEW p \in Paths
  PROVE  /\ Len(p) \in Nat
         /\ p # <<>> => Len(p) > 0
         /\ \A i \in 1..Len(p) : p[i] \in Prices
<1>1. Len(p) \in Nat /\ \A i \in 1..Len(p) : p[i] \in 1..(Certain - 1)
  BY LenProperties, ElementOfSeq DEF Paths
<1>2. p # <<>> => Len(p) # 0
  BY EmptySeq DEF Paths
<1>. QED
  BY <1>1, <1>2, MarketsAssumption DEF Prices

\* The input of a request is a status, a price and a path.
LEMMA InputsAreInputs ==
  ASSUME NEW i \in Inputs
  PROVE  /\ i.status \in {"open", "closed"} /\ i.price \in Prices /\ i.path \in Paths
         /\ i.path # <<>> => Len(i.path) \in Nat \ {0} /\ i.path[1] \in Prices
<1>1. i \in Input
  BY MarketsAssumption
<1>2. i.status \in {"open", "closed"} /\ i.price \in Prices /\ i.path \in Paths
  BY <1>1 DEF Input, Prices, Paths
<1>. QED
  BY <1>2, StepsArePrices

\* r is the row of request p but for the mark that somebody wrote its market.
Kept(p, r) ==
  /\ r \in RequestRow
  /\ r.kind = request[p].kind /\ r.pc = request[p].pc /\ r.market = request[p].market
  /\ r.input = request[p].input /\ r.outcome = request[p].outcome
  /\ r.checked = request[p].checked
  /\ r.clean => request[p].clean

\* Writing a market keeps the other requests, and those that seed it are not
\* clean any more.
LEMMA SpoiledKeeps ==
  ASSUME Typed, NEW q \in Requests, NEW m \in MarketIds
  PROVE  /\ Spoiled(q, m) \in [Requests -> RequestRow]
         /\ Spoiled(q, m)[q] = request[q]
         /\ \A p \in Requests : Kept(p, Spoiled(q, m)[p])
         /\ \A p \in Seeding(m) \ {q} : ~Spoiled(q, m)[p].clean
<1>1. request \in [Requests -> RequestRow]
  BY DEF Typed
<1>2. ASSUME NEW p \in Requests
      PROVE  [request[p] EXCEPT !.clean = FALSE] \in RequestRow
  BY <1>1 DEF RequestRow
<1>. QED
  BY <1>1, <1>2 DEF Spoiled, Kept, Seeding, RequestRow

LEMMA SpoiledAllKeeps ==
  ASSUME Typed, NEW ms \in SUBSET MarketIds
  PROVE  /\ SpoiledAll(ms) \in [Requests -> RequestRow]
         /\ \A p \in Requests : Kept(p, SpoiledAll(ms)[p])
         /\ \A m \in ms : \A p \in Seeding(m) : ~SpoiledAll(ms)[p].clean
<1>1. request \in [Requests -> RequestRow]
  BY DEF Typed
<1>2. ASSUME NEW p \in Requests
      PROVE  [request[p] EXCEPT !.clean = FALSE] \in RequestRow
  BY <1>1 DEF RequestRow
<1>. QED
  BY <1>1, <1>2 DEF SpoiledAll, Kept, Seeding, RequestRow

-----------------------------------------------------------------------------
(***************************************************************************)
(* The invariant at the start, and what it says                            *)
(***************************************************************************)
LEMMA InitIInv ==
  Init => IInv
<1>. SUFFICES ASSUME Init PROVE IInv
  OBVIOUS
<1>. USE MarketsAssumption
<1>1. FirstPath[1] \in Prices /\ FirstPath \in Paths /\ Len(FirstPath) \in Nat \ {0}
  BY StepsArePrices DEF Paths
<1>2. ASSUME NEW m \in MarketIds
      PROVE  /\ market[m] \in MarketRow
             /\ m \in Seeded => market[m] = [status |-> "open", price |-> FirstPath[1]]
             /\ sim[m] = IF m \in Seeded THEN [path |-> FirstPath, tick |-> 1, resolved |-> FALSE,
                                               final |-> "unknown"]
                         ELSE NoSim
  <2>1. /\ market[m] \in {[status |-> "none", price |-> 0], [status |-> "open", price |-> FirstPath[1]]}
        /\ m \in Seeded => market[m].status = "open"
        /\ sim[m] = IF m \in Seeded THEN [NoSim EXCEPT !.path = FirstPath, !.tick = 1] ELSE NoSim
    BY DEF Init
  <2>2. 0 \in Prices
    BY DEF Prices
  <2>3. sim[m] = IF m \in Seeded THEN [path |-> FirstPath, tick |-> 1, resolved |-> FALSE,
                                       final |-> "unknown"]
                 ELSE NoSim
    BY <2>1 DEF NoSim
  <2>4. market[m] \in MarketRow
    BY <1>1, <2>1, <2>2 DEF MarketRow
  <2>5. ASSUME m \in Seeded PROVE market[m] = [status |-> "open", price |-> FirstPath[1]]
    <3>1. [status |-> "none", price |-> 0].status = "none"
      OBVIOUS
    <3>. QED
      BY <2>1, <2>5, <3>1
  <2>. QED
    BY <2>3, <2>4, <2>5
<1>3. Typed
  <2>1. sim \in [MarketIds -> SimRow]
    BY <1>1, <1>2, RowsAreRows DEF Init, SimRow, Outcomes
  <2>2. market \in [MarketIds -> MarketRow]
    BY <1>2 DEF Init
  <2>3. request \in [Requests -> RequestRow]
    BY RowsAreRows DEF Init
  <2>. QED
    BY <2>1, <2>2, <2>3 DEF Init, Typed, Outcomes0, Outcomes
<1>4. ASSUME NEW m \in MarketIds
      PROVE  /\ OnItsPath(m) /\ RoomToFill(m) /\ ResolvedIsShut(m) /\ PaidIsGone(m) /\ Known(m)
             /\ m \in listed => market[m].status # "none"
  <2>1. OnItsPath(m)
    BY <1>1, <1>2 DEF OnItsPath
  <2>2. Known(m)
    BY DEF Init, Known
  <2>. QED
    BY <1>2, <2>1, <2>2 DEF Init, RoomToFill, ResolvedIsShut, PaidIsGone
<1>5. ByRequest
  BY DEF Init, ByRequest, SeedingHasPath, StateStands, Settling, NoRequest
<1>6. RowsAgree
  BY <1>1, <1>2, <1>4 DEF Init, RowsAgree, NoSim, Known
<1>. QED
  BY <1>3, <1>4, <1>5, <1>6 DEF IInv, ByMarket

LEMMA IInvTypeOK ==
  IInv => TypeOK
<1>. SUFFICES ASSUME IInv PROVE TypeOK
  OBVIOUS
<1>. USE MarketsAssumption
<1>1. ASSUME NEW m \in MarketIds
      PROVE  /\ DOMAIN sim[m] = DOMAIN NoSim
             /\ sim[m].tick \in 0..(Len(sim[m].path) + 1)
             /\ sim[m] # NoSim => sim[m].tick > 0 /\ sim[m].path # <<>>
             /\ sim[m].resolved \in BOOLEAN
             /\ sim[m].final \in Outcomes \union {"unknown"}
  <2>1. sim[m] \in SimRow /\ OnItsPath(m)
    BY DEF IInv, Typed, ByMarket
  <2>2. Len(sim[m].path) \in Nat
    BY <2>1 DEF SimRow, Paths
  <2>. QED
    BY <2>1, <2>2 DEF SimRow, NoSim, OnItsPath
<1>2. listed \subseteq {m \in MarketIds : market[m].status # "none"}
  BY DEF IInv, Typed, ByMarket
<1>. QED
  BY <1>1, <1>2 DEF IInv, Typed, TypeOK, MarketRow, Prices, Outcomes0

-----------------------------------------------------------------------------
(***************************************************************************)
(* What a step does to the rows it does not write                          *)
(***************************************************************************)
\* The three tables tell one story of m.
Agree(m) ==
  /\ sim[m] # NoSim /\ ~sim[m].resolved =>
       market[m] = [status |-> "open", price |-> sim[m].path[sim[m].tick]]
  /\ sim[m].resolved \/ (sim[m] = NoSim /\ outcome[m] # "none" /\ m \notin reopened) =>
       market[m].status = "resolved"
  /\ sim[m].resolved => sim[m].final = outcome[m]

LEMMA RowsAgreeByMarket ==
  RowsAgree <=> \A m \in MarketIds : Known(m) /\ (m \notin torn /\ Seeding(m) = {} => Agree(m))
BY DEF RowsAgree, Agree, Known

\* What is known of a request stays known while no step undoes an outcome, a
\* listing or a reopening, and what is written of its market marks it.
LEMMA RequestsKeep ==
  ASSUME IInv, NEW p \in Requests, Kept(p, request'[p]),
         request[p].pc = "price" =>
           sim'[request[p].market] = sim[request[p].market] \/ ~request'[p].clean,
         listed \subseteq listed', reopened \subseteq reopened', overtaken \subseteq overtaken',
         \A k \in MarketIds : outcome[k] # "none" => outcome'[k] # "none",
         \A k \in MarketIds \ (reopened' \union overtaken') :
           outcome[k] # "none" /\ Flat(k) => Flat(k)'
  PROVE  SeedingHasPath(p)' /\ StateStands(p)' /\ Settling(p)'
<1>1. request[p] \in RequestRow /\ SeedingHasPath(p) /\ StateStands(p) /\ Settling(p)
  BY DEF IInv, Typed, ByRequest
<1>2. SeedingHasPath(p)'
  BY <1>1 DEF Kept, SeedingHasPath
<1>3. StateStands(p)'
  BY <1>1 DEF Kept, StateStands
<1>4. Settling(p)'
  BY <1>1 DEF Kept, Settling, RequestRow
<1>. QED
  BY <1>2, <1>3, <1>4

\* The story of a market stays the same while its rows do.
LEMMA MarketKeeps ==
  ASSUME IInv, NEW m \in MarketIds,
         market'[m] = market[m], sim'[m] = sim[m], outcome'[m] = outcome[m],
         reopened \subseteq reopened',
         m \notin torn' /\ Seeding(m)' = {} => m \notin torn /\ Seeding(m) = {}
  PROVE  m \notin torn' /\ Seeding(m)' = {} => Agree(m)'
<1>1. m \notin torn /\ Seeding(m) = {} => Agree(m)
  BY RowsAgreeByMarket DEF IInv
<1>. QED
  BY <1>1 DEF Agree

\* A request that seeds m still does when its row is kept.
LEMMA SeedingKeeps ==
  ASSUME NEW q \in Requests, NEW m \in MarketIds,
         \A p \in Requests \ {q} : Kept(p, request'[p]),
         q \in Seeding(m) => q \in Seeding(m)'
  PROVE  Seeding(m)' = {} => Seeding(m) = {}
BY DEF Kept, Seeding

-----------------------------------------------------------------------------
(***************************************************************************)
(* Every action keeps the invariant                                        *)
(***************************************************************************)
LEMMA UpsertRowKeeps ==
  ASSUME IInv, NEW q \in Requests, UpsertRow(q)
  PROVE  IInv'
<1>1. PICK m \in MarketIds, i \in Inputs :
        /\ Starts(q)
        /\ market' = [market EXCEPT ![m] = [status |-> i.status, price |-> i.price]]
        /\ request' = [request EXCEPT ![q] =
                         IF i.path = <<>> THEN Ended("done")
                         ELSE [@ EXCEPT !.kind = "seed", !.market = m, !.input = i, !.pc = "state"]]
        /\ reopened' = Reopens(m)
        /\ torn' = IF i.path = <<>> /\ sim[m] # NoSim THEN torn \union {m} ELSE torn
        /\ UNCHANGED <<sim, outcome, listed, active, held, resting, paid, buying, worker, overtaken>>
  BY DEF UpsertRow
<1>2. Typed
  BY DEF IInv
<1>3. /\ request'[q] \in RequestRow /\ request'[q].pc \in {"done", "state"}
      /\ request'[q].kind \in {"none", "seed"}
      /\ request'[q].pc = "state" => i.path # <<>> /\ request'[q].market = m
                                       /\ request'[q].input = i
      /\ request'[q].pc = "done" => i.path = <<>>
  <2>1. CASE i.path = <<>>
    BY <1>1, <1>2, <2>1, RowsAreRows DEF Typed
  <2>2. CASE i.path # <<>>
    <3>1. request'[q] = [request[q] EXCEPT !.kind = "seed", !.market = m, !.input = i,
                                           !.pc = "state"]
      BY <1>1, <1>2, <2>2 DEF Typed
    <3>2. request[q] \in RequestRow
      BY <1>2 DEF Typed
    <3>. QED
      BY <2>2, <3>1, <3>2 DEF RequestRow
  <2>. QED
    BY <2>1, <2>2
<1>4. \A p \in Requests \ {q} : Kept(p, request'[p])
  BY <1>1, <1>2 DEF Kept, Typed
<1>5. Typed'
  <2>1. request' \in [Requests -> RequestRow]
    BY <1>1, <1>2, <1>3 DEF Typed
  <2>2. market' \in [MarketIds -> MarketRow]
    BY <1>1, <1>2, InputsAreInputs DEF Typed, MarketRow
  <2>. QED
    BY <1>1, <1>2, <2>1, <2>2 DEF Typed, Reopens
<1>6. ByMarket'
  BY <1>1, <1>2, InputsAreInputs
  DEF IInv, Typed, ByMarket, OnItsPath, RoomToFill, ResolvedIsShut, PaidIsGone, Known, Reopens, Flat
<1>7. ByRequest'
  <2>1. SeedingHasPath(q)' /\ StateStands(q)' /\ Settling(q)'
    BY <1>3 DEF SeedingHasPath, StateStands, Settling
  <2>2. ASSUME NEW p \in Requests \ {q}
        PROVE  SeedingHasPath(p)' /\ StateStands(p)' /\ Settling(p)'
    BY <1>1, <1>4, RequestsKeep DEF Reopens, Flat
  <2>. QED
    BY <2>1, <2>2 DEF ByRequest
<1>8. ASSUME NEW k \in MarketIds
      PROVE  k \notin torn' /\ Seeding(k)' = {} => Agree(k)'
  <2>1. q \notin Seeding(k)
    BY <1>1 DEF Starts, Seeding
  <2>2. CASE k # m
    BY <1>1, <1>4, <2>1, <2>2, MarketKeeps, SeedingKeeps DEF Typed, IInv, Reopens
  <2>3. CASE k = m /\ i.path # <<>>
    BY <1>3, <2>3 DEF Seeding
  <2>4. CASE k = m /\ i.path = <<>>
    BY <1>1, <2>4 DEF Agree, Reopens, NoSim
  <2>. QED
    BY <2>2, <2>3, <2>4
<1>9. RowsAgree'
  BY <1>6, <1>8 DEF RowsAgree, Agree, Known, ByMarket
<1>. QED
  BY <1>5, <1>6, <1>7, <1>9 DEF IInv

LEMMA UpsertSimulatedMarketStateKeeps ==
  ASSUME IInv, NEW q \in Requests, UpsertSimulatedMarketState(q)
  PROVE  IInv'
<1>1. PICK m \in MarketIds, i \in Inputs :
        /\ m = request[q].market /\ i = request[q].input /\ request[q].pc = "state"
        /\ i.path # <<>>
  BY DEF IInv, Typed, ByRequest, SeedingHasPath, RequestRow, UpsertSimulatedMarketState
<1>2. /\ Typed
      /\ sim' = [sim EXCEPT ![m] = [path |-> i.path, tick |-> 1, resolved |-> FALSE,
                                    final |-> "unknown"]]
      /\ request' = [Spoiled(q, m) EXCEPT ![q].pc = "price", ![q].clean = TRUE]
      /\ UNCHANGED <<market, outcome, listed, active, held, resting, paid, buying, worker,
                     reopened, overtaken, torn>>
  BY <1>1 DEF IInv, UpsertSimulatedMarketState, history
<1>3. /\ request'[q] \in RequestRow /\ request'[q].pc = "price" /\ request'[q].market = m
      /\ request'[q].input = i /\ request'[q].kind = request[q].kind
      /\ request'[q].checked = request[q].checked
  <2>1. /\ request'[q] = [request[q] EXCEPT !.pc = "price", !.clean = TRUE]
        /\ request[q] \in RequestRow
    BY <1>2, SpoiledKeeps DEF Typed
  <2>. QED
    BY <1>1, <2>1 DEF RequestRow
<1>4. /\ \A p \in Requests \ {q} : Kept(p, request'[p])
      /\ \A p \in Seeding(m) \ {q} : ~request'[p].clean
  BY <1>2, SpoiledKeeps DEF Seeding
<1>0. sim'[m] = [path |-> i.path, tick |-> 1, resolved |-> FALSE, final |-> "unknown"]
  BY <1>2 DEF Typed
<1>5. Typed'
  <2>1. request' \in [Requests -> RequestRow]
    <3>1. Spoiled(q, m) \in [Requests -> RequestRow]
      BY <1>2, SpoiledKeeps
    <3>2. request' = [Spoiled(q, m) EXCEPT ![q] = request'[q]]
      BY <1>2, <3>1
    <3>. QED
      BY <1>3, <3>1, <3>2
  <2>2. sim' \in [MarketIds -> SimRow]
    BY <1>2, InputsAreInputs DEF Typed, SimRow
  <2>. QED
    BY <1>2, <2>1, <2>2 DEF Typed
<1>6. ByMarket'
  <2>1. OnItsPath(m)'
    BY <1>0, <1>1, InputsAreInputs DEF OnItsPath
  <2>2. ASSUME NEW k \in MarketIds \ {m} PROVE OnItsPath(k)'
    BY <1>2 DEF IInv, Typed, ByMarket, OnItsPath
  <2>. QED
    BY <1>2, <2>1, <2>2 DEF IInv, ByMarket, RoomToFill, ResolvedIsShut, PaidIsGone, Known, Flat
<1>7. ByRequest'
  <2>1. SeedingHasPath(q)' /\ StateStands(q)' /\ Settling(q)'
    BY <1>0, <1>1, <1>2, <1>3 DEF SeedingHasPath, StateStands, Settling, IInv, ByRequest
  <2>2. ASSUME NEW p \in Requests \ {q}
        PROVE  SeedingHasPath(p)' /\ StateStands(p)' /\ Settling(p)'
    <3>1. request[p].pc = "price" =>
            sim'[request[p].market] = sim[request[p].market] \/ ~request'[p].clean
      BY <1>2, <1>4 DEF Seeding, Typed, RequestRow
    <3>. QED
      BY <1>2, <1>4, <3>1, RequestsKeep DEF Flat
  <2>. QED
    BY <2>1, <2>2 DEF ByRequest
<1>8. ASSUME NEW k \in MarketIds
      PROVE  k \notin torn' /\ Seeding(k)' = {} => Agree(k)'
  <2>1. CASE k = m
    BY <1>3, <2>1 DEF Seeding
  <2>2. CASE k # m
    <3>1. q \notin Seeding(k)
      BY <1>1, <2>2 DEF Seeding
    <3>. QED
      BY <1>2, <1>4, <2>2, <3>1, MarketKeeps, SeedingKeeps DEF Typed
  <2>. QED
    BY <2>1, <2>2
<1>9. RowsAgree'
  BY <1>6, <1>8 DEF RowsAgree, Agree, Known, ByMarket
<1>. QED
  BY <1>5, <1>6, <1>7, <1>9 DEF IInv

LEMMA SetMarketPriceKeeps ==
  ASSUME IInv, NEW q \in Requests, SetMarketPrice(q)
  PROVE  IInv'
<1>1. PICK m \in MarketIds, i \in Inputs :
        /\ m = request[q].market /\ i = request[q].input /\ request[q].pc = "price"
        /\ i.path # <<>>
  BY DEF IInv, Typed, ByRequest, SeedingHasPath, RequestRow, SetMarketPrice
<1>2. /\ Typed
      /\ market' = [market EXCEPT ![m] = [status |-> "open", price |-> i.path[1]]]
      /\ request' = [request EXCEPT ![q] = Ended("done")]
      /\ reopened' = Reopens(m)
      /\ torn' = IF request[q].clean THEN torn \ {m} ELSE torn \union {m}
      /\ UNCHANGED <<sim, outcome, listed, active, held, resting, paid, buying, worker, overtaken>>
  BY <1>1 DEF IInv, SetMarketPrice
<1>3. request'[q] \in RequestRow /\ request'[q].pc = "done" /\ request'[q].kind = "none"
  BY <1>2, RowsAreRows DEF Typed
<1>4. \A p \in Requests \ {q} : Kept(p, request'[p])
  BY <1>2 DEF Kept, Typed
<1>5. Typed'
  <2>1. request' \in [Requests -> RequestRow]
    BY <1>2, <1>3 DEF Typed
  <2>2. market' \in [MarketIds -> MarketRow]
    BY <1>1, <1>2, InputsAreInputs DEF Typed, MarketRow
  <2>. QED
    BY <1>2, <2>1, <2>2 DEF Typed, Reopens
<1>6. ByMarket'
  BY <1>2 DEF IInv, Typed, ByMarket, OnItsPath, RoomToFill, ResolvedIsShut, PaidIsGone,
             Known, Reopens, Flat
<1>7. ByRequest'
  <2>1. SeedingHasPath(q)' /\ StateStands(q)' /\ Settling(q)'
    BY <1>3 DEF SeedingHasPath, StateStands, Settling
  <2>2. ASSUME NEW p \in Requests \ {q}
        PROVE  SeedingHasPath(p)' /\ StateStands(p)' /\ Settling(p)'
    BY <1>2, <1>4, RequestsKeep DEF Reopens, Flat
  <2>. QED
    BY <2>1, <2>2 DEF ByRequest
<1>8. ASSUME NEW k \in MarketIds
      PROVE  k \notin torn' /\ Seeding(k)' = {} => Agree(k)'
  <2>1. CASE k = m /\ request[q].clean
    <3>1. sim[m] = [path |-> i.path, tick |-> 1, resolved |-> FALSE, final |-> "unknown"]
      BY <1>1, <2>1 DEF IInv, ByRequest, StateStands
    <3>2. sim' = sim /\ market'[m] = [status |-> "open", price |-> i.path[1]]
      BY <1>2 DEF Typed
    <3>. QED
      BY <1>1, <2>1, <3>1, <3>2 DEF Agree, NoSim
  <2>2. CASE k = m /\ ~request[q].clean
    BY <1>2, <2>2
  <2>3. CASE k # m
    <3>1. q \notin Seeding(k)
      BY <1>1, <2>3 DEF Seeding
    <3>. QED
      BY <1>2, <1>4, <2>3, <3>1, MarketKeeps, SeedingKeeps DEF Typed, Reopens
  <2>. QED
    BY <2>1, <2>2, <2>3
<1>9. RowsAgree'
  BY <1>6, <1>8 DEF RowsAgree, Agree, Known, ByMarket
<1>. QED
  BY <1>5, <1>6, <1>7, <1>9 DEF IInv

\* A step that leaves the tables alone but for a longer list and the round's
\* status, and ends what q was seeding as torn if there is a path.
LEMMA RequestStepKeeps ==
  ASSUME IInv, NEW q \in Requests,
         UNCHANGED <<market, sim, outcome, held, resting, paid, buying, worker, reopened,
                     overtaken>>,
         listed \subseteq listed', listed' \subseteq {m \in MarketIds : market[m].status # "none"},
         active' \in BOOLEAN,
         torn \subseteq torn', torn' \subseteq MarketIds,
         \A m \in MarketIds : q \in Seeding(m) /\ sim[m] # NoSim => m \in torn',
         request' \in [Requests -> RequestRow],
         request'[q].pc \notin {"state", "price"}, Settling(q)',
         \A p \in Requests \ {q} : Kept(p, request'[p])
  PROVE  IInv'
<1>5. Typed'
  BY DEF IInv, Typed
<1>6. ByMarket'
  BY DEF IInv, ByMarket, OnItsPath, RoomToFill, ResolvedIsShut, PaidIsGone, Known, Flat
<1>7. ByRequest'
  <2>1. SeedingHasPath(q)' /\ StateStands(q)'
    BY DEF SeedingHasPath, StateStands
  <2>2. ASSUME NEW p \in Requests \ {q}
        PROVE  SeedingHasPath(p)' /\ StateStands(p)' /\ Settling(p)'
    BY RequestsKeep DEF Flat
  <2>. QED
    BY <2>1, <2>2 DEF ByRequest
<1>8. ASSUME NEW k \in MarketIds
      PROVE  k \notin torn' /\ Seeding(k)' = {} => Agree(k)'
  <2>1. CASE sim[k] # NoSim
    <3>1. k \notin torn' /\ Seeding(k)' = {} => k \notin torn /\ Seeding(k) = {}
      BY <2>1 DEF Seeding, Kept
    <3>. QED
      BY <3>1, MarketKeeps
  <2>2. CASE sim[k] = NoSim
    <3>1. ResolvedIsShut(k)
      BY DEF IInv, ByMarket
    <3>. QED
      BY <2>2, <3>1 DEF Agree, NoSim, ResolvedIsShut
  <2>. QED
    BY <2>1, <2>2
<1>9. RowsAgree'
  BY <1>6, <1>8 DEF RowsAgree, Agree, Known, ByMarket
<1>. QED
  BY <1>5, <1>6, <1>7, <1>9 DEF IInv

\* The tables as they are satisfy what RequestStepKeeps asks of them.
LEMMA TablesKeep ==
  ASSUME IInv
  PROVE  /\ listed \subseteq {m \in MarketIds : market[m].status # "none"}
         /\ active \in BOOLEAN /\ torn \subseteq MarketIds
BY DEF IInv, Typed, ByMarket

LEMMA ResolveSimulatedMarketKeeps ==
  ASSUME IInv, NEW q \in Requests, ResolveSimulatedMarket(q)
  PROVE  IInv'
<1>1. PICK m \in MarketIds, o \in Outcomes :
        /\ Starts(q)
        /\ \/ /\ sim[m] = NoSim
              /\ request' = [request EXCEPT ![q].kind = "resolve", ![q].pc = "plain",
                                            ![q].market = m, ![q].outcome = o]
              /\ UNCHANGED <<tables, history>>
           \/ /\ sim[m] # NoSim /\ ~Resolvable(m)
              /\ request' = [request EXCEPT ![q] = Ended("refused")]
              /\ UNCHANGED <<tables, history>>
           \/ /\ Resolvable(m)
              /\ sim' = [sim EXCEPT ![m].resolved = TRUE, ![m].final = o, ![m].tick = @ + 1]
              /\ market' = [market EXCEPT ![m] = [status |-> "resolved", price |-> Terminal(o)]]
              /\ outcome' = [outcome EXCEPT ![m] = o]
              /\ request' = [Spoiled(q, m) EXCEPT ![q] = Ended("done")]
              /\ torn' = torn \ {m}
              /\ UNCHANGED <<listed, active, held, resting, paid, reopened, overtaken>>
        /\ UNCHANGED <<buying, worker>>
  BY DEF ResolveSimulatedMarket
<1>2. CASE UNCHANGED <<tables, history>>
  <2>1. /\ request' \in [Requests -> RequestRow]
        /\ request'[q].pc \notin {"state", "price"} /\ request'[q].kind \in {"none", "resolve"}
        /\ \A p \in Requests \ {q} : Kept(p, request'[p])
    <3>1. CASE request' = [request EXCEPT ![q].kind = "resolve", ![q].pc = "plain",
                                         ![q].market = m, ![q].outcome = o]
      <4>1. /\ request'[q] = [request[q] EXCEPT !.kind = "resolve", !.pc = "plain",
                                                !.market = m, !.outcome = o]
            /\ request[q] \in RequestRow
        BY <3>1 DEF IInv, Typed
      <4>2. /\ request'[q] \in RequestRow /\ request'[q].pc = "plain"
            /\ request'[q].kind = "resolve"
        BY <4>1 DEF RequestRow
      <4>. QED
        BY <3>1, <4>2 DEF IInv, Typed, Kept
    <3>2. CASE request' = [request EXCEPT ![q] = Ended("refused")]
      BY <3>2, RowsAreRows DEF IInv, Typed, Kept
    <3>3. CASE Resolvable(m) /\ sim' = [sim EXCEPT ![m].resolved = TRUE, ![m].final = o, ![m].tick = @ + 1]
      <4>1. sim'[m].resolved = TRUE
        BY <3>3 DEF IInv, Typed, SimRow
      <4>. QED
        BY <1>2, <3>3, <4>1 DEF Resolvable, tables
    <3>. QED
      BY <1>1, <3>1, <3>2, <3>3
  <2>. QED
    BY <1>1, <1>2, <2>1, RequestStepKeeps, TablesKeep DEF Starts, tables, history, Seeding, Settling
<1>3. CASE Resolvable(m)
  <2>0. Typed /\ OnItsPath(m) /\ sim[m] \in SimRow
    BY DEF IInv, Typed, ByMarket
  <2>1. /\ sim' = [sim EXCEPT ![m].resolved = TRUE, ![m].final = o, ![m].tick = @ + 1]
        /\ market' = [market EXCEPT ![m] = [status |-> "resolved", price |-> Terminal(o)]]
        /\ outcome' = [outcome EXCEPT ![m] = o]
        /\ request' = [Spoiled(q, m) EXCEPT ![q] = Ended("done")]
        /\ torn' = torn \ {m}
        /\ UNCHANGED <<listed, active, held, resting, paid, buying, reopened, overtaken, worker>>
    BY <1>1, <1>3 DEF Resolvable
  <2>2. /\ sim' = [sim EXCEPT ![m] = sim'[m]]
        /\ sim'[m].path = sim[m].path /\ sim'[m].resolved = TRUE /\ sim'[m].final = o
        /\ sim'[m].tick = sim[m].tick + 1 /\ sim'[m] \in SimRow
    BY <2>0, <2>1 DEF Typed, SimRow
  <2>3. request'[q] \in RequestRow /\ request'[q].pc = "done" /\ request'[q].kind = "none"
    BY <2>0, <2>1, SpoiledKeeps, RowsAreRows
  <2>4. /\ \A p \in Requests \ {q} : Kept(p, request'[p])
        /\ \A p \in Seeding(m) \ {q} : ~request'[p].clean
    BY <2>0, <2>1, SpoiledKeeps DEF Seeding
  <2>5. Typed'
    <3>1. request' \in [Requests -> RequestRow]
      BY <2>0, <2>1, <2>3, SpoiledKeeps
    <3>2. market' \in [MarketIds -> MarketRow]
      BY <2>0, <2>1, RowsAreRows DEF Typed, MarketRow
    <3>3. sim' \in [MarketIds -> SimRow]
      BY <2>0, <2>2 DEF Typed
    <3>. QED
      BY <2>0, <2>1, <3>1, <3>2, <3>3 DEF Typed, Outcomes0
  <2>6. ByMarket'
    <3>1. OnItsPath(m)'
      <4>1. Len(sim[m].path) \in Nat /\ sim[m].tick \in 1..Len(sim[m].path) /\ sim[m].path # <<>>
        BY <1>3, <2>0, StepsArePrices DEF OnItsPath, Resolvable, SimRow
      <4>. QED
        BY <2>2, <4>1 DEF OnItsPath
    <3>2. ASSUME NEW k \in MarketIds \ {m} PROVE OnItsPath(k)'
      BY <2>1 DEF IInv, Typed, ByMarket, OnItsPath
    <3>3. ASSUME NEW k \in MarketIds
          PROVE  /\ (RoomToFill(k) /\ ResolvedIsShut(k) /\ PaidIsGone(k) /\ Known(k))'
                 /\ k \in listed' => market'[k].status # "none"
      BY <2>0, <2>1 DEF IInv, Typed, ByMarket, RoomToFill, ResolvedIsShut, PaidIsGone,
             Known, Flat, Outcomes
    <3>. QED
      BY <3>1, <3>2, <3>3 DEF ByMarket
  <2>7. ByRequest'
    <3>1. SeedingHasPath(q)' /\ StateStands(q)' /\ Settling(q)'
      BY <2>3 DEF SeedingHasPath, StateStands, Settling
    <3>2. ASSUME NEW p \in Requests \ {q}
          PROVE  SeedingHasPath(p)' /\ StateStands(p)' /\ Settling(p)'
      <4>1. request[p].pc = "price" =>
              sim'[request[p].market] = sim[request[p].market] \/ ~request'[p].clean
        BY <2>0, <2>1, <2>4 DEF Seeding, Typed, RequestRow
      <4>2. \A k \in MarketIds : outcome[k] # "none" => outcome'[k] # "none"
        BY <2>0, <2>1 DEF Typed, Outcomes
      <4>. QED
        BY <2>1, <2>4, <4>1, <4>2, RequestsKeep DEF Flat
    <3>. QED
      BY <3>1, <3>2 DEF ByRequest
  <2>8. ASSUME NEW k \in MarketIds
        PROVE  k \notin torn' /\ Seeding(k)' = {} => Agree(k)'
    <3>1. CASE k = m
      BY <2>0, <2>1, <2>2, <3>1 DEF Agree, Typed, NoSim
    <3>2. CASE k # m
      <4>1. q \notin Seeding(k)
        BY <1>1 DEF Starts, Seeding
      <4>. QED
        BY <2>0, <2>1, <2>4, <3>2, <4>1, MarketKeeps, SeedingKeeps DEF Typed
    <3>. QED
      BY <3>1, <3>2
  <2>9. RowsAgree'
    BY <2>6, <2>8 DEF RowsAgree, Agree, Known, ByMarket
  <2>. QED
    BY <2>5, <2>6, <2>7, <2>9 DEF IInv
<1>. QED
  BY <1>1, <1>2, <1>3

LEMMA SetMarketOutcomeKeeps ==
  ASSUME IInv, NEW q \in Requests, SetMarketOutcome(q)
  PROVE  IInv'
<1>1. PICK m \in MarketIds, o \in Outcomes :
        /\ m = request[q].market /\ o = request[q].outcome /\ request[q].pc = "plain"
  BY DEF IInv, Typed, RequestRow, SetMarketOutcome
<1>2. CASE /\ request' = [request EXCEPT ![q] = Ended("refused")]
           /\ UNCHANGED <<tables, buying, history, worker>>
  <2>1. /\ request' \in [Requests -> RequestRow]
        /\ request'[q].pc = "refused" /\ request'[q].kind = "none"
        /\ \A p \in Requests \ {q} : Kept(p, request'[p])
    BY <1>2, RowsAreRows DEF IInv, Typed, Kept
  <2>. QED
    BY <1>1, <1>2, <2>1, RequestStepKeeps, TablesKeep DEF tables, history, Seeding, Settling
<1>3. CASE /\ market[m].status # "none"
           /\ outcome' = [outcome EXCEPT ![m] = o]
           /\ market' = [market EXCEPT ![m] = [status |-> "resolved", price |-> Terminal(o)]]
           /\ request' = [request EXCEPT ![q] = Ended("done")]
           /\ torn' = IF sim[m] # NoSim THEN torn \union {m} ELSE torn
           /\ UNCHANGED <<sim, listed, active, held, resting, paid, buying, reopened, overtaken,
                          worker>>
  <2>0. Typed
    BY DEF IInv
  <2>3. request'[q] \in RequestRow /\ request'[q].pc = "done" /\ request'[q].kind = "none"
    BY <2>0, <1>3, RowsAreRows DEF Typed
  <2>4. \A p \in Requests \ {q} : Kept(p, request'[p])
    BY <2>0, <1>3 DEF Kept, Typed
  <2>5. Typed'
    <3>1. request' \in [Requests -> RequestRow]
      BY <2>0, <1>3, <2>3 DEF Typed
    <3>2. market' \in [MarketIds -> MarketRow]
      BY <2>0, <1>3, RowsAreRows DEF Typed, MarketRow
    <3>. QED
      BY <2>0, <1>3, <3>1, <3>2 DEF Typed, Outcomes0
  <2>6. ASSUME NEW k \in MarketIds
        PROVE  /\ (OnItsPath(k) /\ RoomToFill(k) /\ ResolvedIsShut(k) /\ PaidIsGone(k) /\ Known(k))'
               /\ k \in listed' => market'[k].status # "none"
    BY <2>0, <1>3
    DEF IInv, Typed, ByMarket, OnItsPath, RoomToFill, ResolvedIsShut, PaidIsGone, Known, Flat,
        Outcomes
  <2>7. ByRequest'
    <3>1. SeedingHasPath(q)' /\ StateStands(q)' /\ Settling(q)'
      BY <2>3 DEF SeedingHasPath, StateStands, Settling
    <3>2. ASSUME NEW p \in Requests \ {q}
          PROVE  SeedingHasPath(p)' /\ StateStands(p)' /\ Settling(p)'
      <4>1. \A k \in MarketIds : outcome[k] # "none" => outcome'[k] # "none"
        BY <2>0, <1>3 DEF Typed, Outcomes
      <4>. QED
        BY <1>3, <2>4, <4>1, RequestsKeep DEF Flat
    <3>. QED
      BY <3>1, <3>2 DEF ByRequest
  <2>8. ASSUME NEW k \in MarketIds
        PROVE  k \notin torn' /\ Seeding(k)' = {} => Agree(k)'
    <3>1. CASE k = m
      BY <2>0, <1>3, <3>1 DEF Agree, Typed, NoSim
    <3>2. CASE k # m
      <4>1. q \notin Seeding(k)
        BY <1>1 DEF Seeding
      <4>. QED
        BY <2>0, <1>3, <2>4, <3>2, <4>1, MarketKeeps, SeedingKeeps DEF Typed
    <3>. QED
      BY <3>1, <3>2
  <2>9. RowsAgree'
    BY <2>6, <2>8 DEF RowsAgree, Agree, Known, ByMarket
  <2>. QED
    BY <2>5, <2>6, <2>7, <2>9 DEF IInv, ByMarket
<1>. QED
  BY <1>1, <1>2, <1>3 DEF SetMarketOutcome, history

LEMMA AddRoundMarketKeeps ==
  ASSUME IInv, NEW q \in Requests, AddRoundMarket(q)
  PROVE  IInv'
<1>1. PICK m \in MarketIds :
        /\ Starts(q) /\ market[m].status # "none" /\ listed' = listed \union {m}
        /\ request' = [request EXCEPT ![q] = Ended("done")]
        /\ UNCHANGED <<market, sim, outcome, active, held, resting, paid, buying, worker, reopened,
                       overtaken, torn>>
  BY DEF AddRoundMarket, history
<1>2. /\ request' \in [Requests -> RequestRow]
      /\ request'[q].pc = "done" /\ request'[q].kind = "none"
      /\ \A p \in Requests \ {q} : Kept(p, request'[p])
  BY <1>1, RowsAreRows DEF IInv, Typed, Kept
<1>. QED
  BY <1>1, <1>2, RequestStepKeeps, TablesKeep DEF Starts, Seeding, Settling

LEMMA CheckSettlementKeeps ==
  ASSUME IInv, NEW q \in Requests, CheckSettlement(q)
  PROVE  IInv'
<1>1. PICK kind \in {"settle", "complete"} :
        /\ Starts(q)
        /\ request' = [request EXCEPT ![q] =
                         IF Unresolved # {} THEN Ended("refused")
                         ELSE [@ EXCEPT !.kind = kind, !.pc = "settle", !.checked = listed]]
        /\ UNCHANGED <<tables, buying, worker, history>>
  BY DEF CheckSettlement
<1>2. /\ request' \in [Requests -> RequestRow] /\ request'[q].pc \notin {"state", "price"}
      /\ \A p \in Requests \ {q} : Kept(p, request'[p])
      /\ Settling(q)'
  <2>1. CASE Unresolved # {}
    BY <1>1, <2>1, RowsAreRows DEF IInv, Typed, Kept, Settling
  <2>2. CASE Unresolved = {}
    <3>1. /\ request'[q] = [request[q] EXCEPT !.kind = kind, !.pc = "settle", !.checked = listed]
          /\ request[q] \in RequestRow /\ listed \in SUBSET MarketIds
      BY <1>1, <2>2 DEF IInv, Typed
    <3>2. /\ request'[q] \in RequestRow /\ request'[q].pc = "settle"
          /\ request'[q].checked = listed
      BY <3>1 DEF RequestRow
    <3>3. Settling(q)'
      BY <1>1, <2>2, <3>2 DEF Settling, Unresolved, tables
    <3>. QED
      BY <1>1, <3>2, <3>3 DEF IInv, Typed, Kept
  <2>. QED
    BY <2>1, <2>2
<1>. QED
  BY <1>1, <1>2, RequestStepKeeps, TablesKeep DEF Starts, Seeding, tables, history

LEMMA SettleRoundKeeps ==
  ASSUME IInv, NEW q \in Requests, SettleRound(q)
  PROVE  IInv'
<1>0. PICK due \in SUBSET MarketIds :
        due = {m \in listed \ Unresolved : held[m] > 0 /\ paid[m] = "none"}
  <2>1. {m \in listed \ Unresolved : held[m] > 0 /\ paid[m] = "none"} \subseteq MarketIds
    BY DEF IInv, Typed
  <2>. QED
    BY <2>1
<1>1.   /\ due = {m \in listed \ Unresolved : held[m] > 0 /\ paid[m] = "none"}
        /\ request[q].pc = "settle"
        /\ paid' = [m \in MarketIds |-> IF m \in due THEN outcome[m] ELSE paid[m]]
        /\ held' = [m \in MarketIds |-> IF m \in due THEN 0 ELSE held[m]]
        /\ request' = [request EXCEPT ![q].pc = IF request[q].kind = "complete"
                                                THEN "complete" ELSE "done"]
        /\ overtaken' = overtaken \union {m \in listed \ Unresolved : buying[m] = "fills"}
        /\ UNCHANGED <<market, sim, outcome, listed, active, resting, buying, worker, reopened,
                       torn>>
  BY <1>0 DEF SettleRound
<1>2. Typed /\ request[q] \in RequestRow
  BY DEF IInv, Typed
<1>3. /\ request'[q] \in RequestRow /\ request'[q].pc \in {"complete", "done"}
      /\ request'[q].kind = request[q].kind /\ request'[q].checked = request[q].checked
  <2>1. request'[q] = [request[q] EXCEPT !.pc = IF request[q].kind = "complete"
                                                THEN "complete" ELSE "done"]
    BY <1>1, <1>2 DEF Typed
  <2>. QED
    BY <1>2, <2>1 DEF RequestRow
<1>4. \A p \in Requests \ {q} : Kept(p, request'[p])
  BY <1>1, <1>2 DEF Kept, Typed
<1>5. Typed'
  <2>1. request' \in [Requests -> RequestRow]
    BY <1>1, <1>2, <1>3 DEF Typed
  <2>2. paid' \in [MarketIds -> Outcomes0] /\ held' \in [MarketIds -> 0..MaxHeld]
    BY <1>1, <1>2, MarketsAssumption DEF Typed
  <2>. QED
    BY <1>1, <1>2, <2>1, <2>2 DEF Typed
<1>6. ASSUME NEW k \in MarketIds
      PROVE  /\ (OnItsPath(k) /\ RoomToFill(k) /\ ResolvedIsShut(k) /\ PaidIsGone(k) /\ Known(k))'
             /\ k \in listed' => market'[k].status # "none"
  <2>1. /\ OnItsPath(k)' /\ ResolvedIsShut(k)' /\ Known(k)'
        /\ k \in listed' => market'[k].status # "none"
    BY <1>1 DEF IInv, ByMarket, OnItsPath, ResolvedIsShut, Known
  <2>2. RoomToFill(k)'
    <3>1. RoomToFill(k) /\ held[k] \in 0..MaxHeld /\ held'[k] \in {0, held[k]}
      BY <1>1, <1>2 DEF IInv, ByMarket, Typed
    <3>. QED
      BY <1>1, <3>1, MarketsAssumption DEF RoomToFill
  <2>3. PaidIsGone(k)'
    BY <1>1, <1>2 DEF IInv, ByMarket, PaidIsGone, Typed, Unresolved, Flat
  <2>. QED
    BY <2>1, <2>2, <2>3
<1>7. ByRequest'
  <2>1. SeedingHasPath(q)' /\ StateStands(q)'
    BY <1>3 DEF SeedingHasPath, StateStands
  <2>2. Settling(q)'
    <3>1. ASSUME request[q].kind \in {"settle", "complete"},
                 NEW m \in MarketIds \ (reopened \union overtaken'), m \in request[q].checked
          PROVE  Flat(m)'
      <4>1. m \in listed \ Unresolved
        BY <3>1 DEF IInv, ByRequest, Settling, Unresolved
      <4>2. held[m] \in Nat /\ (held[m] > 0 => paid[m] = "none")
        BY <1>1, <1>2, <3>1 DEF IInv, ByMarket, PaidIsGone, Typed, Flat
      <4>3. held'[m] = 0
        BY <1>1, <4>1, <4>2
      <4>4. buying'[m] # "fills"
        BY <1>1, <3>1, <4>1
      <4>. QED
        BY <4>3, <4>4 DEF Flat
    <3>2. Settling(q)
      BY DEF IInv, ByRequest
    <3>. QED
      BY <1>1, <1>2, <1>3, <3>1, <3>2 DEF Settling, RequestRow
  <2>3. ASSUME NEW p \in Requests \ {q}
        PROVE  SeedingHasPath(p)' /\ StateStands(p)' /\ Settling(p)'
    BY <1>1, <1>4, RequestsKeep DEF Flat, Typed
  <2>. QED
    BY <2>1, <2>2, <2>3 DEF ByRequest
<1>8. ASSUME NEW k \in MarketIds
      PROVE  k \notin torn' /\ Seeding(k)' = {} => Agree(k)'
  <2>1. q \notin Seeding(k)
    BY <1>1 DEF Seeding
  <2>. QED
    BY <1>1, <1>4, <2>1, MarketKeeps, SeedingKeeps
<1>9. RowsAgree'
  BY <1>6, <1>8 DEF RowsAgree, Agree, Known, ByMarket
<1>. QED
  BY <1>5, <1>6, <1>7, <1>9 DEF IInv, ByMarket

LEMMA CompleteRoundKeeps ==
  ASSUME IInv, NEW q \in Requests, CompleteRound(q)
  PROVE  IInv'
<1>1. /\ request[q].pc = "complete" /\ request' = [request EXCEPT ![q].pc = "done"]
      /\ active' = FALSE
      /\ UNCHANGED <<market, sim, outcome, listed, held, resting, paid, buying, worker, reopened,
                     overtaken, torn>>
  BY DEF CompleteRound, history
<1>2. /\ request'[q] = [request[q] EXCEPT !.pc = "done"] /\ request[q] \in RequestRow
      /\ Settling(q)
  BY <1>1 DEF IInv, Typed, ByRequest
<1>3. /\ request'[q] \in RequestRow /\ request'[q].pc = "done"
      /\ request'[q].kind = request[q].kind /\ request'[q].checked = request[q].checked
  BY <1>2 DEF RequestRow
<1>4. /\ request' \in [Requests -> RequestRow]
      /\ \A p \in Requests \ {q} : Kept(p, request'[p])
  BY <1>1, <1>3 DEF IInv, Typed, Kept
<1>5. Settling(q)'
  BY <1>1, <1>2, <1>3 DEF Settling, Flat
<1>. QED
  BY <1>1, <1>3, <1>4, <1>5, RequestStepKeeps, TablesKeep DEF Seeding

LEMMA AbortRequestKeeps ==
  ASSUME IInv, NEW q \in Requests, AbortRequest(q)
  PROVE  IInv'
<1>1. /\ request' = [request EXCEPT ![q] = Ended("aborted")]
      /\ torn' = torn \union {m \in MarketIds : q \in Seeding(m) /\ sim[m] # NoSim}
      /\ UNCHANGED <<tables, buying, worker, reopened, overtaken>>
  BY DEF AbortRequest
<1>2. /\ request' \in [Requests -> RequestRow] /\ request[q].market \in MarketIds
      /\ request'[q].pc = "aborted" /\ request'[q].kind = "none"
      /\ \A p \in Requests \ {q} : Kept(p, request'[p])
  BY <1>1, RowsAreRows DEF IInv, Typed, Kept, RequestRow
<1>. QED
  BY <1>1, <1>2, RequestStepKeeps, TablesKeep DEF Seeding, Settling, tables

\* A step of the buy on m that leaves the markets alone: what is underway or rests
\* has room, and a fill is on its way only from an open market.
LEMMA BuyStepKeeps ==
  ASSUME IInv, NEW m \in MarketIds,
         UNCHANGED <<market, sim, outcome, listed, active, paid, request, worker, reopened,
                     overtaken, torn>>,
         Typed', RoomToFill(m)',
         \A k \in MarketIds \ {m} :
           held'[k] = held[k] /\ buying'[k] = buying[k] /\ (k \in resting' <=> k \in resting),
         m \in reopened \/ m \in overtaken \/ outcome[m] = "none" \/ Flat(m)' \/ ~Flat(m)
  PROVE  IInv'
<1>1. ASSUME NEW k \in MarketIds
      PROVE  /\ (OnItsPath(k) /\ RoomToFill(k) /\ ResolvedIsShut(k) /\ PaidIsGone(k) /\ Known(k))'
             /\ k \in listed' => market'[k].status # "none"
  <2>1. /\ OnItsPath(k) /\ RoomToFill(k) /\ ResolvedIsShut(k) /\ PaidIsGone(k) /\ Known(k)
        /\ k \in listed => market[k].status # "none"
    BY DEF IInv, ByMarket
  <2>2. /\ OnItsPath(k)' /\ ResolvedIsShut(k)' /\ Known(k)'
        /\ k \in listed' => market'[k].status # "none"
    BY <2>1 DEF OnItsPath, ResolvedIsShut, Known
  <2>3. RoomToFill(k)'
    BY <2>1 DEF RoomToFill
  <2>4. PaidIsGone(k)'
    BY <2>1 DEF PaidIsGone, Flat
  <2>. QED
    BY <2>2, <2>3, <2>4
<1>2. ASSUME NEW p \in Requests
      PROVE  SeedingHasPath(p)' /\ StateStands(p)' /\ Settling(p)'
  <2>1. Kept(p, request'[p])
    BY DEF Kept, IInv, Typed
  <2>2. \A k \in MarketIds \ (reopened' \union overtaken') :
          outcome[k] # "none" /\ Flat(k) => Flat(k)'
    BY DEF Flat
  <2>. QED
    BY <2>1, <2>2, RequestsKeep
<1>3. RowsAgree'
  BY DEF IInv, RowsAgree, Seeding
<1>. QED
  BY <1>1, <1>2, <1>3 DEF IInv, ByMarket, ByRequest

LEMMA PrepareBuyKeeps ==
  ASSUME IInv, NEW m \in MarketIds, PrepareBuy(m)
  PROVE  IInv'
<1>1. /\ m \in listed /\ m \notin resting /\ held[m] < MaxHeld
      /\ buying' = [buying EXCEPT ![m] = "checked"]
      /\ UNCHANGED <<market, sim, outcome, listed, active, held, resting, paid, request, worker,
                     reopened, overtaken, torn>>
  BY DEF PrepareBuy, tables, history
<1>2. Typed /\ Typed'
  BY <1>1 DEF IInv, Typed
<1>3. RoomToFill(m)' /\ (Flat(m)' \/ ~Flat(m))
  BY <1>1, <1>2 DEF RoomToFill, Flat, Typed
<1>. QED
  BY <1>1, <1>2, <1>3, BuyStepKeeps DEF Typed

\* The venue fills on an open market, which is not settled unless it was reopened.
LEMMA PlaceBuyKeeps ==
  ASSUME IInv, NEW m \in MarketIds, PlaceBuy(m)
  PROVE  IInv'
<1>1. /\ buying[m] = "checked" /\ market[m].status = "open"
      /\ buying' = [buying EXCEPT ![m] = IF market[m].price <= Limit THEN "fills" ELSE "rests"]
      /\ UNCHANGED <<market, sim, outcome, listed, active, held, resting, paid, request, worker,
                     reopened, overtaken, torn>>
  BY DEF PlaceBuy, tables, history
<1>2. Typed /\ Typed'
  BY <1>1 DEF IInv, Typed
<1>3. RoomToFill(m)' /\ (m \in reopened \/ outcome[m] = "none")
  BY <1>1, <1>2 DEF RoomToFill, IInv, ByMarket, ResolvedIsShut, Typed
<1>. QED
  BY <1>1, <1>2, <1>3, BuyStepKeeps DEF Typed

\* A fill that is recorded was on its way.
LEMMA RecordBuyKeeps ==
  ASSUME IInv, NEW m \in MarketIds, RecordBuy(m)
  PROVE  IInv'
<1>. USE MarketsAssumption
<1>1. /\ \/ /\ buying[m] = "fills"
            /\ held' = [held EXCEPT ![m] = @ + 1]
            /\ UNCHANGED resting
         \/ /\ buying[m] = "rests"
            /\ resting' = resting \union {m}
            /\ UNCHANGED held
      /\ buying' = [buying EXCEPT ![m] = "none"]
      /\ UNCHANGED <<market, sim, outcome, listed, active, paid, request, worker,
                     reopened, overtaken, torn>>
  BY DEF RecordBuy, history
<1>2. Typed /\ held[m] \in 0..MaxHeld /\ held[m] < MaxHeld /\ m \notin resting /\ m \in listed
  BY <1>1 DEF IInv, Typed, ByMarket, RoomToFill
<1>3. Typed'
  BY <1>1, <1>2 DEF Typed
<1>4. RoomToFill(m)'
  BY <1>1, <1>2 DEF RoomToFill, Typed
<1>5. Flat(m)' \/ ~Flat(m)
  BY <1>1, <1>2 DEF Flat, Typed
<1>6. \A k \in MarketIds \ {m} :
        held'[k] = held[k] /\ buying'[k] = buying[k] /\ (k \in resting' <=> k \in resting)
  BY <1>1, <1>2 DEF Typed
<1>. QED
  BY <1>1, <1>3, <1>4, <1>5, <1>6, BuyStepKeeps

LEMMA AbandonBuyKeeps ==
  ASSUME IInv, NEW m \in MarketIds, AbandonBuy(m)
  PROVE  IInv'
<1>1. /\ buying[m] # "none" /\ buying' = [buying EXCEPT ![m] = "none"]
      /\ UNCHANGED <<market, sim, outcome, listed, active, held, resting, paid, request, worker,
                     reopened, overtaken, torn>>
  BY DEF AbandonBuy, tables, history
<1>2. Typed /\ Typed'
  BY <1>1 DEF IInv, Typed
<1>3. RoomToFill(m)' /\ (Flat(m)' \/ ~Flat(m))
  BY <1>1, <1>2 DEF RoomToFill, Flat, Typed, IInv, ByMarket
<1>. QED
  BY <1>1, <1>2, <1>3, BuyStepKeeps DEF Typed

\* The worker takes the markets on their way one step further and marks those who
\* seed them.
LEMMA AdvanceRoundSimulatedMarketsKeeps ==
  ASSUME IInv, AdvanceRoundSimulatedMarkets
  PROVE  IInv'
<1>0. Moving \subseteq MarketIds /\ Typed
  BY DEF IInv, Typed, Moving
<1>1. /\ sim' = [m \in MarketIds |-> IF m \in Moving THEN [sim[m] EXCEPT !.tick = @ + 1] ELSE sim[m]]
      /\ market' = [m \in MarketIds |->
                      IF m \in Moving THEN [market[m] EXCEPT !.price = sim'[m].path[sim'[m].tick]]
                      ELSE market[m]]
      /\ worker' = "fill" /\ request' = SpoiledAll(Moving)
      /\ torn' = torn \ Moving
      /\ UNCHANGED <<outcome, listed, active, held, resting, paid, buying, reopened, overtaken>>
  BY DEF AdvanceRoundSimulatedMarkets
<1>2. ASSUME NEW m \in Moving
      PROVE  /\ m \in MarketIds
             /\ sim'[m] \in SimRow /\ sim'[m].path = sim[m].path
             /\ sim'[m].tick = sim[m].tick + 1 /\ ~sim'[m].resolved
             /\ sim[m].path # <<>> /\ sim'[m].tick \in 1..Len(sim[m].path)
             /\ market'[m] = [status |-> "open", price |-> sim'[m].path[sim'[m].tick]]
             /\ market'[m] \in MarketRow /\ market'[m].status = market[m].status
             /\ OnItsPath(m)'
  <2>1. /\ m \in MarketIds /\ sim[m] \in SimRow /\ market[m] \in MarketRow /\ OnItsPath(m)
        /\ sim[m] # NoSim /\ ~sim[m].resolved /\ sim[m].tick < Len(sim[m].path)
        /\ market[m].status = "open"
    BY <1>0 DEF Moving, IInv, Typed, ByMarket
  <2>2. sim'[m] = [sim[m] EXCEPT !.tick = sim[m].tick + 1]
    BY <1>0, <1>1
  <2>3. /\ sim'[m] \in SimRow /\ sim'[m].path = sim[m].path
        /\ sim'[m].tick = sim[m].tick + 1 /\ ~sim'[m].resolved
    BY <2>1, <2>2 DEF SimRow
  <2>4. /\ sim[m].path # <<>> /\ sim[m].path \in Paths
        /\ sim'[m].tick \in 1..Len(sim[m].path)
    BY <2>1, <2>3, StepsArePrices DEF OnItsPath, SimRow
  <2>5. market'[m] = [market[m] EXCEPT !.price = sim'[m].path[sim'[m].tick]]
    BY <1>1, <2>1
  <2>6. market'[m] = [status |-> "open", price |-> sim'[m].path[sim'[m].tick]]
    BY <2>1, <2>5 DEF MarketRow
  <2>7. market'[m] \in MarketRow /\ market'[m].status = market[m].status
    <3>1. sim'[m].path[sim'[m].tick] \in Prices
      BY <2>3, <2>4, StepsArePrices
    <3>. QED
      BY <2>1, <2>6, <3>1 DEF MarketRow
  <2>8. OnItsPath(m)'
    <3>1. Len(sim[m].path) \in Nat
      BY <2>4, StepsArePrices
    <3>. QED
      BY <2>3, <2>4, <3>1 DEF OnItsPath
  <2>. QED
    BY <2>1, <2>3, <2>4, <2>6, <2>7, <2>8
<1>3. ASSUME NEW m \in MarketIds \ Moving
      PROVE  sim'[m] = sim[m] /\ market'[m] = market[m]
  BY <1>1, <1>3
<1>4. /\ request' \in [Requests -> RequestRow]
      /\ \A p \in Requests : Kept(p, request'[p])
      /\ \A m \in Moving : \A p \in Seeding(m) : ~request'[p].clean
  BY <1>0, <1>1, SpoiledAllKeeps
<1>5. Typed'
  <2>1. sim' \in [MarketIds -> SimRow]
    <3>1. ASSUME NEW m \in MarketIds PROVE sim'[m] \in SimRow
      BY <1>0, <1>2, <1>3 DEF Typed
    <3>. QED
      BY <1>1, <3>1
  <2>2. market' \in [MarketIds -> MarketRow]
    <3>1. ASSUME NEW m \in MarketIds PROVE market'[m] \in MarketRow
      BY <1>0, <1>2, <1>3 DEF Typed
    <3>. QED
      BY <1>1, <3>1
  <2>. QED
    BY <1>0, <1>1, <1>4, <2>1, <2>2 DEF Typed
<1>6. ASSUME NEW k \in MarketIds
      PROVE  /\ (OnItsPath(k) /\ RoomToFill(k) /\ ResolvedIsShut(k) /\ PaidIsGone(k) /\ Known(k))'
             /\ k \in listed' => market'[k].status # "none"
  <2>1. /\ OnItsPath(k) /\ RoomToFill(k) /\ ResolvedIsShut(k) /\ PaidIsGone(k) /\ Known(k)
        /\ k \in listed => market[k].status # "none"
    BY DEF IInv, ByMarket
  <2>2. market'[k].status = market[k].status
    BY <1>2, <1>3
  <2>4. Known(k)'
    <3>1. CASE k \in Moving
      <4>1. market'[k] = [status |-> "open", price |-> sim'[k].path[sim'[k].tick]]
        BY <1>2, <3>1
      <4>. QED
        BY <4>1 DEF Known
    <3>2. CASE k \notin Moving
      BY <1>1, <1>3, <2>1, <3>2 DEF Known
    <3>. QED
      BY <3>1, <3>2
  <2>3. OnItsPath(k)'
    <3>1. CASE k \in Moving
      BY <1>2, <3>1
    <3>2. CASE k \notin Moving
      BY <1>3, <2>1, <3>2 DEF OnItsPath
    <3>. QED
      BY <3>1, <3>2
  <2>. QED
    BY <1>1, <2>1, <2>2, <2>3, <2>4 DEF RoomToFill, ResolvedIsShut, PaidIsGone, Flat
<1>7. ASSUME NEW p \in Requests
      PROVE  SeedingHasPath(p)' /\ StateStands(p)' /\ Settling(p)'
  <2>1. request[p].pc = "price" =>
          sim'[request[p].market] = sim[request[p].market] \/ ~request'[p].clean
    BY <1>0, <1>3, <1>4 DEF Seeding, Typed, RequestRow
  <2>. QED
    BY <1>1, <1>4, <2>1, RequestsKeep DEF Flat
<1>8. ASSUME NEW k \in MarketIds
      PROVE  k \notin torn' /\ Seeding(k)' = {} => Agree(k)'
  <2>1. CASE k \in Moving
    <3>1. /\ sim'[k].path = sim[k].path /\ sim[k].path # <<>> /\ ~sim'[k].resolved
          /\ market'[k] = [status |-> "open", price |-> sim'[k].path[sim'[k].tick]]
      BY <1>2, <2>1
    <3>2. sim'[k] # NoSim
      <4>1. NoSim.path = <<>>
        BY DEF NoSim
      <4>. QED
        BY <3>1, <4>1
    <3>. QED
      BY <3>1, <3>2, Zenon DEF Agree
  <2>2. CASE k \notin Moving
    <3>1. Seeding(k)' = {} => Seeding(k) = {}
      BY <1>4 DEF Seeding, Kept
    <3>. QED
      BY <1>1, <1>3, <2>2, <3>1, MarketKeeps
  <2>. QED
    BY <2>1, <2>2
<1>9. RowsAgree'
  BY <1>6, <1>8 DEF RowsAgree, Agree, Known, ByMarket
<1>. QED
  BY <1>5, <1>6, <1>7, <1>9 DEF IInv, ByMarket, ByRequest

\* The worker fills what rests on open markets only.
LEMMA FillOpenOrdersKeeps ==
  ASSUME IInv, FillOpenOrders
  PROVE  IInv'
<1>. USE MarketsAssumption
<1>0. Fillable \subseteq resting /\ resting \subseteq MarketIds /\ Typed
  BY DEF IInv, Typed, Fillable
<1>1. /\ \/ UNCHANGED <<held, resting>>
         \/ /\ held' = [m \in MarketIds |-> IF m \in Fillable THEN held[m] + 1 ELSE held[m]]
            /\ resting' = resting \ Fillable
      /\ worker' = "advance"
      /\ UNCHANGED <<market, sim, outcome, listed, active, paid, buying, request, reopened,
                     overtaken, torn>>
  BY DEF FillOpenOrders, history
<1>2. ASSUME NEW m \in MarketIds
      PROVE  /\ held[m] \in 0..MaxHeld /\ held'[m] \in 0..MaxHeld
             /\ RoomToFill(m)'
             /\ m \in reopened \/ outcome[m] = "none" \/ held'[m] = held[m]
  <2>1. held[m] \in 0..MaxHeld /\ RoomToFill(m) /\ ResolvedIsShut(m)
    BY <1>0 DEF IInv, Typed, ByMarket
  <2>2. CASE UNCHANGED <<held, resting>>
    BY <1>1, <2>1, <2>2 DEF RoomToFill
  <2>3. CASE /\ held' = [k \in MarketIds |-> IF k \in Fillable THEN held[k] + 1 ELSE held[k]]
             /\ resting' = resting \ Fillable
    <3>1. CASE m \in Fillable
      BY <1>0, <1>1, <2>1, <2>3, <3>1 DEF RoomToFill, ResolvedIsShut, Fillable
    <3>2. CASE m \notin Fillable
      BY <1>1, <2>1, <2>3, <3>2 DEF RoomToFill
    <3>. QED
      BY <3>1, <3>2
  <2>. QED
    BY <1>1, <2>2, <2>3
<1>3. Typed'
  <2>1. held' \in [MarketIds -> 0..MaxHeld]
    BY <1>0, <1>1, <1>2 DEF Typed
  <2>. QED
    BY <1>0, <1>1, <2>1 DEF Typed
<1>4. ASSUME NEW k \in MarketIds
      PROVE  /\ (OnItsPath(k) /\ RoomToFill(k) /\ ResolvedIsShut(k) /\ PaidIsGone(k) /\ Known(k))'
             /\ k \in listed' => market'[k].status # "none"
  <2>1. /\ OnItsPath(k) /\ ResolvedIsShut(k) /\ PaidIsGone(k) /\ Known(k)
        /\ k \in listed => market[k].status # "none"
    BY DEF IInv, ByMarket
  <2>. QED
    BY <1>1, <1>2, <2>1 DEF OnItsPath, ResolvedIsShut, PaidIsGone, Known, Flat
<1>5. ASSUME NEW p \in Requests
      PROVE  SeedingHasPath(p)' /\ StateStands(p)' /\ Settling(p)'
  <2>1. Kept(p, request'[p])
    BY <1>0, <1>1 DEF Kept, Typed
  <2>. QED
    BY <1>1, <1>2, <2>1, RequestsKeep DEF Flat
<1>6. RowsAgree'
  BY <1>1 DEF IInv, RowsAgree, Seeding
<1>. QED
  BY <1>3, <1>4, <1>5, <1>6 DEF IInv, ByMarket, ByRequest

-----------------------------------------------------------------------------
(***************************************************************************)
(* The theorems                                                            *)
(***************************************************************************)
LEMMA NextIInv ==
  IInv /\ [Next]_vars => IInv'
<1>. SUFFICES ASSUME IInv, [Next]_vars PROVE IInv'
  OBVIOUS
<1>1. CASE UNCHANGED vars
  BY <1>1
  DEF vars, tables, history, IInv, Typed, ByMarket, OnItsPath, RoomToFill, ResolvedIsShut,
      PaidIsGone, Known, Flat, ByRequest, SeedingHasPath, StateStands, Settling, RowsAgree, Seeding
<1>2. ASSUME NEW q \in Requests, RequestStep(q)
      PROVE  IInv'
  BY <1>2, UpsertRowKeeps, UpsertSimulatedMarketStateKeeps, SetMarketPriceKeeps,
     ResolveSimulatedMarketKeeps, SetMarketOutcomeKeeps, AddRoundMarketKeeps,
     CheckSettlementKeeps, SettleRoundKeeps, CompleteRoundKeeps, AbortRequestKeeps
  DEF RequestStep
<1>3. ASSUME NEW m \in MarketIds, BuyStep(m)
      PROVE  IInv'
  BY <1>3, PrepareBuyKeeps, PlaceBuyKeeps, RecordBuyKeeps, AbandonBuyKeeps DEF BuyStep
<1>4. CASE WorkerStep
  BY <1>4, AdvanceRoundSimulatedMarketsKeeps, FillOpenOrdersKeeps DEF WorkerStep
<1>. QED
  BY <1>1, <1>2, <1>3, <1>4 DEF Next

LEMMA IInvSettledForGood ==
  IInv => SettledForGood
BY DEF IInv, Typed, ByRequest, Settling, SettledForGood, RequestRow, Flat

\* Whatever interleaves, the invariant holds.
THEOREM Invariance == Spec => []IInv
<1>. QED
  BY InitIInv, NextIInv, PTL DEF Spec

\* Every row stays a row of its table, a tick never leaves its path, and an order
\* that rests is on a listed market with room to fill it.
THEOREM TypeCorrect == Spec => []TypeOK
<1>. QED
  BY Invariance, IInvTypeOK, PTL

\* A market's row says resolved only with the outcome and its price, and the row, the
\* simulated state and the outcome tell one story but for the cases RowsAgree names:
\* a seeding whose path was walked, resolved or written over before its first price
\* was set, or that stopped half way, and a market with a path written or resolved
\* without it.
THEOREM TablesAgree == Spec => []RowsAgree
<1>1. IInv => RowsAgree
  BY DEF IInv
<1>. QED
  BY <1>1, Invariance, PTL

\* Nothing is held on the markets a settlement looked at once it is through, those
\* aside that were seeded once more and those for which the venue had filled a buy
\* that was recorded after the settlement.
THEOREM SettlementIsFinal == Spec => []SettledForGood
<1>. QED
  BY Invariance, IInvSettledForGood, PTL
=============================================================================
