------------------------------ MODULE Markets ------------------------------
(***************************************************************************)
(* The markets of one round and the three tables that describe each: its   *)
(* row of markets, the simulated state with the price path the worker      *)
(* walks, and its outcome.  Seeding a market writes the first two by       *)
(* several statements of their own, so that a resolution, the worker or    *)
(* another seeding may come in between; resolving writes all three in one  *)
(* transaction, or two of them when it found no simulated state a moment   *)
(* before.  Settling the round pays by the outcomes.                       *)
(*                                                                         *)
(* A team buys "yes" for a limit: the market is checked, then the venue    *)
(* decides by the price it reads, then the fill or the resting order is    *)
(* recorded, whatever has become of the market meanwhile.                  *)
(*                                                                         *)
(* Left out: the history of price ticks, cancelled and sold contracts      *)
(* (OrderLifecycle), and a market the operator writes down as resolved     *)
(* with no outcome.                                                        *)
(***************************************************************************)
EXTENDS Naturals, Sequences

CONSTANTS
  MarketIds,
  Requests,    \* the operator's requests
  Inputs,      \* what the operator may seed a market with
  Seeded,      \* the markets that are seeded with a path at the start
  FirstPath,   \* that path
  Certain,     \* the price of what has come true, 10000 bps
  Limit,       \* the limit of the buy orders
  MaxHeld      \* bound: the contracts held on a market; one buy on each is
               \* underway or rests

Outcomes == {"yes", "no"}

\* A market without a path is priced by hand; zero is accepted.
Input == [status: {"open", "closed"}, price: 0..Certain, path: Seq(1..(Certain - 1))]

ASSUME MarketsAssumption ==
  /\ MarketIds # {} /\ Inputs # {}
  /\ Certain \in Nat /\ Limit \in 1..(Certain - 1) /\ MaxHeld \in Nat
  /\ Inputs \subseteq Input /\ Seeded \subseteq MarketIds
  /\ FirstPath \in Seq(1..(Certain - 1)) /\ FirstPath # <<>>

VARIABLES
  market,   \* markets: status and price of "yes"
  sim,      \* simulated_market_states
  outcome,  \* market_outcomes
  listed,   \* round_markets
  active,   \* the round is
  held,     \* contracts on "yes", by market
  resting,  \* the markets with a buy that rests
  buying,   \* how far the buy underway on a market is
  paid,     \* settlements: the outcome that was paid, by market
  request,  \* the operator's requests
  worker,   \* the worker's next transaction
  reopened, \* history: the markets seeded once more after they were resolved
  overtaken, \* history: the markets that were settled while a buy the venue had
            \* filled was not recorded yet
  torn      \* history: the markets whose path was written over or walked before its
            \* first price was set, or that were written without the path they have

tables  == <<market, sim, outcome, listed, active, held, resting, paid>>
history == <<reopened, overtaken, torn>>
vars    == <<tables, buying, request, worker, history>>

NoRequest == [kind |-> "none", pc |-> "idle", market |-> CHOOSE m \in MarketIds : TRUE,
              input |-> CHOOSE i \in Inputs : TRUE, outcome |-> "yes", clean |-> FALSE,
              checked |-> {}]

NoSim == [path |-> <<>>, tick |-> 0, resolved |-> FALSE, final |-> "unknown"]

\* clean (history): the simulated state is as this seeding wrote it; checked
\* (history): the markets that were listed when a settlement looked at them.
RequestRow ==
  [kind: {"none", "seed", "resolve", "settle", "complete"},
   pc: {"idle", "state", "price", "plain", "settle", "complete",
        "done", "refused", "aborted"},
   market: MarketIds, input: Inputs, outcome: Outcomes, clean: BOOLEAN,
   checked: SUBSET MarketIds]

TypeOK ==
  /\ market \in [MarketIds -> [status: {"none", "open", "closed", "resolved"},
                               price: 0..Certain]]
  /\ \A m \in MarketIds :
       /\ DOMAIN sim[m] = DOMAIN NoSim
       /\ sim[m].tick \in 0..(Len(sim[m].path) + 1)
       /\ sim[m] # NoSim => sim[m].tick > 0 /\ sim[m].path # <<>>
       /\ sim[m].resolved \in BOOLEAN
       /\ sim[m].final \in Outcomes \union {"unknown"}
  /\ outcome \in [MarketIds -> Outcomes \union {"none"}]
  /\ listed \subseteq {m \in MarketIds : market[m].status # "none"}
  /\ active \in BOOLEAN
  /\ held \in [MarketIds -> 0..MaxHeld]
  /\ resting \subseteq listed
  /\ buying \in [MarketIds -> {"none", "checked", "fills", "rests"}]
  /\ paid \in [MarketIds -> Outcomes \union {"none"}]
  /\ request \in [Requests -> RequestRow]
  /\ worker \in {"advance", "fill"}
  /\ reopened \subseteq MarketIds /\ overtaken \subseteq MarketIds
  /\ torn \subseteq MarketIds

-----------------------------------------------------------------------------
(***************************************************************************)
(* Seeding a market (UpsertMarket)                                         *)
(***************************************************************************)
Terminal(o) == IF o = "yes" THEN Certain ELSE 0

\* The requests that are in the middle of seeding m.
Seeding(m) == {q \in Requests : request[q].pc \in {"state", "price"} /\ request[q].market = m}

\* The requests, once q has written the simulated state of m.
Spoiled(q, m) ==
  [p \in Requests |-> IF p \in Seeding(m) \ {q} THEN [request[p] EXCEPT !.clean = FALSE]
                      ELSE request[p]]

Starts(q) == request[q].pc = "idle"

\* A request is through: only a settlement leaves a trace.
Ended(pc) == [NoRequest EXCEPT !.pc = pc]

Reopens(m) == IF outcome[m] = "none" THEN reopened ELSE reopened \union {m}

\* The row is created or written over, status and all, whatever the market has
\* been through.
UpsertRow(q) ==
  \E m \in MarketIds, i \in Inputs :
    /\ Starts(q)
    /\ market' = [market EXCEPT ![m] = [status |-> i.status, price |-> i.price]]
    /\ request' = [request EXCEPT ![q] =
                     IF i.path = <<>> THEN Ended("done")
                     ELSE [@ EXCEPT !.kind = "seed", !.market = m, !.input = i, !.pc = "state"]]
    /\ reopened' = Reopens(m)
    /\ torn' = IF i.path = <<>> /\ sim[m] # NoSim THEN torn \union {m} ELSE torn
    /\ UNCHANGED <<sim, outcome, listed, active, held, resting, paid, buying, worker, overtaken>>

\* Variant: resolved_at is left as it was.
UpsertPathOnly(q) ==
  LET m == request[q].market IN
  /\ request[q].pc = "state"
  /\ sim' = [sim EXCEPT ![m].path = request[q].input.path, ![m].tick = 1]
  /\ request' = [Spoiled(q, m) EXCEPT ![q].pc = "price", ![q].clean = TRUE]
  /\ UNCHANGED <<market, outcome, listed, active, held, resting, paid, buying, worker, history>>

\* The path starts over, and the market is not resolved any more.  Its outcome
\* stays.
UpsertSimulatedMarketState(q) ==
  LET m == request[q].market IN
  /\ request[q].pc = "state"
  /\ sim' = [sim EXCEPT ![m] = [path |-> request[q].input.path, tick |-> 1,
                                resolved |-> FALSE, final |-> "unknown"]]
  /\ request' = [Spoiled(q, m) EXCEPT ![q].pc = "price", ![q].clean = TRUE]
  /\ UNCHANGED <<market, outcome, listed, active, held, resting, paid, buying, worker, history>>

SetMarketPrice(q) ==
  LET m == request[q].market IN
  /\ request[q].pc = "price"
  /\ market' = [market EXCEPT ![m] = [status |-> "open", price |-> request[q].input.path[1]]]
  /\ request' = [request EXCEPT ![q] = Ended("done")]
  /\ reopened' = Reopens(m)
  /\ torn' = IF request[q].clean THEN torn \ {m} ELSE torn \union {m}
  /\ UNCHANGED <<sim, outcome, listed, active, held, resting, paid, buying, worker, overtaken>>

-----------------------------------------------------------------------------
(***************************************************************************)
(* Resolving a market                                                      *)
(***************************************************************************)
Resolvable(m) == sim[m] # NoSim /\ ~sim[m].resolved

ResolveSimulatedMarket(q) ==
  \E m \in MarketIds, o \in Outcomes :
    /\ Starts(q)
    /\ \/ /\ sim[m] = NoSim
          /\ request' = [request EXCEPT ![q].kind = "resolve", ![q].pc = "plain",
                                        ![q].market = m, ![q].outcome = o]
          /\ UNCHANGED <<tables, history>>
       \/ /\ sim[m] # NoSim /\ ~Resolvable(m)
          /\ request' = [request EXCEPT ![q] = Ended("refused")]
          /\ UNCHANGED <<tables, history>>
       \/ /\ Resolvable(m)
          /\ sim' = [sim EXCEPT ![m].resolved = TRUE, ![m].final = o, ![m].tick = @ + 1]
          /\ market' = [market EXCEPT ![m] = [status |-> "resolved", price |-> Terminal(o)]]
          /\ outcome' = [outcome EXCEPT ![m] = o]
          /\ request' = [Spoiled(q, m) EXCEPT ![q] = Ended("done")]
          /\ torn' = torn \ {m}
          /\ UNCHANGED <<listed, active, held, resting, paid, reopened, overtaken>>
    /\ UNCHANGED <<buying, worker>>

\* The market had no path when it was looked for; it is not looked for again.
SetMarketOutcome(q) ==
  LET m == request[q].market
      o == request[q].outcome
  IN  /\ request[q].pc = "plain"
      /\ \/ /\ market[m].status = "none"
            /\ request' = [request EXCEPT ![q] = Ended("refused")]
            /\ UNCHANGED <<tables, history>>
         \/ /\ market[m].status # "none"
            /\ outcome' = [outcome EXCEPT ![m] = o]
            /\ market' = [market EXCEPT ![m] = [status |-> "resolved", price |-> Terminal(o)]]
            /\ request' = [request EXCEPT ![q] = Ended("done")]
            /\ torn' = IF sim[m] # NoSim THEN torn \union {m} ELSE torn
            /\ UNCHANGED <<sim, listed, active, held, resting, paid, reopened, overtaken>>
      /\ UNCHANGED <<buying, worker>>

-----------------------------------------------------------------------------
(***************************************************************************)
(* The round                                                               *)
(***************************************************************************)
\* Variant: no foreign key to the market.
AddAnyMarket(q) ==
  \E m \in MarketIds :
    /\ Starts(q)
    /\ listed' = listed \union {m}
    /\ request' = [request EXCEPT ![q] = Ended("done")]
    /\ UNCHANGED <<market, sim, outcome, active, held, resting, paid, buying, worker, history>>

AddRoundMarket(q) ==
  \E m \in MarketIds :
    /\ Starts(q)
    /\ market[m].status # "none"
    /\ listed' = listed \union {m}
    /\ request' = [request EXCEPT ![q] = Ended("done")]
    /\ UNCHANGED <<market, sim, outcome, active, held, resting, paid, buying, worker, history>>

\* Variant: no preflight.
NoneUnresolved == {}

\* Without an outcome, whatever the market's status is.
Unresolved == {m \in listed : outcome[m] = "none"}

\* The operator confirms that the round may be active.
CheckSettlement(q) ==
  \E kind \in {"settle", "complete"} :
    /\ Starts(q)
    /\ request' = [request EXCEPT ![q] =
                     IF Unresolved # {} THEN Ended("refused")
                     ELSE [@ EXCEPT !.kind = kind, !.pc = "settle", !.checked = listed]]
    /\ UNCHANGED <<tables, buying, worker, history>>

\* What is held on a market with an outcome is paid, once.
SettleRound(q) ==
  LET due == {m \in listed \ Unresolved : held[m] > 0 /\ paid[m] = "none"} IN
  /\ request[q].pc = "settle"
  /\ paid' = [m \in MarketIds |-> IF m \in due THEN outcome[m] ELSE paid[m]]
  /\ held' = [m \in MarketIds |-> IF m \in due THEN 0 ELSE held[m]]
  /\ request' = [request EXCEPT ![q].pc = IF request[q].kind = "complete"
                                          THEN "complete" ELSE "done"]
  /\ overtaken' = overtaken \union {m \in listed \ Unresolved : buying[m] = "fills"}
  /\ UNCHANGED <<market, sim, outcome, listed, active, resting, buying, worker, reopened, torn>>

CompleteRound(q) ==
  /\ request[q].pc = "complete"
  /\ active' = FALSE
  /\ request' = [request EXCEPT ![q].pc = "done"]
  /\ UNCHANGED <<market, sim, outcome, listed, held, resting, paid, buying, worker, history>>

\* The operator goes away or a statement fails.
AbortRequest(q) ==
  /\ request[q].pc \notin {"idle", "done", "refused", "aborted"}
  /\ request' = [request EXCEPT ![q] = Ended("aborted")]
  /\ torn' = torn \union {m \in MarketIds : q \in Seeding(m) /\ sim[m] # NoSim}
  /\ UNCHANGED <<tables, buying, worker, reopened, overtaken>>

-----------------------------------------------------------------------------
(***************************************************************************)
(* A team's buy                                                            *)
(***************************************************************************)
\* The round and the market are looked at, once.
PrepareBuy(m) ==
  /\ active /\ m \in listed /\ market[m].status = "open"
  /\ buying[m] = "none" /\ m \notin resting /\ held[m] < MaxHeld
  /\ buying' = [buying EXCEPT ![m] = "checked"]
  /\ UNCHANGED <<tables, request, worker, history>>

\* The venue looks at the market once more and decides by the price it reads.
PlaceBuy(m) ==
  /\ buying[m] = "checked" /\ market[m].status = "open" /\ market[m].price > 0
  /\ buying' = [buying EXCEPT ![m] = IF market[m].price <= Limit THEN "fills" ELSE "rests"]
  /\ UNCHANGED <<tables, request, worker, history>>

\* What the venue decided is recorded; neither the market nor the round is looked
\* at any more.
RecordBuy(m) ==
  /\ \/ /\ buying[m] = "fills"
        /\ held' = [held EXCEPT ![m] = @ + 1]
        /\ UNCHANGED resting
     \/ /\ buying[m] = "rests"
        /\ resting' = resting \union {m}
        /\ UNCHANGED held
  /\ buying' = [buying EXCEPT ![m] = "none"]
  /\ UNCHANGED <<market, sim, outcome, listed, active, paid, request, worker, history>>

\* The venue refuses, a statement fails (as it does at price zero) or the team
\* goes away.
AbandonBuy(m) ==
  /\ buying[m] # "none"
  /\ buying' = [buying EXCEPT ![m] = "none"]
  /\ UNCHANGED <<tables, request, worker, history>>

-----------------------------------------------------------------------------
(***************************************************************************)
(* The worker's tick, two transactions                                     *)
(***************************************************************************)
\* Variant: one step short of the end.
MovingShort == {m \in listed : /\ market[m].status = "open"
                               /\ sim[m] # NoSim /\ ~sim[m].resolved
                               /\ sim[m].tick < Len(sim[m].path) - 1}

\* The markets that are on their way.
Moving == {m \in listed : /\ market[m].status = "open"
                          /\ sim[m] # NoSim /\ ~sim[m].resolved
                          /\ sim[m].tick < Len(sim[m].path)}

SpoiledAll(ms) ==
  [p \in Requests |-> IF \E m \in ms : p \in Seeding(m)
                      THEN [request[p] EXCEPT !.clean = FALSE] ELSE request[p]]

AdvanceRoundSimulatedMarkets ==
  /\ active /\ worker = "advance"
  /\ sim' = [m \in MarketIds |-> IF m \in Moving THEN [sim[m] EXCEPT !.tick = @ + 1] ELSE sim[m]]
  /\ market' = [m \in MarketIds |-> IF m \in Moving THEN [market[m] EXCEPT !.price = sim'[m].path[sim'[m].tick]]
                                    ELSE market[m]]
  /\ worker' = "fill"
  /\ request' = SpoiledAll(Moving)
  /\ torn' = torn \ Moving
  /\ UNCHANGED <<outcome, listed, active, held, resting, paid, buying, reopened, overtaken>>

\* Variant: the price has to be better than the limit.
FillableBelow == {m \in resting : market[m].status = "open" /\ market[m].price < Limit}

Fillable == {m \in resting : market[m].status = "open" /\ market[m].price <= Limit}

\* An order that cannot be filled, at price zero, undoes the whole transaction.
Blocked == \E m \in Fillable : market[m].price = 0

FillOpenOrders ==
  /\ worker = "fill"
  /\ worker' = "advance"
  /\ IF Blocked THEN UNCHANGED <<held, resting>>
     ELSE /\ held' = [m \in MarketIds |-> IF m \in Fillable THEN held[m] + 1 ELSE held[m]]
          /\ resting' = resting \ Fillable
  /\ UNCHANGED <<market, sim, outcome, listed, active, paid, buying, request, history>>

-----------------------------------------------------------------------------
\* Some markets are seeded with a path and on the round's list, others are priced
\* by hand or yet to come; nobody has traded.
Init ==
  /\ sim = [m \in MarketIds |-> IF m \in Seeded
                                THEN [NoSim EXCEPT !.path = FirstPath, !.tick = 1] ELSE NoSim]
  /\ market \in [MarketIds -> {[status |-> "none", price |-> 0],
                               [status |-> "open", price |-> FirstPath[1]]}]
  /\ listed = Seeded
  /\ \A m \in Seeded : market[m].status = "open"
  /\ outcome = [m \in MarketIds |-> "none"]
  /\ active = TRUE
  /\ held = [m \in MarketIds |-> 0]
  /\ resting = {}
  /\ buying = [m \in MarketIds |-> "none"]
  /\ paid = [m \in MarketIds |-> "none"]
  /\ request = [q \in Requests |-> NoRequest]
  /\ worker = "advance"
  /\ reopened = {} /\ overtaken = {} /\ torn = {}

RequestStep(q) ==
  \/ UpsertRow(q) \/ UpsertSimulatedMarketState(q) \/ SetMarketPrice(q)
  \/ ResolveSimulatedMarket(q) \/ SetMarketOutcome(q)
  \/ AddRoundMarket(q) \/ CheckSettlement(q) \/ SettleRound(q) \/ CompleteRound(q)
  \/ AbortRequest(q)

BuyStep(m) == PrepareBuy(m) \/ PlaceBuy(m) \/ RecordBuy(m) \/ AbandonBuy(m)

WorkerStep == AdvanceRoundSimulatedMarkets \/ FillOpenOrders

Next ==
  \/ \E q \in Requests : RequestStep(q)
  \/ \E m \in MarketIds : BuyStep(m)
  \/ WorkerStep

Spec == Init /\ [][Next]_vars

\* The worker's ticks do not stop while the round is active.
FairSpec == Spec /\ WF_vars(WorkerStep)

-----------------------------------------------------------------------------
(***************************************************************************)
(* Properties                                                              *)
(***************************************************************************)
\* A market whose row says resolved has an outcome and is at its price, as long as
\* nobody seeds a market with that status (the inputs here do not).  And the three tables tell one story of a market, on its way open at the price its
\* path has come to, resolved closed at what its outcome is worth, but while a seeding
\* is between its statements and in the five cases of torn, in which the code does
\* leave them apart: a tick, a resolution or another seeding came between the path of
\* a seeding and its first price; a seeding of a market that has a path stopped half
\* way; a market with a path was written by hand; a market was resolved for which a
\* path was seeded after it had been looked for.  The next tick, simulated resolution
\* or undisturbed seeding puts the tables together again.
RowsAgree ==
  \A m \in MarketIds :
    /\ market[m].status = "resolved" =>
         outcome[m] # "none" /\ market[m].price = Terminal(outcome[m])
    /\ m \notin torn /\ Seeding(m) = {} =>
         /\ sim[m] # NoSim /\ ~sim[m].resolved =>
              market[m] = [status |-> "open", price |-> sim[m].path[sim[m].tick]]
         /\ sim[m].resolved \/ (sim[m] = NoSim /\ outcome[m] # "none" /\ m \notin reopened) =>
              market[m].status = "resolved"
         /\ sim[m].resolved => sim[m].final = outcome[m]

\* Once a round has been settled nothing is held on any market that was listed
\* when the settlement looked whether all were resolved, with two exceptions.  A
\* buy the venue had filled before the settlement may be recorded after it and is
\* held, unpaid (overtaken): the settlement waits for nobody.  And a market that is
\* seeded once more can be traded again.  Nothing else, no resting order, no fill
\* of the worker, no buy that begins later, gets into a settled market.
SettledForGood ==
  \A q \in Requests :
    request[q].kind \in {"settle", "complete"} /\ request[q].pc \in {"complete", "done"} =>
      \A m \in request[q].checked \ reopened : held[m] > 0 => m \in overtaken

\* README.md: "The settle API rejects unresolved round markets".
OpenMarketsAreNotSettled ==
  [][\A m \in MarketIds : paid'[m] # paid[m] => market[m].status # "open"]_vars

Underway(m) == /\ active /\ m \in listed /\ market[m].status = "open"
               /\ sim[m] # NoSim /\ ~sim[m].resolved

\* The worker takes every listed market to the end of its path, unless someone
\* resolves or closes it or completes the round.
PathsPlayOut ==
  \A m \in MarketIds : Underway(m) ~> (Underway(m) => sim[m].tick = Len(sim[m].path))

Waiting(m) == active /\ m \in resting /\ market[m].status = "open" /\ market[m].price <= Limit

\* A resting buy whose limit the price has come to is filled, if no other such
\* order is on a market at price zero: that one fails the whole transaction, at
\* every tick.
RestingOrdersFill ==
  \A m \in MarketIds :
    Waiting(m) ~> (~Waiting(m) \/ \E n \in MarketIds : Waiting(n) /\ market[n].price = 0)
=============================================================================
