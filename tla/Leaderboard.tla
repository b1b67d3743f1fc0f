---------------------------- MODULE Leaderboard ----------------------------
(***************************************************************************)
(* The leaderboard of one round: the scores it is made of, the page of it  *)
(* that Redis holds for a while, and the files an operator freezes.        *)
(*                                                                         *)
(* A score is computed by several statements and inserted by another one;  *)
(* the newest row counts, whoever computed it.  A page is read by a        *)
(* request that found none, and stored after that, while the requests that *)
(* change the board delete the page when they are through - most of them.  *)
(* Any command to Redis may fail; nobody but the log is told.              *)
(*                                                                         *)
(* Left out: heartbeats, drawdown, probabilities and slippage (each is     *)
(* one more column that is read and shown), and the positions behind an    *)
(* equity, which are in Portfolio.                                         *)
(***************************************************************************)
EXTENDS Scoring, FiniteSets

CONSTANTS
  Teams,           \* the ids of the teams
  Requests,        \* the requests and worker ticks that change the board
  Kinds,           \* what they may be of
  Readers,         \* the requests for the leaderboard
  InitialBalance,
  Equities,        \* what prices and outcomes may make of a team's equity
  Stake            \* what a team that trades has at risk

AllKinds == {"trade", "reject", "resolve", "tick", "settle", "complete", "freeze",
             "team", "enrollment", "status", "reset_team", "reset_team_round",
             "reset_round"}

ASSUME LeaderboardAssumption ==
  /\ Teams \subseteq Nat /\ IsFiniteSet(Teams)
  /\ Kinds \subseteq AllKinds
  /\ InitialBalance \in Nat \ {0}
  /\ Equities \subseteq Nat
  /\ Stake \in Nat \ {0}

VARIABLES
  status,      \* of the round
  teamActive,  \* teams.is_active
  enrolled,    \* round_teams.status is active
  books,       \* what a score is computed from, by team
  score,       \* the newest row of score_snapshots, by team
  request,     \* who changes the board
  cache,       \* the page in Redis
  reader,      \* who reads it
  frozen       \* the files of the last export

vars == <<status, teamActive, enrolled, books, score, request, cache, reader, frozen>>
tables == <<status, teamActive, enrolled, books, score>>

Statuses == {"draft", "active", "completed"}

BooksRow == [equity: Nat, exposure: Nat, orders: Nat, rejected: Nat]

NoScore  == [composite |-> -1, equity |-> -1]
ScoreRow == [composite: 0..100, equity: Nat] \union {NoScore}

\* saw (history): the requests whose changes a page shows.
NoPage  == [saw |-> {}, stored |-> FALSE]
PageRow == [saw: SUBSET Requests, stored: BOOLEAN]

\* kind, pc: what the request is and its next statement; todo: the teams it
\* has yet to score, team: the one it is at, reading: what it read of it.
\* scored, disturbed, excused (history): the teams it answers for, those others
\* changed since it started, and whether its change may go unseen for a while.
RequestRow ==
  [kind: AllKinds \union {"none"},
   pc: {"idle", "portfolio", "orders", "rejected", "insert", "delete",
        "complete", "list", "bundle", "done", "aborted"},
   todo: SUBSET Teams, team: Teams \union {0}, reading: BooksRow,
   scored: SUBSET Teams, disturbed: SUBSET Teams, excused: BOOLEAN]

\* finished (history): the requests that were answered before this one started.
ReaderRow == [pc: {"idle", "list", "store", "done"},
              finished: SUBSET Requests, page: PageRow]

FrozenRow == [board: [Teams -> [rank: Nat, row: ScoreRow]], bundle: [Teams -> Int]]

TypeOK ==
  /\ status \in Statuses
  /\ teamActive \in [Teams -> BOOLEAN]
  /\ enrolled \in [Teams -> BOOLEAN]
  /\ books \in [Teams -> BooksRow]
  /\ score \in [Teams -> ScoreRow]
  /\ request \in [Requests -> RequestRow]
  /\ cache \in PageRow
  /\ reader \in [Readers -> ReaderRow]
  /\ frozen \in FrozenRow

-----------------------------------------------------------------------------
(***************************************************************************)
(* The board                                                               *)
(***************************************************************************)
EmptyBooks == [equity |-> InitialBalance, exposure |-> 0, orders |-> 0, rejected |-> 0]

Compute(b) ==
  [composite |-> Composite(InitialBalance, b.equity, 0, b.exposure, -1,
                           b.orders, b.rejected, 0),
   equity    |-> b.equity]

\* The teams a page lists.
Shown == {t \in Teams : enrolled[t] /\ (status = "completed" \/ teamActive[t])}

\* A team that was never scored stands below one that was and did nothing.
ShownScore(s) == IF s = NoScore THEN [composite |-> 50, equity |-> InitialBalance] ELSE s

Beats(u, t, s) ==
  LET a == ShownScore(s[u])
      b == ShownScore(s[t])
  IN  \/ a.composite > b.composite
      \/ a.composite = b.composite /\ a.equity > b.equity
      \/ a.composite = b.composite /\ a.equity = b.equity /\ u < t

\* The rows of ListLeaderboard for some scores, rank 0 for who is not listed.
Board(s) ==
  [t \in Teams |->
     IF t \in Shown
     THEN [rank |-> 1 + Cardinality({u \in Shown : Beats(u, t, s)}),
           row  |-> ShownScore(s[t])]
     ELSE [rank |-> 0, row |-> NoScore]]

\* The requests whose change is in the tables, all of it.
Visible ==
  {q \in Requests : \/ request[q].pc = "done"
                    \/ request[q].pc = "delete" /\ request[q].kind # "complete"}

-----------------------------------------------------------------------------
(***************************************************************************)
(* The steps of a request                                                  *)
(***************************************************************************)
Idle == [kind |-> "none", pc |-> "idle", todo |-> {}, team |-> 0,
         reading |-> EmptyBooks, scored |-> {}, disturbed |-> {}, excused |-> FALSE]

\* The other requests underway or answered, once q has changed some teams.
Disturb(q, ts) ==
  [p \in Requests |->
     IF p = q \/ request[p].pc = "idle" THEN request[p]
     ELSE [request[p] EXCEPT !.disturbed = @ \union ts]]

\* The requests that delete no page.
Silent == {"tick", "freeze", "reset_team"}

\* Where a request goes on with some teams left to score.
Onward(kind, todo) ==
  IF todo # {} THEN "portfolio"
  ELSE CASE kind = "freeze" -> "list"
         [] kind \in {"tick", "reset_team"} -> "done"
         [] OTHER -> "delete"

\* Request q starts with a change of some teams.
Begins(q, kind, ts, todo) ==
  /\ kind \in Kinds
  /\ request[q].pc = "idle"
  /\ request' = [Disturb(q, ts) EXCEPT ![q].kind = kind, ![q].pc = Onward(kind, todo),
                                        ![q].todo = todo, ![q].scored = todo,
                                        ![q].excused = kind \in Silent]

Goes(q, pc) == request' = [request EXCEPT ![q].pc = pc]

\* Agents trade while the round is active and they are in it.
Trading(t) == status = "active" /\ teamActive[t] /\ enrolled[t]

\* An order is filled, cash for a position of the same worth; afterTrade scores
\* the team and deletes the page.
Trade(q) ==
  \E t \in Teams :
    /\ Trading(t)
    /\ Begins(q, "trade", {t}, {t})
    /\ books' = [books EXCEPT ![t].exposure = Stake, ![t].orders = @ + 1]
    /\ UNCHANGED <<status, teamActive, enrolled, score, cache, reader, frozen>>

\* An order is turned down: the page goes, the score is left to the worker.
Reject(q) ==
  \E t \in Teams :
    /\ Trading(t)
    /\ Begins(q, "reject", {t}, {})
    /\ books' = [books EXCEPT ![t].orders = @ + 1, ![t].rejected = @ + 1]
    /\ UNCHANGED <<status, teamActive, enrolled, score, cache, reader, frozen>>

\* A market resolves: who holds it is worth something else.  Nobody is scored.
Resolve(q) ==
  \E e \in Equities :
    LET holders == {t \in Teams : books[t].exposure > 0} IN
    /\ Begins(q, "resolve", holders, {})
    /\ books' = [t \in Teams |-> IF t \in holders
                                 THEN [books[t] EXCEPT !.equity = e] ELSE books[t]]
    /\ UNCHANGED <<status, teamActive, enrolled, score, cache, reader, frozen>>

\* The worker moves the prices, and scores every team there is.
Tick(q) ==
  \E e \in Equities :
    LET holders == {t \in Teams : books[t].exposure > 0} IN
    /\ status = "active"
    /\ Begins(q, "tick", holders, Teams)
    /\ books' = [t \in Teams |-> IF t \in holders
                                 THEN [books[t] EXCEPT !.equity = e] ELSE books[t]]
    /\ UNCHANGED <<status, teamActive, enrolled, score, cache, reader, frozen>>

\* Variant: the scores of a completed round are left as they are.
ToScoreFinal == {t \in Teams : enrolled[t] /\ status # "completed" /\ teamActive[t]}

\* RefreshRoundScores scores the enrolled teams, without the paused ones
\* unless the round is completed.
ToScore == {t \in Teams : enrolled[t] /\ (status = "completed" \/ teamActive[t])}

\* The settlement pays the positions out, which keeps the equities.
Settle(q) ==
  \E kind \in {"settle", "complete"} :
    LET holders == {t \in Teams : books[t].exposure > 0} IN
    /\ Begins(q, kind, holders, ToScore)
    /\ books' = [t \in Teams |-> [books[t] EXCEPT !.exposure = 0]]
    /\ UNCHANGED <<status, teamActive, enrolled, score, cache, reader, frozen>>

\* Variant: nothing is refreshed.
FreezeUnscored(q) ==
  /\ Begins(q, "freeze", {}, {})
  /\ UNCHANGED <<tables, cache, reader, frozen>>

\* Freezing and exporting refresh the scores and write the files.
Freeze(q) ==
  /\ Begins(q, "freeze", {}, ToScore)
  /\ UNCHANGED <<tables, cache, reader, frozen>>

PauseOrResumeTeam(q) ==
  \E t \in Teams :
    /\ Begins(q, "team", Teams, {})
    /\ teamActive' = [teamActive EXCEPT ![t] = ~@]
    /\ UNCHANGED <<status, enrolled, books, score, cache, reader, frozen>>

SetRoundTeamStatus(q) ==
  \E t \in Teams :
    /\ Begins(q, "enrollment", Teams, {})
    /\ enrolled' = [enrolled EXCEPT ![t] = ~@]
    /\ UNCHANGED <<status, teamActive, books, score, cache, reader, frozen>>

\* For the board a paused round is as an active one.
SetRoundStatus(q) ==
  \E s \in {"active", "completed"} :
    /\ s = "active" => \E t \in Teams : enrolled[t] /\ teamActive[t]
    /\ Begins(q, "status", Teams, {})
    /\ status' = s
    /\ UNCHANGED <<teamActive, enrolled, books, score, cache, reader, frozen>>

Cleared(ts) ==
  /\ books' = [t \in Teams |-> IF t \in ts THEN EmptyBooks ELSE books[t]]
  /\ score' = [t \in Teams |-> IF t \in ts THEN NoScore ELSE score[t]]

\* The reset of a team in all rounds leaves every page where it is.
ResetTeam(q) ==
  \E t \in Teams :
    /\ \/ Begins(q, "reset_team_round", {t}, {})
       \/ Begins(q, "reset_team", {t}, {})
    /\ Cleared({t})
    /\ UNCHANGED <<status, teamActive, enrolled, cache, reader, frozen>>

ResetRound(q) ==
  /\ Begins(q, "reset_round", Teams, {})
  /\ Cleared(Teams)
  /\ status' = "draft"
  /\ UNCHANGED <<teamActive, enrolled, cache, reader, frozen>>

-----------------------------------------------------------------------------
(***************************************************************************)
(* Scoring a team                                                          *)
(***************************************************************************)
\* Teams in the order of their ids.
ReadPortfolio(q) ==
  \E t \in request[q].todo :
    /\ request[q].pc = "portfolio"
    /\ \A u \in request[q].todo : t <= u
    /\ request' = [request EXCEPT ![q].pc = "orders", ![q].team = t, ![q].todo = @ \ {t},
                     ![q].reading.equity = books[t].equity,
                     ![q].reading.exposure = books[t].exposure]
    /\ UNCHANGED <<tables, cache, reader, frozen>>

CountOrders(q) ==
  /\ request[q].pc = "orders"
  /\ request' = [request EXCEPT ![q].pc = "rejected",
                   ![q].reading.orders = books[request[q].team].orders]
  /\ UNCHANGED <<tables, cache, reader, frozen>>

CountRejected(q) ==
  /\ request[q].pc = "rejected"
  /\ request' = [request EXCEPT ![q].pc = "insert",
                   ![q].reading.rejected = books[request[q].team].rejected]
  /\ UNCHANGED <<tables, cache, reader, frozen>>

\* Variant: a team has one score, its first.
InsertScoreOnce(q) ==
  LET t == request[q].team IN
  /\ request[q].pc = "insert"
  /\ score' = [score EXCEPT ![t] = IF @ = NoScore THEN Compute(request[q].reading) ELSE @]
  /\ request' = [Disturb(q, {t}) EXCEPT ![q].pc = Onward(request[q].kind, request[q].todo),
                                         ![q].team = 0, ![q].reading = EmptyBooks]
  /\ UNCHANGED <<status, teamActive, enrolled, books, cache, reader, frozen>>

InsertScore(q) ==
  LET t == request[q].team IN
  /\ request[q].pc = "insert"
  /\ score' = [score EXCEPT ![t] = Compute(request[q].reading)]
  /\ request' = [Disturb(q, {t}) EXCEPT ![q].pc = Onward(request[q].kind, request[q].todo),
                                         ![q].team = 0, ![q].reading = EmptyBooks]
  /\ UNCHANGED <<status, teamActive, enrolled, books, cache, reader, frozen>>

-----------------------------------------------------------------------------
(***************************************************************************)
(* The end of a request                                                    *)
(***************************************************************************)
\* A resolution deletes the page of the round that is active.  (Pausing a team
\* deletes those of the active and of the latest round: with a later round this
\* one's may stay, as when Redis fails.)
Deletes(q) == request[q].kind = "resolve" => status = "active"

\* A page that was read before the change and is not stored yet will be.
Overtaken(q) == \E r \in Readers : reader[r].pc = "store" /\ q \notin reader[r].page.saw

AfterDelete(q) == IF request[q].kind = "complete" THEN "complete" ELSE "done"

\* Variant: settlements are known to the worker, which shows them in time.
DeletePageUnlessSettled(q) ==
  /\ request[q].pc = "delete"
  /\ cache' = IF request[q].kind = "settle" THEN cache ELSE NoPage
  /\ request' = [request EXCEPT ![q].pc = AfterDelete(q), ![q].excused = Overtaken(q)]
  /\ UNCHANGED <<tables, reader, frozen>>

DeletePage(q) ==
  /\ request[q].pc = "delete"
  /\ \E deleted \in BOOLEAN :
       /\ deleted => Deletes(q)
       /\ cache' = IF deleted THEN NoPage ELSE cache
       /\ request' = [request EXCEPT ![q].pc = AfterDelete(q),
                                     ![q].excused = Overtaken(q) \/ ~deleted]
  /\ UNCHANGED <<tables, reader, frozen>>

\* complete_after_settlement: the page stays as it is.
CompleteRound(q) ==
  /\ request[q].pc = "complete"
  /\ status' = "completed"
  /\ request' = [Disturb(q, Teams) EXCEPT ![q].pc = "done", ![q].excused = TRUE]
  /\ UNCHANGED <<teamActive, enrolled, books, score, cache, reader, frozen>>

ListBoard(q) ==
  /\ request[q].pc = "list"
  /\ frozen' = [frozen EXCEPT !.board = Board(score)]
  /\ Goes(q, "bundle")
  /\ UNCHANGED <<tables, cache, reader>>

\* The bundles of the teams hold portfolios computed anew.
WriteBundles(q) ==
  /\ request[q].pc = "bundle"
  /\ frozen' = [frozen EXCEPT !.bundle = [t \in Teams |-> books[t].equity]]
  /\ Goes(q, "done")
  /\ UNCHANGED <<tables, cache, reader>>

\* The rows of a trade cannot be read or its score not be inserted: the trade is
\* answered with success all the same, and its page stays.
AnswerUnscored(q) ==
  /\ request[q].kind = "trade"
  /\ request[q].pc \in {"portfolio", "orders", "rejected", "insert"}
  /\ request' = [request EXCEPT ![q] =
                   [@ EXCEPT !.pc = "done", !.todo = {}, !.team = 0,
                             !.reading = EmptyBooks, !.scored = {}, !.excused = TRUE]]
  /\ UNCHANGED <<tables, cache, reader, frozen>>

\* The client goes away, a statement of another request fails, the worker's tick
\* ends: nobody is answered, and what is left is left undone.
AbortRequest(q) ==
  /\ request[q].pc \notin {"idle", "done", "aborted"}
  /\ request' = [request EXCEPT ![q] = [Idle EXCEPT !.pc = "aborted"]]
  /\ UNCHANGED <<tables, cache, reader, frozen>>

-----------------------------------------------------------------------------
(***************************************************************************)
(* Reading the leaderboard                                                 *)
(***************************************************************************)
NoReader == [pc |-> "idle", finished |-> {}, page |-> NoPage]

\* A page is there and Redis answers; otherwise the tables are read.
GetPage(r) ==
  /\ reader[r].pc \in {"idle", "done"}
  /\ \E hit \in BOOLEAN :
       /\ hit => cache.stored
       /\ reader' = [reader EXCEPT ![r] =
            [pc       |-> IF hit THEN "done" ELSE "list",
             page     |-> IF hit THEN cache ELSE NoPage,
             finished |-> {q \in Requests : request[q].pc = "done"}]]
  /\ UNCHANGED <<tables, request, cache, frozen>>

ListLeaderboard(r) ==
  /\ reader[r].pc = "list"
  /\ reader' = [reader EXCEPT ![r].pc = "store",
                              ![r].page = [saw |-> Visible, stored |-> TRUE]]
  /\ UNCHANGED <<tables, request, cache, frozen>>

\* The reader is answered whether or not its page could be stored.
StorePage(r) ==
  /\ reader[r].pc = "store"
  /\ cache' \in {cache, reader[r].page}
  /\ reader' = [reader EXCEPT ![r].pc = "done"]
  /\ UNCHANGED <<tables, request, frozen>>

\* Variant: pages are stored without a time to live.
ExpireNever == FALSE /\ UNCHANGED vars

\* The time to live of the page is over.
Expire ==
  /\ cache.stored
  /\ cache' = NoPage
  /\ UNCHANGED <<tables, request, reader, frozen>>

-----------------------------------------------------------------------------
Init ==
  /\ status = "active"
  /\ teamActive = [t \in Teams |-> TRUE]
  /\ enrolled = [t \in Teams |-> TRUE]
  /\ books = [t \in Teams |-> EmptyBooks]
  /\ score = [t \in Teams |-> NoScore]
  /\ request = [q \in Requests |-> Idle]
  /\ cache = NoPage
  /\ reader = [r \in Readers |-> NoReader]
  /\ frozen = [board |-> [t \in Teams |-> [rank |-> 0, row |-> NoScore]],
               bundle |-> [t \in Teams |-> 0]]

RequestStarts(q) ==
  \/ Trade(q) \/ Reject(q) \/ Resolve(q) \/ Tick(q) \/ Settle(q) \/ Freeze(q)
  \/ PauseOrResumeTeam(q) \/ SetRoundTeamStatus(q) \/ SetRoundStatus(q)
  \/ ResetTeam(q) \/ ResetRound(q)

RequestStep(q) ==
  \/ ReadPortfolio(q) \/ CountOrders(q) \/ CountRejected(q)
  \/ InsertScore(q) \/ DeletePage(q) \/ CompleteRound(q) \/ ListBoard(q)
  \/ WriteBundles(q)

ReaderStep(r) == ListLeaderboard(r) \/ StorePage(r)

Next ==
  \/ \E q \in Requests :
       RequestStarts(q) \/ RequestStep(q) \/ AnswerUnscored(q) \/ AbortRequest(q)
  \/ \E r \in Readers : GetPage(r) \/ ReaderStep(r)
  \/ Expire

\* Requests run to their end, and Redis drops what has lived its time.
Fairness ==
  /\ \A q \in Requests : WF_vars(RequestStep(q))
  /\ \A r \in Readers : WF_vars(ReaderStep(r))
  /\ WF_vars(Expire)

Spec == Init /\ [][Next]_vars

FairSpec == Spec /\ Fairness

-----------------------------------------------------------------------------
(***************************************************************************)
(* Properties                                                              *)
(***************************************************************************)
\* Who asks for the leaderboard after a request was answered sees what that
\* request changed, but in these cases, in all of which the code does show an
\* older page until it expires: a tick, a freeze and the reset of a team in all
\* rounds delete no page; the delete failed, or was of the page of another
\* round; a page that was read before the change is stored after the delete; a
\* trade whose score could not be written is answered before it gets to the
\* delete; and a round is completed after the delete of its settlement.
\* It is about the delete at the end of every handler that changes the board.
ReadYourWrites ==
  \A r \in Readers : reader[r].pc = "done" =>
    \A q \in reader[r].finished \ reader[r].page.saw : request[q].excused

\* When a trade, a settlement, a freeze or a tick is through, each team that it
\* answers for has a score of the books as they are, unless something else
\* changed or scored that team since it began.  A trade whose score could not be
\* written answers for no team.
ScoredWhenDone ==
  \A q \in Requests : request[q].pc = "done" =>
    \A t \in request[q].scored \ request[q].disturbed : score[t] = Compute(books[t])

\* After a settlement everyone on the board is scored by what was settled, but
\* for the teams that are paused: the scores are refreshed before the round is
\* completed, and completing it lists them.
SettledStandings ==
  \A q \in Requests :
    request[q].pc = "done" /\ request[q].kind \in {"settle", "complete"} =>
      \A t \in Shown \ request[q].disturbed :
        \/ score[t] = Compute(books[t])
        \/ request[q].kind = "complete" /\ ~teamActive[t]

\* What a freeze writes, when nothing came in between, is the ranking by the
\* books as they are, of everyone the board lists, and its two files agree.
FrozenIsFinal ==
  [][\A q \in Requests :
       WriteBundles(q) /\ request[q].disturbed = {} =>
         /\ frozen'.board = Board([t \in Teams |-> Compute(books[t])])
         /\ \A t \in Shown : frozen'.board[t].row.equity = frozen'.bundle[t]]_vars

\* Once the requests are over, the page comes to show all that was answered,
\* whatever ReadYourWrites excepts: a page that was stored too late, was not
\* deleted, or that nobody deletes, does not stay for good.
PageCatchesUp == <>[](cache.stored => Visible \subseteq cache.saw)
=============================================================================
