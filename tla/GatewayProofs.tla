--------------------------- MODULE GatewayProofs ---------------------------
(***************************************************************************)
(* Proofs about Gateway, for any calls, attempts and limit: its types, the *)
(* limit of a minute, the end of every minute, and that what the agent is  *)
(* told took effect.                                                       *)
(***************************************************************************)
EXTENDS Gateway, FiniteSetTheorems, TLAPS

\* The attempt r is about to give the counter k its EXPIRE.
Pending(r, k) == request[r].pc = "expire" /\ request[r].key = k

\* An attempt between INCR and EXPIRE has found the counter new: there is only
\* one, the minute has no end yet, and its place within the limit is kept.
PendingIsFirst ==
  \A k \in Keys : \A r \in Requests : Pending(r, k) =>
    /\ counter[k].ttl = FALSE
    /\ passed[k] < Limit
    /\ passed[k] < counter[k].count
    /\ \A s \in Requests : Pending(s, k) => s = r

\* What was let through was counted, and an end belongs to a counter that is there.
PassedWereCounted ==
  \A k \in Keys : /\ passed[k] <= counter[k].count
                  /\ passed[k] <= Limit
                  /\ counter[k].ttl => counter[k].count > 0

\* An attempt that was not made is not known to the server.
Fresh == \A r \in Requests : r[2] > call[r[1]].attempt => request[r].pc = "none"

IInv == TypeOK /\ Fresh /\ PendingIsFirst /\ PassedWereCounted /\ EveryMinuteEnds

-----------------------------------------------------------------------------
(***************************************************************************)
(* Types                                                                   *)
(***************************************************************************)
PCs      == {"none", "auth", "expire", "handler", "audit", "done"}
Statuses == {"none", "ok", "error"}

\* A step of a request leaves the requests well typed.
LEMMA GoesType ==
  ASSUME request \in [Requests -> RequestRow], NEW r \in Requests,
         NEW pc \in PCs \ {"expire"}, NEW status \in Statuses, Goes(r, pc, status)
  PROVE  request' \in [Requests -> RequestRow]
<1> DEFINE row == [pc |-> pc, key |-> "none", status |-> IF Waited(r) THEN status ELSE "none"]
<1>1. row \in RequestRow
  BY DEF RequestRow, PCs, Statuses
<1>2. request' = [request EXCEPT ![r] = row]
  BY DEF Goes
<1> HIDE DEF row
<1> QED BY <1>1, <1>2

\* A request that has taken its step waits for no EXPIRE.
LEMMA GoesPending ==
  ASSUME request \in [Requests -> RequestRow], NEW r \in Requests,
         NEW pc \in PCs \ {"expire"}, NEW status, Goes(r, pc, status),
         NEW s \in Requests, NEW k
  PROVE  Pending(s, k)' <=> (s # r /\ Pending(s, k))
<1> DEFINE row == [pc |-> pc, key |-> "none", status |-> IF Waited(r) THEN status ELSE "none"]
<1>1. row.pc = pc
  OBVIOUS
<1>2. request' = [request EXCEPT ![r] = row]
  BY DEF Goes
<1> HIDE DEF row
<1> QED BY <1>1, <1>2 DEF Pending

LEMMA InitType == Init => TypeOK
<1> SUFFICES ASSUME Init PROVE TypeOK
  OBVIOUS
<1>1. NoRequest \in RequestRow /\ NoCall \in CallRow /\ NoCounter \in [count: Nat, ttl: BOOLEAN]
  BY GatewayAssumption DEF NoRequest, RequestRow, NoCall, CallRow, NoCounter
<1>2. NoCall.pc # "sent"
  BY DEF NoCall
<1> QED BY <1>1, <1>2 DEF Init, TypeOK, Keys

\* What a step says of the types of what it changes.
LEMMA AgentType ==
  ASSUME TypeOK, NEW c \in Calls, AgentStep(c)
  PROVE  TypeOK'
<1>1. ASSUME Attempt(c) PROVE TypeOK'
  <2>1. call[c].attempt \in 0..MaxAttempts /\ call[c].attempt < MaxAttempts
    BY <1>1, GatewayAssumption DEF Attempt, AttemptsLeft, TypeOK, CallRow
  <2> DEFINE row == [pc |-> "sent", attempt |-> call[c].attempt + 1, result |-> "none"]
  <2>2. row \in CallRow
    BY <2>1, GatewayAssumption DEF CallRow
  <2>3. call' = [call EXCEPT ![c] = row]
    BY <1>1 DEF Attempt
  <2>4. call' \in [Calls -> CallRow]
    <3> HIDE DEF row
    <3> QED BY <2>2, <2>3 DEF TypeOK
  <2>7. ASSUME NEW d \in Calls, call'[d].pc = "sent" PROVE call'[d].attempt # 0
    <3>1. row.attempt # 0
      BY <2>1
    <3> HIDE DEF row
    <3> QED BY <2>3, <2>7, <3>1 DEF TypeOK
  <2>5. ASSUME NEW r \in Requests PROVE request'[r] \in RequestRow
    <3>1. request[r] \in RequestRow
      BY DEF TypeOK
    <3>2. NewRequest \in RequestRow
      BY DEF NewRequest, RequestRow
    <3>3. [request[r] EXCEPT !.status = "none"] \in RequestRow
      BY <3>1 DEF RequestRow
    <3> QED BY <1>1, <3>1, <3>2, <3>3 DEF Attempt
  <2>6. request' \in [Requests -> RequestRow]
    BY <1>1, <2>5 DEF Attempt
  <2> QED BY <1>1, <2>4, <2>6, <2>7 DEF Attempt, TypeOK
<1>2. ASSUME NEW result \in {"ok", "error", "unknown"}, call[c].pc = "sent", End(c, result)
      PROVE  TypeOK'
  <2> DEFINE row == [pc |-> "ended", attempt |-> call[c].attempt, result |-> result]
  <2>1. row \in CallRow
    BY DEF TypeOK, CallRow
  <2>2. call' = [call EXCEPT ![c] = row]
    BY <1>2 DEF End
  <2>3. call' \in [Calls -> CallRow]
    <3> HIDE DEF row
    <3> QED BY <2>1, <2>2 DEF TypeOK
  <2>5. ASSUME NEW d \in Calls, call'[d].pc = "sent" PROVE call'[d].attempt # 0
    <3>1. row.pc # "sent"
      OBVIOUS
    <3> HIDE DEF row
    <3> QED BY <2>2, <2>5, <3>1 DEF TypeOK
  <2>4. request' \in [Requests -> RequestRow]
    <3>1. Current(c) \in Requests
      BY <1>2 DEF Current, Requests, TypeOK, CallRow
    <3>2. [request[Current(c)] EXCEPT !.status = "none"] \in RequestRow
      <4>1. request[Current(c)] \in RequestRow
        BY <3>1 DEF TypeOK
      <4> QED BY <4>1 DEF RequestRow
    <3>3. request' = [request EXCEPT ![Current(c)] = [request[Current(c)] EXCEPT !.status = "none"]]
      BY <1>2, Zenon DEF End
    <3> QED BY <3>1, <3>2, <3>3 DEF TypeOK
  <2> QED BY <1>2, <2>3, <2>4, <2>5 DEF End, TypeOK
<1>3. CASE Start(c)
  BY <1>1, <1>3 DEF Start
<1>4. CASE Receive(c)
  <2> DEFINE st == request[Current(c)].status
  <2>1. st \in {"ok", "error", "unknown"}
    <3>1. Current(c) \in Requests
      BY <1>4 DEF Receive, Current, Requests, TypeOK, CallRow
    <3> QED BY <1>4, <3>1 DEF Receive, TypeOK, RequestRow
  <2> QED BY <1>2, <1>4, <2>1 DEF Receive
<1>5. CASE Lose(c)
  BY <1>1, <1>2, <1>5 DEF Lose
<1>6. CASE OrderAgain(c)
  BY <1>1, <1>6 DEF OrderAgain
<1> QED BY <1>3, <1>4, <1>5, <1>6 DEF AgentStep

-----------------------------------------------------------------------------
(***************************************************************************)
(* What the steps of the server do to the requests and the counters        *)
(***************************************************************************)
\* What a request may become that takes a step.
Stepped(r) == \E pc \in PCs \ {"expire"} : \E status \in Statuses : Goes(r, pc, status)

LEMMA LetThroughSteps == ASSUME NEW r, NEW k, LetThrough(r, k) PROVE Stepped(r)
BY DEF LetThrough, Stepped, PCs, Statuses

LEMMA TurnedDownSteps == ASSUME NEW r, NEW k, TurnedDown(r, k) PROVE Stepped(r)
BY DEF TurnedDown, Stepped, PCs, Statuses

LEMMA UncountedSteps == ASSUME NEW r, NEW k, Uncounted(r, k) PROVE Stepped(r)
BY LetThroughSteps, TurnedDownSteps DEF Uncounted

LEMMA SteppedType ==
  ASSUME request \in [Requests -> RequestRow], NEW r \in Requests, Stepped(r)
  PROVE  request' \in [Requests -> RequestRow]
<1>1. PICK pc \in PCs \ {"expire"}, status \in Statuses : Goes(r, pc, status)
  BY DEF Stepped
<1> QED BY <1>1, GoesType

LEMMA SteppedPending ==
  ASSUME request \in [Requests -> RequestRow], NEW r \in Requests, Stepped(r),
         NEW s \in Requests, NEW k
  PROVE  Pending(s, k)' <=> (s # r /\ Pending(s, k))
<1>1. PICK pc \in PCs \ {"expire"}, status \in Statuses : Goes(r, pc, status)
  BY DEF Stepped
<1> QED BY <1>1, GoesPending

\* A counter that was incremented, and one that was given its end.
LEMMA Incremented ==
  ASSUME counter \in [Keys -> [count: Nat, ttl: BOOLEAN]], NEW k \in Keys,
         counter' = [counter EXCEPT ![k].count = counter[k].count + 1]
  PROVE  /\ counter' \in [Keys -> [count: Nat, ttl: BOOLEAN]]
         /\ counter'[k].count = counter[k].count + 1
         /\ counter'[k].ttl = counter[k].ttl
         /\ \A j \in Keys \ {k} : counter'[j] = counter[j]
OBVIOUS

LEMMA Timed ==
  ASSUME counter \in [Keys -> [count: Nat, ttl: BOOLEAN]], NEW k \in Keys,
         counter' = [counter EXCEPT ![k].ttl = TRUE]
  PROVE  /\ counter' \in [Keys -> [count: Nat, ttl: BOOLEAN]]
         /\ counter'[k].count = counter[k].count
         /\ counter'[k].ttl = TRUE
         /\ \A j \in Keys \ {k} : counter'[j] = counter[j]
OBVIOUS

\* The request that read 1 waits to set the end.
LEMMA Expires ==
  ASSUME request \in [Requests -> RequestRow], NEW r \in Requests, NEW k \in Keys,
         request' = [request EXCEPT ![r] = [pc |-> "expire", key |-> k, status |-> "none"]]
  PROVE  /\ request' \in [Requests -> RequestRow]
         /\ Pending(r, k)'
         /\ \A j \in Keys \ {k} : ~Pending(r, j)'
         /\ \A s \in Requests \ {r}, j \in Keys : Pending(s, j)' <=> Pending(s, j)
<1> DEFINE row == [pc |-> "expire", key |-> k, status |-> "none"]
<1>1. row \in RequestRow /\ row.pc = "expire" /\ row.key = k
  BY DEF RequestRow, Keys
<1>2. request' = [request EXCEPT ![r] = row]
  OBVIOUS
<1> HIDE DEF row
<1> QED BY <1>1, <1>2 DEF Pending

\* An attempt that was let through is counted once more.
LEMMA WithinFacts ==
  ASSUME passed \in [Keys -> Nat], NEW r, NEW k \in Keys, Within(r, k)
  PROVE  /\ Stepped(r)
         /\ passed' \in [Keys -> Nat]
         /\ passed'[k] = passed[k] + 1
         /\ \A j \in Keys \ {k} : passed'[j] = passed[j]
BY LetThroughSteps DEF Within

-----------------------------------------------------------------------------
(***************************************************************************)
(* The invariant, counter by counter                                       *)
(***************************************************************************)
Of(k) ==
  /\ \A r \in Requests : Pending(r, k) =>
       /\ counter[k].ttl = FALSE
       /\ passed[k] < Limit
       /\ passed[k] < counter[k].count
       /\ \A s \in Requests : Pending(s, k) => s = r
  /\ passed[k] <= counter[k].count
  /\ passed[k] <= Limit
  /\ counter[k].ttl => counter[k].count > 0
  /\ \/ counter[k].count = 0
     \/ counter[k].ttl
     \/ k \in broken
     \/ \E r \in Requests : Pending(r, k)

LEMMA CounterByCounter ==
  (PendingIsFirst /\ PassedWereCounted /\ EveryMinuteEnds) <=> \A k \in Keys : Of(k)
<1>1. ASSUME NEW k \in Keys, PendingIsFirst, PassedWereCounted, EveryMinuteEnds PROVE Of(k)
  BY <1>1 DEF PendingIsFirst, PassedWereCounted, EveryMinuteEnds, Of, Pending
<1>2. ASSUME \A k \in Keys : Of(k) PROVE PendingIsFirst
  BY <1>2 DEF PendingIsFirst, Of
<1>3. ASSUME \A k \in Keys : Of(k) PROVE PassedWereCounted
  BY <1>3 DEF PassedWereCounted, Of
<1>4. ASSUME \A k \in Keys : Of(k) PROVE EveryMinuteEnds
  BY <1>4 DEF EveryMinuteEnds, Of, Pending
<1> QED BY <1>1, <1>2, <1>3, <1>4

\* A step that leaves a counter alone keeps what holds of it.
LEMMA LeftAlone ==
  ASSUME NEW k \in Keys, Of(k),
         counter'[k] = counter[k], passed'[k] = passed[k], k \in broken => k \in broken',
         \A r \in Requests : Pending(r, k)' <=> Pending(r, k)
  PROVE  Of(k)'
BY DEF Of

\* INCR by an attempt that will not set the end: it is not the first, or it has
\* no answer.
LEMMA CountedOn ==
  ASSUME TypeOK, NEW k \in Keys, Of(k), NEW r \in Requests, ~Pending(r, k), Stepped(r),
         counter' = [counter EXCEPT ![k].count = counter[k].count + 1],
         passed'[k] \in Nat,
         \/ passed'[k] = passed[k]
         \/ /\ passed'[k] = passed[k] + 1
            /\ counter[k].count + 1 \in 2..Limit,
         k \in broken => k \in broken',
         counter[k].count = 0 => k \in broken'
  PROVE  Of(k)'
<1> DEFINE n == counter[k].count
<1>1. n \in Nat /\ passed[k] \in Nat /\ Limit \in Nat
  BY GatewayAssumption DEF TypeOK
<1>2. counter'[k].count = n + 1 /\ counter'[k].ttl = counter[k].ttl
  BY Incremented DEF TypeOK
<1>3. \A q \in Requests : Pending(q, k)' <=> Pending(q, k)
  BY SteppedPending DEF TypeOK
<1>4. ASSUME NEW q \in Requests, Pending(q, k)
      PROVE  passed[k] < Limit /\ passed[k] < n /\ counter[k].ttl = FALSE
             /\ \A s \in Requests : Pending(s, k) => s = q
  BY <1>4 DEF Of
<1>5. passed'[k] <= n + 1 /\ passed'[k] <= Limit
  <2>1. passed[k] <= n /\ passed[k] <= Limit
    BY DEF Of
  <2> QED BY <1>1, <2>1
<1>6. ASSUME NEW q \in Requests, Pending(q, k) PROVE passed'[k] < Limit /\ passed'[k] < n + 1
  <2>1. passed[k] < n /\ passed[k] < Limit
    BY <1>4, <1>6
  <2> QED BY <1>1, <2>1
<1>7. \/ counter'[k].count = 0
      \/ counter'[k].ttl
      \/ k \in broken'
      \/ \E q \in Requests : Pending(q, k)'
  BY <1>2, <1>3 DEF Of
<1>8. counter'[k].count > 0
  BY <1>1, <1>2
<1>9. ASSUME NEW q \in Requests, Pending(q, k)'
      PROVE  /\ counter'[k].ttl = FALSE
             /\ passed'[k] < Limit
             /\ passed'[k] < counter'[k].count
             /\ \A s \in Requests : Pending(s, k)' => s = q
  BY <1>2, <1>3, <1>4, <1>6, <1>9
<1>10. passed'[k] <= counter'[k].count
  BY <1>2, <1>5
<1> QED BY <1>5, <1>7, <1>8, <1>9, <1>10 DEF Of

\* INCR: the first attempt of a minute takes it on itself to set the end.
LEMMA CountStep ==
  ASSUME IInv, NEW r \in Requests, NEW k \in Keys, Count(r, k)
  PROVE  TypeOK' /\ \A j \in Keys : Of(j)'
<1> DEFINE n == counter[k].count + 1
           increments == counter' = [counter EXCEPT ![k].count = n]
<1>1. TypeOK /\ \A j \in Keys : Of(j)
  BY CounterByCounter DEF IInv
<1>2. /\ request \in [Requests -> RequestRow]
      /\ counter \in [Keys -> [count: Nat, ttl: BOOLEAN]]
      /\ passed \in [Keys -> Nat]
      /\ broken \subseteq Keys
      /\ counter[k].count \in Nat /\ passed[k] \in Nat /\ Limit \in Nat \ {0}
  BY <1>1, GatewayAssumption DEF TypeOK
<1>3. \A j \in Keys : ~Pending(r, j)
  BY DEF Count, Pending
<1>4. UNCHANGED <<call, rows>>
  BY DEF Count
<1>5. CASE First(n) /\ increments /\ UNCHANGED <<passed, broken>>
           /\ request' = [request EXCEPT ![r] = [pc |-> "expire", key |-> k, status |-> "none"]]
  <2>1. counter[k].count = 0
    <3>1. n = 1
      BY <1>5 DEF First
    <3> QED BY <1>2, <3>1
  <2>2. passed[k] = 0 /\ counter[k].ttl = FALSE /\ \A q \in Requests : ~Pending(q, k)
    <3>1. passed[k] <= 0
      BY <1>1, <2>1 DEF Of
    <3>2. counter[k].ttl = FALSE
      BY <1>1, <1>2, <2>1 DEF Of
    <3>3. ASSUME NEW q \in Requests, Pending(q, k) PROVE FALSE
      <4>1. passed[k] < 0
        BY <1>1, <2>1, <3>3 DEF Of
      <4> QED BY <1>2, <4>1
    <3> QED BY <1>2, <3>1, <3>2, <3>3
  <2>3. /\ counter'[k].count = 1 /\ counter'[k].ttl = FALSE
        /\ counter' \in [Keys -> [count: Nat, ttl: BOOLEAN]]
        /\ \A j \in Keys \ {k} : counter'[j] = counter[j]
    BY <1>2, <1>5, <2>1, <2>2, Incremented
  <2>4. /\ request' \in [Requests -> RequestRow]
        /\ \A j \in Keys \ {k} : ~Pending(r, j)'
        /\ Pending(r, k)'
        /\ \A s \in Requests \ {r}, j \in Keys : Pending(s, j)' <=> Pending(s, j)
    BY <1>2, <1>5, Expires
  <2>5. Of(k)'
    <3>1. \A s \in Requests : Pending(s, k)' => s = r
      BY <2>2, <2>4
    <3>2. passed'[k] = 0
      BY <1>5, <2>2
    <3> QED BY <1>2, <2>3, <2>4, <3>1, <3>2 DEF Of
  <2>6. ASSUME NEW j \in Keys \ {k} PROVE Of(j)'
    <3>1. \A s \in Requests : Pending(s, j)' <=> Pending(s, j)
      BY <1>3, <2>4
    <3> QED BY <1>1, <1>5, <2>3, <3>1, LeftAlone
  <2> QED BY <1>1, <1>4, <1>5, <2>3, <2>4, <2>5, <2>6 DEF TypeOK
<1>6. ASSUME Stepped(r), increments, passed' \in [Keys -> Nat], broken' \subseteq Keys,
             broken \subseteq broken', n = 1 => k \in broken',
             \A j \in Keys \ {k} : passed'[j] = passed[j] /\ (j \in broken => j \in broken'),
             \/ passed'[k] = passed[k]
             \/ passed'[k] = passed[k] + 1 /\ n \in 2..Limit
      PROVE  TypeOK' /\ \A j \in Keys : Of(j)'
  <2>1. Of(k)'
    <3>1. counter[k].count = 0 => k \in broken'
      BY <1>6
    <3> QED BY <1>1, <1>3, <1>6, <3>1, CountedOn
  <2>2. ASSUME NEW j \in Keys \ {k} PROVE Of(j)'
    <3>1. \A s \in Requests : Pending(s, j)' <=> Pending(s, j)
      BY <1>2, <1>3, <1>6, SteppedPending
    <3>2. counter'[j] = counter[j]
      BY <1>2, <1>6, Incremented
    <3> QED BY <1>1, <1>6, <3>1, <3>2, LeftAlone
  <2>3. request' \in [Requests -> RequestRow]
    BY <1>2, <1>6, SteppedType
  <2>4. counter' \in [Keys -> [count: Nat, ttl: BOOLEAN]]
    BY <1>2, <1>6, Incremented
  <2> QED BY <1>1, <1>4, <1>6, <2>1, <2>2, <2>3, <2>4 DEF TypeOK
<1>7. CASE ~First(n) /\ Allows(n) /\ increments /\ Within(r, k) /\ UNCHANGED broken
  <2>1. /\ Stepped(r) /\ passed' \in [Keys -> Nat] /\ passed'[k] = passed[k] + 1
        /\ \A j \in Keys \ {k} : passed'[j] = passed[j]
    BY <1>2, <1>7, WithinFacts
  <2>2. n \in 2..Limit
    <3>1. n # 1 /\ n <= Limit
      BY <1>7 DEF First, Allows
    <3> QED BY <1>2, <3>1
  <2>3. increments /\ broken' = broken
    BY <1>7
  <2>4. n # 1
    BY <2>2
  <2> QED BY <1>2, <1>6, <2>1, <2>2, <2>3, <2>4
<1>8. CASE ~First(n) /\ ~Allows(n) /\ increments /\ TurnedDown(r, k) /\ UNCHANGED <<passed, broken>>
  <2>1. n # 1
    BY <1>8 DEF First
  <2> QED BY <1>2, <1>6, <1>8, <2>1, TurnedDownSteps
<1>9. CASE increments /\ Uncounted(r, k) /\ UNCHANGED passed
           /\ broken' = IF n = 1 THEN broken \union {k} ELSE broken
  <2>1. broken' \subseteq Keys /\ broken \subseteq broken' /\ (n = 1 => k \in broken')
    BY <1>2, <1>9
  <2> QED BY <1>2, <1>6, <1>9, <2>1, UncountedSteps
<1>10. CASE Uncounted(r, k) /\ UNCHANGED <<counter, passed, broken>>
  <2>1. Stepped(r)
    BY <1>10, UncountedSteps
  <2>2. \A s \in Requests, j \in Keys : Pending(s, j)' <=> Pending(s, j)
    BY <1>2, <1>3, <2>1, SteppedPending
  <2>3. request' \in [Requests -> RequestRow]
    BY <1>2, <2>1, SteppedType
  <2>4. \A j \in Keys : Of(j)'
    BY <1>1, <1>10, <2>2, LeftAlone
  <2> QED BY <1>1, <1>4, <1>10, <2>3, <2>4 DEF TypeOK
<1> QED BY <1>5, <1>7, <1>8, <1>9, <1>10 DEF Count

\* EXPIRE: the attempt that set out to set the end sets it, or leaves the
\* counter without.
LEMMA SetTTLStep ==
  ASSUME IInv, NEW r \in Requests, SetTTL(r)
  PROVE  TypeOK' /\ \A j \in Keys : Of(j)'
<1>1. TypeOK /\ \A j \in Keys : Of(j)
  BY CounterByCounter DEF IInv
<1>2. /\ request \in [Requests -> RequestRow]
      /\ counter \in [Keys -> [count: Nat, ttl: BOOLEAN]]
      /\ passed \in [Keys -> Nat]
      /\ broken \subseteq Keys
      /\ Limit \in Nat
  BY <1>1, GatewayAssumption DEF TypeOK
<1>3. request[r].pc = "expire" /\ UNCHANGED <<call, rows>>
  BY DEF SetTTL
<1>4. PICK k \in Keys : request[r].key = k
  BY <1>2, <1>3 DEF RequestRow
<1>5. Pending(r, k) /\ \A j \in Keys \ {k} : ~Pending(r, j)
  BY <1>3, <1>4 DEF Pending
<1>6. /\ passed[k] < Limit /\ passed[k] < counter[k].count
      /\ \A s \in Requests : Pending(s, k) => s = r
      /\ counter[k].count \in Nat /\ passed[k] \in Nat
  BY <1>1, <1>2, <1>4, <1>5 DEF Of
<1>7. ASSUME Stepped(r),
             \/ counter' = counter /\ k \in broken'
             \/ counter' = [counter EXCEPT ![k].ttl = TRUE],
             passed' \in [Keys -> Nat], broken' \subseteq Keys, broken \subseteq broken',
             \A j \in Keys \ {k} : passed'[j] = passed[j],
             passed'[k] \in {passed[k], passed[k] + 1}
      PROVE  TypeOK' /\ \A j \in Keys : Of(j)'
  <2>1. \A s \in Requests, j \in Keys : Pending(s, j)' <=> (s # r /\ Pending(s, j))
    BY <1>2, <1>7, SteppedPending
  <2>2. \A s \in Requests : ~Pending(s, k)'
    BY <1>4, <1>6, <2>1
  <2>3. /\ counter' \in [Keys -> [count: Nat, ttl: BOOLEAN]]
        /\ counter'[k].count = counter[k].count
        /\ \A j \in Keys \ {k} : counter'[j] = counter[j]
        /\ counter'[k].ttl \/ k \in broken'
    BY <1>2, <1>4, <1>7, Timed
  <2>4. passed'[k] <= counter[k].count /\ passed'[k] <= Limit /\ counter[k].count > 0
    BY <1>2, <1>6, <1>7
  <2>5. Of(k)'
    BY <2>2, <2>3, <2>4 DEF Of
  <2>6. ASSUME NEW j \in Keys \ {k} PROVE Of(j)'
    <3>1. \A s \in Requests : Pending(s, j)' <=> Pending(s, j)
      BY <1>5, <2>1
    <3>2. counter'[j] = counter[j] /\ passed'[j] = passed[j] /\ (j \in broken => j \in broken')
      BY <1>7, <2>3
    <3> QED BY <1>1, <3>1, <3>2, LeftAlone
  <2>7. request' \in [Requests -> RequestRow]
    BY <1>2, <1>7, SteppedType
  <2> QED BY <1>1, <1>3, <1>7, <2>3, <2>5, <2>6, <2>7 DEF TypeOK
<1>8. CASE Within(r, k) /\ counter' = [counter EXCEPT ![k].ttl = TRUE] /\ UNCHANGED broken
  <2>1. /\ Stepped(r) /\ passed' \in [Keys -> Nat] /\ passed'[k] = passed[k] + 1
        /\ \A j \in Keys \ {k} : passed'[j] = passed[j]
    BY <1>2, <1>4, <1>8, WithinFacts
  <2> QED BY <1>2, <1>7, <1>8, <2>1
<1>9. CASE /\ Uncounted(r, k) /\ UNCHANGED <<passed, broken>>
           /\ counter' = [counter EXCEPT ![k].ttl = TRUE]
  BY <1>2, <1>7, <1>9, UncountedSteps
<1>10. CASE Uncounted(r, k) /\ broken' = broken \union {k} /\ UNCHANGED <<counter, passed>>
  <2>1. broken' \subseteq Keys /\ broken \subseteq broken' /\ k \in broken'
    BY <1>2, <1>4, <1>10
  <2> QED BY <1>2, <1>7, <1>10, <2>1, UncountedSteps
<1> QED BY <1>4, <1>8, <1>9, <1>10 DEF SetTTL

\* The end of a minute waits for no EXPIRE: the end was set by it.
LEMMA WindowEndsStep ==
  ASSUME IInv, NEW k \in Keys, WindowEnds(k)
  PROVE  TypeOK' /\ \A j \in Keys : Of(j)'
<1>1. TypeOK /\ \A j \in Keys : Of(j)
  BY CounterByCounter DEF IInv
<1>2. /\ counter \in [Keys -> [count: Nat, ttl: BOOLEAN]] /\ passed \in [Keys -> Nat]
      /\ Limit \in Nat /\ counter[k].ttl /\ UNCHANGED <<request, call, rows, broken>>
      /\ counter' = [counter EXCEPT ![k] = NoCounter] /\ passed' = [passed EXCEPT ![k] = 0]
  BY <1>1, GatewayAssumption DEF TypeOK, WindowEnds
<1>3. NoCounter \in [count: Nat, ttl: BOOLEAN] /\ NoCounter.count = 0 /\ NoCounter.ttl = FALSE
  BY DEF NoCounter
<1>4. /\ counter' \in [Keys -> [count: Nat, ttl: BOOLEAN]] /\ passed' \in [Keys -> Nat]
      /\ counter'[k].count = 0 /\ counter'[k].ttl = FALSE /\ passed'[k] = 0
      /\ \A j \in Keys \ {k} : counter'[j] = counter[j] /\ passed'[j] = passed[j]
  BY <1>2, <1>3
<1>5. \A s \in Requests, j \in Keys : Pending(s, j)' <=> Pending(s, j)
  BY <1>2 DEF Pending
<1>6. Of(k)'
  <2>1. \A s \in Requests : ~Pending(s, k)
    BY <1>1, <1>2 DEF Of
  <2> QED BY <1>2, <1>4, <1>5, <2>1 DEF Of
<1>7. ASSUME NEW j \in Keys \ {k} PROVE Of(j)'
  BY <1>1, <1>2, <1>4, <1>5, LeftAlone
<1> QED BY <1>1, <1>2, <1>4, <1>6, <1>7 DEF TypeOK

\* The steps of a request that waits for no EXPIRE and touches no counter.
LEMMA ElsewhereStep ==
  ASSUME IInv, NEW r \in Requests, Handle(r) \/ Audit(r)
  PROVE  TypeOK' /\ \A j \in Keys : Of(j)'
<1>1. TypeOK /\ \A j \in Keys : Of(j)
  BY CounterByCounter DEF IInv
<1>2. /\ request \in [Requests -> RequestRow] /\ rows \in [Calls -> Nat]
      /\ request[r] \in RequestRow
  BY <1>1 DEF TypeOK
<1>3. UNCHANGED <<counter, call, passed, broken>> /\ request[r].pc # "expire"
  BY DEF Handle, Audit
<1>4. request' \in [Requests -> RequestRow] /\ \A s \in Requests, j \in Keys : Pending(s, j)' <=> Pending(s, j)
  <2>1. CASE Stepped(r)
    <3>1. \A s \in Requests, j \in Keys : Pending(s, j)' <=> (s # r /\ Pending(s, j))
      BY <1>2, <2>1, SteppedPending
    <3>2. \A j \in Keys : ~Pending(r, j)
      BY <1>3 DEF Pending
    <3> QED BY <1>2, <2>1, <3>1, <3>2, SteppedType
  <2>2. CASE Audit(r)
    <3> DEFINE row == [request[r] EXCEPT !.pc = "done"]
    <3>1. row \in RequestRow /\ row.pc # "expire"
      BY <1>2, <1>3 DEF RequestRow
    <3>2. request' = [request EXCEPT ![r] = row]
      BY <2>2, Zenon DEF Audit
    <3> HIDE DEF row
    <3> QED BY <1>2, <1>3, <3>1, <3>2 DEF Pending
  <2>3. CASE Handle(r)
    <3>1. PICK status \in Statuses : Goes(r, "audit", status)
      BY <2>3 DEF Handle, Statuses
    <3>2. Stepped(r)
      BY <3>1 DEF Stepped, PCs
    <3> QED BY <2>1, <3>2
  <2> QED BY <2>2, <2>3
<1>5. rows' \in [Calls -> Nat]
  <2>1. rows' = rows \/ rows' = [rows EXCEPT ![r[1]] = rows[r[1]] + 1]
    BY DEF Handle, Audit
  <2>2. r[1] \in Calls
    BY DEF Requests
  <2> QED BY <1>2, <2>1, <2>2
<1>6. \A j \in Keys : Of(j)'
  BY <1>1, <1>3, <1>4, LeftAlone
<1> QED BY <1>1, <1>3, <1>4, <1>5, <1>6 DEF TypeOK

\* A canceled attempt leaves the counter it was to give an end without one.
LEMMA DropStep ==
  ASSUME IInv, NEW r \in Requests, Drop(r)
  PROVE  TypeOK' /\ \A j \in Keys : Of(j)'
<1>1. TypeOK /\ \A j \in Keys : Of(j)
  BY CounterByCounter DEF IInv
<1>2. /\ request \in [Requests -> RequestRow] /\ broken \subseteq Keys /\ request[r] \in RequestRow
      /\ UNCHANGED <<counter, call, rows, passed>>
  BY <1>1 DEF TypeOK, Drop
<1>3. Stepped(r)
  BY DEF Drop, Stepped, PCs, Statuses
<1>4. broken' \subseteq Keys /\ broken \subseteq broken' /\ \A j \in Keys : Pending(r, j) => j \in broken'
  <2>1. request[r].pc = "expire" => request[r].key \in Keys
    BY <1>2 DEF RequestRow
  <2> QED BY <1>2, <2>1 DEF Drop, Pending
<1>5. request' \in [Requests -> RequestRow]
  BY <1>2, <1>3, SteppedType
<1>6. ASSUME NEW j \in Keys PROVE Of(j)'
  <2>1. \A s \in Requests : Pending(s, j)' <=> (s # r /\ Pending(s, j))
    BY <1>2, <1>3, SteppedPending
  <2> QED BY <1>1, <1>2, <1>4, <2>1 DEF Of
<1> QED BY <1>1, <1>2, <1>4, <1>5, <1>6 DEF TypeOK

\* What the agent does touches no counter, and takes no EXPIRE from one.
LEMMA AgentStepKeeps ==
  ASSUME IInv, NEW c \in Calls, AgentStep(c)
  PROVE  Fresh' /\ \A j \in Keys : Of(j)'
<1>1. TypeOK /\ Fresh /\ \A j \in Keys : Of(j)
  BY CounterByCounter DEF IInv
<1>2. /\ request \in [Requests -> RequestRow] /\ call \in [Calls -> CallRow]
      /\ call[c].attempt \in 0..MaxAttempts
  BY <1>1 DEF TypeOK, CallRow
<1>3. ASSUME Attempt(c)
      PROVE  Fresh' /\ UNCHANGED <<counter, passed, broken>>
             /\ \A s \in Requests, j \in Keys : Pending(s, j)' <=> Pending(s, j)
  <2> DEFINE new == <<c, call[c].attempt + 1>>
  <2>1. new \in Requests /\ request[new].pc = "none"
    <3>1. new \in Requests
      BY <1>2, <1>3, GatewayAssumption DEF Attempt, AttemptsLeft, Requests
    <3> QED BY <1>1, <1>2, <3>1 DEF Fresh
  <2>2. request'[new].pc = "auth" /\ \A s \in Requests \ {new} :
          request'[s].pc = request[s].pc /\ request'[s].key = request[s].key
    <3>1. request'[new] = NewRequest
      BY <1>3, <2>1 DEF Attempt
    <3>2. ASSUME NEW s \in Requests \ {new} PROVE request'[s].pc = request[s].pc /\ request'[s].key = request[s].key
      <4>1. request'[s] = request[s] \/ request'[s] = [request[s] EXCEPT !.status = "none"]
        BY <1>3 DEF Attempt
      <4> QED BY <1>2, <4>1 DEF RequestRow
    <3> QED BY <3>1, <3>2 DEF NewRequest
  <2>3. call'[c].attempt = call[c].attempt + 1 /\ \A d \in Calls \ {c} : call'[d] = call[d]
    BY <1>2, <1>3 DEF Attempt
  <2>4. ASSUME NEW s \in Requests, s[2] > call'[s[1]].attempt PROVE request'[s].pc = "none"
    <3>1. s[1] \in Calls /\ s[2] \in Nat /\ s # new
      BY <1>2, <2>3, <2>4, GatewayAssumption DEF Requests
    <3>2. s[2] > call[s[1]].attempt
      BY <1>2, <2>3, <2>4, <3>1
    <3> QED BY <1>1, <2>2, <3>1, <3>2 DEF Fresh
  <2>5. \A s \in Requests, j \in Keys : Pending(s, j)' <=> Pending(s, j)
    BY <2>1, <2>2 DEF Pending
  <2> QED BY <1>3, <2>4, <2>5 DEF Attempt, Fresh
<1>4. ASSUME NEW result, call[c].pc = "sent", End(c, result)
      PROVE  Fresh' /\ UNCHANGED <<counter, passed, broken>>
             /\ \A s \in Requests, j \in Keys : Pending(s, j)' <=> Pending(s, j)
  <2>1. \A s \in Requests : request'[s].pc = request[s].pc /\ request'[s].key = request[s].key
    BY <1>2, <1>4 DEF End, RequestRow
  <2>2. \A d \in Calls : call'[d].attempt = call[d].attempt
    BY <1>2, <1>4 DEF End, CallRow
  <2>3. Fresh'
    BY <1>1, <2>1, <2>2 DEF Fresh, Requests
  <2> QED BY <1>4, <2>1, <2>3 DEF End, Pending
<1>5. Fresh' /\ UNCHANGED <<counter, passed, broken>>
      /\ \A s \in Requests, j \in Keys : Pending(s, j)' <=> Pending(s, j)
  BY <1>3, <1>4 DEF AgentStep, Start, Receive, Lose, OrderAgain
<1> QED BY <1>1, <1>5, LeftAlone

\* A step of a request the server knows leaves the others as they are.
LEMMA ServerFresh ==
  ASSUME IInv, NEW r \in Requests, ServerStep(r) \/ Drop(r)
  PROVE  Fresh'
<1>1. call' = call /\ request[r].pc # "none"
  BY DEF ServerStep, Count, SetTTL, Handle, Audit, Drop
<1>2. \A s \in Requests \ {r} : request'[s] = request[s]
  <2>1. CASE \E k : Count(r, k)
    BY <2>1 DEF IInv, TypeOK, Count, Within, Uncounted, LetThrough, TurnedDown, Goes
  <2>2. CASE SetTTL(r)
    BY <2>2 DEF IInv, TypeOK, SetTTL, Within, Uncounted, LetThrough, TurnedDown, Goes
  <2>3. CASE Handle(r) \/ Audit(r) \/ Drop(r)
    BY <2>3 DEF IInv, TypeOK, Handle, Audit, Drop, Goes
  <2> QED BY <2>1, <2>2, <2>3 DEF ServerStep
<1> QED BY <1>1, <1>2 DEF IInv, Fresh

-----------------------------------------------------------------------------
(***************************************************************************)
(* The theorems                                                            *)
(***************************************************************************)
LEMMA InitInv == Init => IInv
<1> SUFFICES ASSUME Init PROVE IInv
  OBVIOUS
<1>1. \A r \in Requests : request[r] = NoRequest
  BY DEF Init
<1>2. \A k \in Keys : counter[k] = NoCounter /\ passed[k] = 0
  BY DEF Init
<1>3. NoRequest.pc = "none" /\ NoCounter.count = 0 /\ NoCounter.ttl = FALSE /\ 0 <= Limit
  BY GatewayAssumption DEF NoRequest, NoCounter
<1> QED BY <1>1, <1>2, <1>3, InitType
  DEF IInv, Fresh, PendingIsFirst, PassedWereCounted, EveryMinuteEnds, Pending

LEMMA StepInv == IInv /\ [Next]_vars => IInv'
<1> SUFFICES ASSUME IInv, [Next]_vars PROVE IInv'
  OBVIOUS
<1>1. TypeOK /\ Fresh /\ \A k \in Keys : Of(k)
  BY CounterByCounter DEF IInv
<1>2. ASSUME NEW c \in Calls, AgentStep(c) PROVE TypeOK' /\ Fresh' /\ \A k \in Keys : Of(k)'
  BY <1>1, <1>2, AgentType, AgentStepKeeps
<1>3. ASSUME NEW r \in Requests, ServerStep(r) PROVE TypeOK' /\ Fresh' /\ \A k \in Keys : Of(k)'
  <2>1. Fresh'
    BY <1>3, ServerFresh
  <2>2. AgentAuth(r) \subseteq Keys
    BY DEF AgentAuth, Keys
  <2>3. CASE \E k \in AgentAuth(r) : Count(r, k)
    BY <2>1, <2>2, <2>3, CountStep
  <2>4. CASE SetTTL(r)
    BY <2>1, <2>4, SetTTLStep
  <2>5. CASE Handle(r) \/ Audit(r)
    BY <2>1, <2>5, ElsewhereStep
  <2> QED BY <1>3, <2>3, <2>4, <2>5 DEF ServerStep
<1>4. ASSUME NEW r \in Requests, Drop(r) PROVE TypeOK' /\ Fresh' /\ \A k \in Keys : Of(k)'
  BY <1>4, DropStep, ServerFresh
<1>5. ASSUME NEW k \in Keys, WindowEnds(k) PROVE TypeOK' /\ Fresh' /\ \A j \in Keys : Of(j)'
  <2>1. Fresh'
    BY <1>1, <1>5 DEF WindowEnds, Fresh
  <2> QED BY <1>5, <2>1, WindowEndsStep
<1>6. ASSUME UNCHANGED vars PROVE TypeOK' /\ Fresh' /\ \A k \in Keys : Of(k)'
  <2>1. \A s \in Requests, k \in Keys : Pending(s, k)' <=> Pending(s, k)
    BY <1>6 DEF vars, server, Pending
  <2> QED BY <1>1, <1>6, <2>1, LeftAlone DEF vars, server, TypeOK, Fresh
<1>7. TypeOK' /\ Fresh' /\ \A k \in Keys : Of(k)'
  BY <1>2, <1>3, <1>4, <1>5, <1>6 DEF Next
<1>8. (PendingIsFirst /\ PassedWereCounted /\ EveryMinuteEnds)'
  <2>1. PendingIsFirst'
    BY <1>7 DEF PendingIsFirst, Of
  <2>2. PassedWereCounted'
    BY <1>7 DEF PassedWereCounted, Of
  <2>3. EveryMinuteEnds'
    BY <1>7 DEF EveryMinuteEnds, Of, Pending
  <2> QED BY <2>1, <2>2, <2>3
<1> QED BY <1>7, <1>8 DEF IInv

\* The variables of the gateway keep their types.
THEOREM TypeCorrect == Spec => []TypeOK
<1>1. IInv => TypeOK
  BY DEF IInv
<1> QED BY <1>1, InitInv, StepInv, PTL DEF Spec

\* No minute lets more attempts through than the limit, whatever falls between
\* an INCR and its EXPIRE (Client.Allow).
THEOREM LimitHolds == Spec => []AdmittedWithinLimit
<1>1. IInv => AdmittedWithinLimit
  BY DEF IInv, PassedWereCounted, AdmittedWithinLimit
<1> QED BY <1>1, InitInv, StepInv, PTL DEF Spec

\* A counter without an end is one that was begun without an EXPIRE, or is
\* about to get it (Client.Allow).
THEOREM MinutesEnd == Spec => []EveryMinuteEnds
<1>1. IInv => EveryMinuteEnds
  BY DEF IInv
<1> QED BY <1>1, InitInv, StepInv, PTL DEF Spec

-----------------------------------------------------------------------------
(***************************************************************************)
(* What the agent is told took effect                                      *)
(***************************************************************************)
\* The attempts at a call that a handler is through with: none makes a row again.
Handled(c) == {n \in 1..MaxAttempts : request[<<c, n>>].pc \in {"audit", "done"}}

\* Success is answered when the row is there, and every row has an attempt.
EffectOf(c) ==
  /\ \A n \in 1..MaxAttempts : request[<<c, n>>].status = "ok" => rows[c] > 0
  /\ call[c].result = "ok" => rows[c] > 0
  /\ rows[c] <= IF c \in Heartbeats THEN Cardinality(Handled(c)) ELSE 1

Effect == \A c \in Calls : EffectOf(c)

LEMMA HandledIsFinite ==
  ASSUME NEW c \in Calls
  PROVE  IsFiniteSet(Handled(c)) /\ Cardinality(Handled(c)) \in Nat
<1>1. IsFiniteSet(1..MaxAttempts)
  BY GatewayAssumption, FS_Interval
<1>2. IsFiniteSet(Handled(c))
  BY <1>1, FS_Subset DEF Handled
<1> QED BY <1>2, FS_CardinalityType

\* Only attempts that were made were handled.
LEMMA EffectIsSuccess ==
  ASSUME IInv, Effect
  PROVE  SuccessTookEffect
<1>1. ASSUME NEW c \in Calls
      PROVE  /\ call[c].result = "ok" => rows[c] > 0
             /\ rows[c] <= IF c \in Heartbeats THEN call[c].attempt ELSE 1
  <2>1. EffectOf(c)
    BY DEF Effect
  <2>2. call[c].attempt \in 0..MaxAttempts /\ rows[c] \in Nat
    BY DEF IInv, TypeOK, CallRow
  <2>3. ASSUME NEW n \in Handled(c) PROVE n \in 1..call[c].attempt
    <3>1. n \in 1..MaxAttempts /\ request[<<c, n>>].pc # "none" /\ <<c, n>> \in Requests
      BY DEF Handled, Requests
    <3>2. ~(n > call[c].attempt)
      BY <3>1 DEF IInv, Fresh
    <3> QED BY <2>2, <3>1, <3>2, GatewayAssumption
  <2>4. IsFiniteSet(1..call[c].attempt) /\ Cardinality(1..call[c].attempt) = call[c].attempt
    <3>1. PICK n \in Nat : n = call[c].attempt
      BY <2>2, GatewayAssumption
    <3>2. IsFiniteSet(1..n) /\ Cardinality(1..n) = IF 1 > n THEN 0 ELSE n - 1 + 1
      BY FS_Interval
    <3> QED BY <3>1, <3>2
  <2>5. Cardinality(Handled(c)) <= call[c].attempt
    BY <2>3, <2>4, FS_Subset
  <2>6. Cardinality(Handled(c)) \in Nat
    BY HandledIsFinite
  <2>7. rows[c] <= IF c \in Heartbeats THEN call[c].attempt ELSE 1
    BY <2>1, <2>2, <2>5, <2>6 DEF EffectOf
  <2> QED BY <2>1, <2>7 DEF EffectOf
<1> QED BY <1>1 DEF SuccessTookEffect

\* A step that makes no row for c and answers no success that was not answered.
LEMMA EffectStays ==
  ASSUME IInv, NEW c \in Calls, EffectOf(c), rows'[c] = rows[c],
         \A r \in Requests : /\ request'[r].status = "ok" => request[r].status = "ok"
                             /\ request[r].pc \in {"audit", "done"} =>
                                  request'[r].pc \in {"audit", "done"},
         call'[c].result = "ok" => rows[c] > 0
  PROVE  EffectOf(c)'
<1>1. \A n \in 1..MaxAttempts : <<c, n>> \in Requests
  BY DEF Requests
<1>2. \A n \in 1..MaxAttempts : request'[<<c, n>>].status = "ok" => rows'[c] > 0
  BY <1>1 DEF EffectOf
<1>3. Handled(c) \subseteq Handled(c)'
  BY <1>1 DEF Handled
<1>4. IsFiniteSet(Handled(c)') /\ Cardinality(Handled(c)') \in Nat
  <2>1. IsFiniteSet(1..MaxAttempts)
    BY GatewayAssumption, FS_Interval
  <2>2. Handled(c)' \subseteq 1..MaxAttempts
    BY DEF Handled
  <2>3. IsFiniteSet(Handled(c)')
    BY <2>1, <2>2, FS_Subset
  <2> QED BY <2>3, FS_CardinalityType
<1>5. Cardinality(Handled(c)) <= Cardinality(Handled(c)')
  BY <1>3, <1>4, FS_Subset
<1>6. rows[c] \in Nat /\ Cardinality(Handled(c)) \in Nat
  BY HandledIsFinite DEF IInv, TypeOK
<1>7. rows'[c] <= IF c \in Heartbeats THEN Cardinality(Handled(c)') ELSE 1
  BY <1>4, <1>5, <1>6 DEF EffectOf
<1> QED BY <1>2, <1>7 DEF EffectOf

\* Before and after the handler nothing is a success yet.
LEMMA QuietSteps ==
  ASSUME IInv, NEW r \in Requests,
         (\E k \in Keys : Count(r, k)) \/ SetTTL(r) \/ Audit(r) \/ Drop(r)
  PROVE  /\ UNCHANGED <<rows, call>>
         /\ \A s \in Requests : /\ request'[s].status = "ok" => request[s].status = "ok"
                                /\ request[s].pc \in {"audit", "done"} =>
                                     request'[s].pc \in {"audit", "done"}
<1>1. request \in [Requests -> RequestRow] /\ request[r] \in RequestRow
  BY DEF IInv, TypeOK
<1>2. UNCHANGED <<rows, call>>
  BY DEF Count, SetTTL, Audit, Drop
<1>3. ASSUME NEW pc, NEW status \in {"none", "error"}, Goes(r, pc, status),
             pc = "done" \/ request[r].pc \in {"auth", "expire"}
      PROVE  \A s \in Requests : /\ request'[s].status = "ok" => request[s].status = "ok"
                                 /\ request[s].pc \in {"audit", "done"} =>
                                      request'[s].pc \in {"audit", "done"}
  BY <1>1, <1>3 DEF Goes
<1>4. CASE Audit(r)
  BY <1>1, <1>4 DEF Audit, RequestRow
<1>5. CASE Drop(r)
  BY <1>3, <1>5 DEF Drop
<1>6. ASSUME NEW k, request[r].pc \in {"auth", "expire"},
             LetThrough(r, k) \/ TurnedDown(r, k) \/ Uncounted(r, k) \/ Within(r, k)
      PROVE  \A s \in Requests : /\ request'[s].status = "ok" => request[s].status = "ok"
                                 /\ request[s].pc \in {"audit", "done"} =>
                                      request'[s].pc \in {"audit", "done"}
  BY <1>3, <1>6 DEF LetThrough, TurnedDown, Uncounted, Within
<1>7. ASSUME NEW k \in Keys, Count(r, k)
      PROVE  \A s \in Requests : /\ request'[s].status = "ok" => request[s].status = "ok"
                                 /\ request[s].pc \in {"audit", "done"} =>
                                      request'[s].pc \in {"audit", "done"}
  <2>1. CASE request' = [request EXCEPT ![r] = [pc |-> "expire", key |-> k, status |-> "none"]]
    BY <1>1, <1>7, <2>1 DEF Count
  <2> QED BY <1>6, <1>7, <2>1 DEF Count
<1>8. CASE SetTTL(r)
  BY <1>6, <1>8 DEF SetTTL
<1> QED BY <1>2, <1>4, <1>5, <1>7, <1>8

\* A handler makes a row, or finds the one there is, before it answers success;
\* and it is through with the attempt.
LEMMA HandleKeeps ==
  ASSUME IInv, NEW r \in Requests, Handle(r), Effect
  PROVE  Effect'
<1>1. PICK c \in Calls, m \in 1..MaxAttempts : r = <<c, m>>
  BY DEF Requests
<1>2. /\ request \in [Requests -> RequestRow] /\ request[r].pc = "handler" /\ UNCHANGED call
      /\ rows \in [Calls -> Nat] /\ r[1] = c
  BY <1>1 DEF IInv, TypeOK, Handle
<1>3. PICK status \in {"ok", "error"} :
        /\ Goes(r, "audit", status)
        /\ \/ NewRow(c) /\ rows' = [rows EXCEPT ![c] = @ + 1]
           \/ (status = "ok" => ~NewRow(c)) /\ UNCHANGED rows
  BY <1>2 DEF Handle
<1>4. /\ request'[r].pc = "audit" /\ request'[r].status \in {"none", status}
      /\ \A s \in Requests \ {r} : request'[s] = request[s]
  BY <1>2, <1>3 DEF Goes
<1>5. ASSUME NEW d \in Calls \ {c} PROVE EffectOf(d)'
  <2>1. rows'[d] = rows[d]
    BY <1>2, <1>3
  <2>2. \A n \in 1..MaxAttempts : request'[<<d, n>>] = request[<<d, n>>]
    BY <1>1, <1>4 DEF Requests
  <2>3. Handled(d)' = Handled(d)
    BY <2>2 DEF Handled
  <2> QED BY <1>2, <2>1, <2>2, <2>3 DEF Effect, EffectOf
<1>6. EffectOf(c) /\ rows[c] \in Nat /\ rows'[c] \in {rows[c], rows[c] + 1}
  BY <1>2, <1>3 DEF Effect
<1>7. status = "ok" => rows'[c] > 0
  <2>1. CASE NewRow(c) /\ rows' = [rows EXCEPT ![c] = @ + 1]
    BY <1>2, <1>6, <2>1
  <2>2. CASE (status = "ok" => ~NewRow(c)) /\ UNCHANGED rows
    BY <1>6, <2>2 DEF NewRow
  <2> QED BY <1>3, <2>1, <2>2
<1>8. \A n \in 1..MaxAttempts : request'[<<c, n>>].status = "ok" => rows'[c] > 0
  <2>1. ASSUME NEW n \in 1..MaxAttempts, n # m PROVE request'[<<c, n>>] = request[<<c, n>>]
    BY <1>1, <1>4, <2>1 DEF Requests
  <2> QED BY <1>1, <1>4, <1>6, <1>7, <2>1 DEF EffectOf
<1>9. call'[c].result = "ok" => rows'[c] > 0
  BY <1>2, <1>6 DEF EffectOf
<1>10. rows'[c] <= IF c \in Heartbeats THEN Cardinality(Handled(c)') ELSE 1
  <2>1. CASE c \in Heartbeats
    <3>1. m \notin Handled(c) /\ IsFiniteSet(Handled(c)) /\ Cardinality(Handled(c)) \in Nat
      BY <1>1, <1>2, HandledIsFinite DEF Handled
    <3>2. Handled(c)' = Handled(c) \cup {m}
      BY <1>1, <1>4 DEF Handled, Requests
    <3>3. Cardinality(Handled(c)') = Cardinality(Handled(c)) + 1
      BY <3>1, <3>2, FS_AddElement
    <3> QED BY <1>6, <2>1, <3>1, <3>3 DEF EffectOf
  <2>2. CASE c \notin Heartbeats
    <3>1. rows[c] <= 1 /\ (NewRow(c) => rows[c] = 0)
      BY <1>6, <2>2 DEF EffectOf, NewRow
    <3>2. rows'[c] = rows[c] \/ NewRow(c)
      BY <1>3
    <3> QED BY <1>6, <2>2, <3>1, <3>2
  <2> QED BY <2>1, <2>2
<1>11. EffectOf(c)'
  BY <1>8, <1>9, <1>10 DEF EffectOf
<1> QED BY <1>5, <1>11 DEF Effect

\* The agent asks anew, gives up, or takes the answer.
LEMMA AgentStepEffect ==
  ASSUME IInv, NEW c \in Calls, AgentStep(c), Effect
  PROVE  Effect'
<1>1. /\ request \in [Requests -> RequestRow] /\ call \in [Calls -> CallRow]
      /\ call[c].attempt \in 0..MaxAttempts /\ MaxAttempts \in Nat
  BY GatewayAssumption DEF IInv, TypeOK, CallRow
<1>2. ASSUME Attempt(c)
      PROVE  Effect'
  <2>1. call[c].attempt + 1 \in 1..MaxAttempts
    BY <1>1, <1>2 DEF Attempt, AttemptsLeft
  <2>2. PICK new \in Requests : new = <<c, call[c].attempt + 1>>
    BY <2>1 DEF Requests
  <2>3. request[new].pc = "none"
    BY <1>1, <2>1, <2>2 DEF IInv, Fresh
  <2>4. ASSUME NEW s \in Requests
        PROVE  /\ request'[s].status = "ok" => request[s].status = "ok"
               /\ request[s].pc \in {"audit", "done"} => request'[s].pc \in {"audit", "done"}
    <3>1. CASE s = new
      BY <1>2, <2>2, <2>3, <3>1 DEF Attempt, NewRequest
    <3>2. CASE s # new
      <4>1. request'[s] = request[s] \/ request'[s] = [request[s] EXCEPT !.status = "none"]
        BY <1>2, <2>2, <3>2 DEF Attempt
      <4> QED BY <1>1, <4>1 DEF RequestRow
    <3> QED BY <3>1, <3>2
  <2>5. ASSUME NEW d \in Calls PROVE call'[d].result = "ok" => rows[d] > 0
    BY <1>1, <1>2 DEF Attempt, Effect, EffectOf
  <2>6. rows' = rows
    BY <1>2 DEF Attempt
  <2> QED BY <2>4, <2>5, <2>6, EffectStays DEF Effect
<1>3. ASSUME NEW result, End(c, result), result = "ok" => rows[c] > 0
      PROVE  Effect'
  <2>1. ASSUME NEW s \in Requests
        PROVE  /\ request'[s].status = "ok" => request[s].status = "ok"
               /\ request[s].pc \in {"audit", "done"} => request'[s].pc \in {"audit", "done"}
    BY <1>1, <1>3 DEF End, RequestRow
  <2>2. ASSUME NEW d \in Calls PROVE call'[d].result = "ok" => rows[d] > 0
    BY <1>1, <1>3 DEF End, Effect, EffectOf
  <2>3. rows' = rows
    BY <1>3 DEF End
  <2> QED BY <2>1, <2>2, <2>3, EffectStays DEF Effect
<1>4. CASE Receive(c)
  <2>1. call[c].attempt \in 1..MaxAttempts
    BY <1>1, <1>4 DEF Receive, IInv, TypeOK
  <2>2. request[Current(c)].status = "ok" => rows[c] > 0
    BY <2>1 DEF Effect, EffectOf, Current
  <2> QED BY <1>3, <1>4, <2>2 DEF Receive
<1>5. CASE Lose(c)
  BY <1>2, <1>3, <1>5 DEF Lose
<1> QED BY <1>2, <1>4, <1>5 DEF AgentStep, Start, OrderAgain

LEMMA InitEffect == Init => Effect
<1> SUFFICES ASSUME Init PROVE Effect
  OBVIOUS
<1>1. ASSUME NEW c \in Calls PROVE EffectOf(c)
  <2>1. \A n \in 1..MaxAttempts : request[<<c, n>>] = NoRequest
    BY DEF Init, Requests
  <2>2. call[c] = NoCall /\ rows[c] = 0 /\ Cardinality(Handled(c)) \in Nat
    BY HandledIsFinite DEF Init
  <2>3. NoRequest.status # "ok" /\ NoCall.result # "ok"
    BY DEF NoRequest, NoCall
  <2> QED BY <2>1, <2>2, <2>3 DEF EffectOf
<1> QED BY <1>1 DEF Effect

LEMMA StepEffect == IInv /\ Effect /\ [Next]_vars => Effect'
<1> SUFFICES ASSUME IInv, Effect, [Next]_vars PROVE Effect'
  OBVIOUS
<1>1. ASSUME NEW r \in Requests, ServerStep(r) \/ Drop(r) PROVE Effect'
  <2>1. CASE Handle(r)
    BY <2>1, HandleKeeps
  <2>2. CASE (\E k \in Keys : Count(r, k)) \/ SetTTL(r) \/ Audit(r) \/ Drop(r)
    BY <2>2, QuietSteps, EffectStays DEF Effect, EffectOf
  <2>3. AgentAuth(r) \subseteq Keys
    BY DEF AgentAuth, Keys
  <2> QED BY <1>1, <2>1, <2>2, <2>3 DEF ServerStep
<1>2. CASE (\E k \in Keys : WindowEnds(k)) \/ UNCHANGED vars
  <2>1. UNCHANGED <<request, call, rows>>
    BY <1>2 DEF WindowEnds, vars, server
  <2> QED BY <2>1 DEF Effect, EffectOf, Handled
<1> QED BY <1>1, <1>2, AgentStepEffect DEF Next

\* A call that was answered with success has a row, an order never makes a second
\* one however often it is sent again, and no attempt at a heartbeat makes two,
\* whatever is lost on the way (ArenaClient, agentAuth, the handlers).  It does not
\* say that the order was placed: a replay is answered by whatever row it finds.
THEOREM SuccessIsReal == Spec => []SuccessTookEffect
<1>1. IInv /\ Effect => SuccessTookEffect
  BY EffectIsSuccess
<1>2. Init => IInv /\ Effect
  BY InitInv, InitEffect
<1>3. (IInv /\ Effect) /\ [Next]_vars => (IInv /\ Effect)'
  BY StepInv, StepEffect
<1> QED BY <1>1, <1>2, <1>3, PTL DEF Spec
=============================================================================
