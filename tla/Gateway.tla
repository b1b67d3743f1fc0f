------------------------------ MODULE Gateway ------------------------------
(***************************************************************************)
(* The way of a call from the agent's SDK to a handler and back.  The SDK  *)
(* gives a heartbeat several attempts and an order one; the agent may give *)
(* an order another one itself, under the same client_order_id.  The       *)
(* server knows the agent by its token and counts the attempt in Redis,    *)
(* where INCR and EXPIRE are two commands and either may fail; a call that *)
(* nobody waits for any more may end at any statement.                     *)
(*                                                                         *)
(* Left out: what the handlers check (RoundControl, Admission) and do      *)
(* (OrderLifecycle), the routes that only read, and a Redis that forgets.  *)
(***************************************************************************)
EXTENDS Integers

CONSTANTS
  Calls,        \* the calls of the agent
  Heartbeats,   \* those that are heartbeats; the others are orders
  MaxAttempts,  \* attempts at a call, 1 + max_retries
  Limit,        \* attempts per minute and counter
  FailClosed    \* whether to refuse what could not be counted

ASSUME GatewayAssumption ==
  /\ Heartbeats \subseteq Calls
  /\ MaxAttempts \in Nat \ {0}
  /\ Limit \in Nat \ {0}
  /\ FailClosed \in BOOLEAN

Requests == Calls \X (1..MaxAttempts)
Keys     == {"order", "heartbeat", "auth_failure"}

VARIABLES
  counter,  \* the counters in Redis
  request,  \* the attempts, as the server sees them
  call,     \* the calls, as the agent sees them
  rows,     \* the heartbeats or orders a call has made, by call
  passed,   \* history: the attempts found within the limit of the counter
  broken    \* history: the counters that were begun without an EXPIRE

server == <<counter, request, rows, passed, broken>>
vars   == <<server, call>>

\* status: what the server answers; key: the counter that awaits its EXPIRE.
RequestRow ==
  {q \in [pc: {"none", "auth", "expire", "handler", "audit", "done"},
          key: Keys \union {"none"}, status: {"none", "ok", "error"}] :
     q.pc = "expire" <=> q.key # "none"}

CallRow == [pc: {"idle", "sent", "ended"}, attempt: 0..MaxAttempts,
            result: {"none", "ok", "error", "unknown"}]

TypeOK ==
  /\ counter \in [Keys -> [count: Nat, ttl: BOOLEAN]]
  /\ request \in [Requests -> RequestRow]
  /\ call \in [Calls -> CallRow]
  /\ \A c \in Calls : call[c].pc = "sent" => call[c].attempt # 0
  /\ rows \in [Calls -> Nat]
  /\ passed \in [Keys -> Nat]
  /\ broken \subseteq Keys

-----------------------------------------------------------------------------
(***************************************************************************)
(* The agent                                                               *)
(***************************************************************************)
NoRequest  == [pc |-> "none", key |-> "none", status |-> "none"]
NewRequest == [pc |-> "auth", key |-> "none", status |-> "none"]
NoCall     == [pc |-> "idle", attempt |-> 0, result |-> "none"]
NoCounter  == [count |-> 0, ttl |-> FALSE]

\* The attempt the agent waits for, if it does.
Current(c) == <<c, call[c].attempt>>
Waited(r)  == r = Current(r[1]) /\ call[r[1]].pc = "sent"

\* Variant, for checking the checks: one attempt too many.
AttemptsLeftOff(c) == call[c].attempt <= MaxAttempts

AttemptsLeft(c) == call[c].attempt < MaxAttempts

\* The connection of the attempt before is closed.
Attempt(c) ==
  /\ AttemptsLeft(c)
  /\ call' = [call EXCEPT ![c] = [pc |-> "sent", attempt |-> @.attempt + 1, result |-> "none"]]
  /\ request' = [r \in Requests |->
       IF r = <<c, call[c].attempt + 1>> THEN NewRequest
       ELSE IF r = Current(c) THEN [request[r] EXCEPT !.status = "none"] ELSE request[r]]
  /\ UNCHANGED <<counter, rows, passed, broken>>

\* An agent does one thing after the other.
Start(c) == /\ \A d \in Calls : call[d].pc # "sent"
            /\ call[c].pc = "idle"
            /\ Attempt(c)

End(c, result) ==
  /\ call' = [call EXCEPT ![c] = [pc |-> "ended", attempt |-> @.attempt, result |-> result]]
  /\ request' = [request EXCEPT ![Current(c)].status = "none"]
  /\ UNCHANGED <<counter, rows, passed, broken>>

\* The answer may be on its way before the server has written its audit row.
Receive(c) ==
  /\ call[c].pc = "sent"
  /\ request[Current(c)].status # "none"
  /\ End(c, request[Current(c)].status)

\* Heartbeats are tried again after a network error or a timeout.  (After 429
\* only if the server said when, which it never does.)
RetryAllowed(c) == c \in Heartbeats

\* No answer comes, or none comes in time.
Lose(c) ==
  /\ call[c].pc = "sent"
  /\ \/ RetryAllowed(c) /\ Attempt(c)
     \/ /\ ~(RetryAllowed(c) /\ AttemptsLeft(c))
        /\ End(c, "unknown")

\* The agent orders again, with the client_order_id of the call that failed.
OrderAgain(c) ==
  /\ c \notin Heartbeats
  /\ \A d \in Calls : call[d].pc # "sent"
  /\ call[c].pc = "ended" /\ call[c].result = "unknown"
  /\ Attempt(c)

-----------------------------------------------------------------------------
(***************************************************************************)
(* The server                                                              *)
(***************************************************************************)
\* The counter of an attempt.  One whose token is unknown - the operator may
\* have rotated it - is counted by its address.
AgentAuth(r) == {"auth_failure", IF r[1] \in Heartbeats THEN "heartbeat" ELSE "order"}

\* Where an attempt goes that is let through, or is not.  The audit begins
\* behind the check of the token.
Goes(r, pc, status) ==
  request' = [request EXCEPT ![r] =
    [pc |-> pc, key |-> "none", status |-> IF Waited(r) THEN status ELSE "none"]]

LetThrough(r, k) == IF k = "auth_failure" THEN Goes(r, "done", "error")
                                          ELSE Goes(r, "handler", "none")

TurnedDown(r, k) == Goes(r, IF k = "auth_failure" THEN "done" ELSE "audit", "error")

\* Redis gave no answer.
Uncounted(r, k) == IF FailClosed THEN TurnedDown(r, k) ELSE LetThrough(r, k)

Within(r, k) ==
  /\ LetThrough(r, k)
  /\ passed' = [passed EXCEPT ![k] = @ + 1]

\* Variants, for checking the checks: an EXPIRE too late, a limit off by one.
FirstOff(n) == n = 2

AllowsOff(n) == n <= Limit + 1

First(n) == n = 1

Allows(n) == n <= Limit

\* INCR, which may have worked even if no answer comes.  The first of a minute
\* sees to its end.
Count(r, k) ==
  LET n == counter[k].count + 1
      increments == counter' = [counter EXCEPT ![k].count = n]
  IN  /\ request[r].pc = "auth"
      /\ \/ /\ First(n)
            /\ increments
            /\ request' = [request EXCEPT ![r] = [pc |-> "expire", key |-> k, status |-> "none"]]
            /\ UNCHANGED <<passed, broken>>
         \/ /\ ~First(n) /\ Allows(n)
            /\ increments
            /\ Within(r, k)
            /\ UNCHANGED broken
         \/ /\ ~First(n) /\ ~Allows(n)
            /\ increments
            /\ TurnedDown(r, k)
            /\ UNCHANGED <<passed, broken>>
         \/ /\ increments
            /\ Uncounted(r, k)
            /\ broken' = IF n = 1 THEN broken \union {k} ELSE broken
            /\ UNCHANGED passed
         \/ /\ Uncounted(r, k)
            /\ UNCHANGED <<counter, passed, broken>>
      /\ UNCHANGED <<call, rows>>

\* EXPIRE.  It may have worked even if no answer comes.
SetTTL(r) ==
  LET k == request[r].key IN
  /\ request[r].pc = "expire"
  /\ \/ /\ counter' = [counter EXCEPT ![k].ttl = TRUE]
        /\ \/ Within(r, k)
           \/ Uncounted(r, k) /\ UNCHANGED passed
        /\ UNCHANGED broken
     \/ /\ Uncounted(r, k)
        /\ broken' = broken \union {k}
        /\ UNCHANGED <<counter, passed>>
  /\ UNCHANGED <<call, rows>>

\* Redis drops a counter whose time is over.
WindowEnds(k) ==
  /\ counter[k].ttl
  /\ counter' = [counter EXCEPT ![k] = NoCounter]
  /\ passed' = [passed EXCEPT ![k] = 0]
  /\ UNCHANGED <<request, call, rows, broken>>

\* Variant, for checking the checks: every attempt is taken up.
NewRowAlways(c) == TRUE

\* Each heartbeat is a row of its own, and each client_order_id.
NewRow(c) == c \in Heartbeats \/ rows[c] = 0

\* A heartbeat is written down.  An order is taken up once for its
\* client_order_id and answered from its row after that.  Either may be
\* refused, and either may fail when its row is there already.
Handle(r) ==
  LET c == r[1] IN
  /\ request[r].pc = "handler"
  /\ \/ /\ NewRow(c)
        /\ rows' = [rows EXCEPT ![c] = @ + 1]
        /\ \E status \in {"ok", "error"} : Goes(r, "audit", status)
     \/ /\ ~NewRow(c)
        /\ Goes(r, "audit", "ok")
        /\ UNCHANGED rows
     \/ /\ Goes(r, "audit", "error")
        /\ UNCHANGED rows
  /\ UNCHANGED <<counter, call, passed, broken>>

Audit(r) ==
  /\ request[r].pc = "audit"
  /\ request' = [request EXCEPT ![r].pc = "done"]
  /\ UNCHANGED <<counter, call, rows, passed, broken>>

\* The context of an attempt that nobody waits for is canceled: the next
\* statement fails, be it EXPIRE or the audit row.  So it ends in a crash.
Drop(r) ==
  /\ request[r].pc \in {"auth", "expire", "handler", "audit"}
  /\ ~Waited(r)
  /\ Goes(r, "done", "none")
  /\ broken' = IF request[r].pc = "expire" THEN broken \union {request[r].key} ELSE broken
  /\ UNCHANGED <<counter, call, rows, passed>>

-----------------------------------------------------------------------------
Init ==
  /\ counter = [k \in Keys |-> NoCounter]
  /\ request = [r \in Requests |-> NoRequest]
  /\ call = [c \in Calls |-> NoCall]
  /\ rows = [c \in Calls |-> 0]
  /\ passed = [k \in Keys |-> 0]
  /\ broken = {}

ServerStep(r) == (\E k \in AgentAuth(r) : Count(r, k)) \/ SetTTL(r) \/ Handle(r) \/ Audit(r)

AgentStep(c) == Start(c) \/ Receive(c) \/ Lose(c) \/ OrderAgain(c)

Next ==
  \/ \E c \in Calls : AgentStep(c)
  \/ \E r \in Requests : ServerStep(r) \/ Drop(r)
  \/ \E k \in Keys : WindowEnds(k)

Spec == Init /\ [][Next]_vars

-----------------------------------------------------------------------------
(***************************************************************************)
(* Properties                                                              *)
(***************************************************************************)
\* In a minute no more attempts are found within the limit of a counter than
\* it allows, however the INCRs and EXPIREs of several attempts, lost answers
\* of Redis and the end of the minute fall.
AdmittedWithinLimit == \A k \in Keys : passed[k] <= Limit

\* A call that was answered with success has a row, an order has no more than one
\* however often it is sent, and a heartbeat no more than one for each attempt.
\* That there is a row is all that success means: an order sent again is answered
\* by the row it finds, also by one that a crashed attempt left submitted and that
\* never went to the venue.
SuccessTookEffect ==
  \A c \in Calls :
    /\ call[c].result = "ok" => rows[c] > 0
    /\ rows[c] <= IF c \in Heartbeats THEN call[c].attempt ELSE 1

\* A counter that is there has an end to its minute, or an attempt is about to
\* give it one - unless it was begun without: the other attempts, which find the
\* counter begun, leave that to the first.
EveryMinuteEnds ==
  \A k \in Keys : \/ counter[k].count = 0
                  \/ counter[k].ttl
                  \/ k \in broken
                  \/ \E r \in Requests : request[r].pc = "expire" /\ request[r].key = k
=============================================================================
