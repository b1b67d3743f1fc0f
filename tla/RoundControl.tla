---------------------------- MODULE RoundControl ----------------------------
(***************************************************************************)
(* Who may trade in which round.  The operator creates rounds, starts and  *)
(* stops them, enrolls teams, pauses and revokes agents, and locks agents  *)
(* to rounds; an agent's call is checked against all of that by a chain of *)
(* middleware and by the handler behind it.                                *)
(*                                                                         *)
(* Every check and every write is a statement of its own: an agent's call  *)
(* and an operator's request are sequences of steps, and whatever one step *)
(* has read may be stale at the next.                                      *)
(*                                                                         *)
(* Left out: team tokens (legacy authentication, off by default), rate     *)
(* limits, and what becomes of an order (OrderLifecycle).                  *)
(***************************************************************************)
EXTENDS Naturals, FiniteSetsExt

CONSTANTS
  Rounds,   \* bound: the rounds' ids, in the order of their creation
  Created,  \* the rounds there are at first
  Teams,
  Agents,
  TeamOf,   \* agents.team_id, which is never updated
  Calls,    \* the agents' calls: POST /orders, POST /orders/{id}/cancel
  Requests, \* the operator's requests
  Allowed,  \* the kinds of requests the operator makes
  None

Kinds == {"create", "activate", "pause", "complete", "reset", "strict",
          "enroll", "setEnrollment", "setTeam", "setAgent", "lock", "unlock"}

ASSUME RoundAssumption ==
  /\ Rounds \subseteq Nat \ {0} /\ IsFiniteSet(Rounds)
  /\ Created \subseteq Rounds
  /\ \A r \in Created, later \in Rounds \ Created : r < later
  /\ TeamOf \in [Agents -> Teams]
  /\ Allowed \subseteq Kinds
  /\ None \notin Teams \cup Agents \cup Rounds \cup Calls
  /\ Calls \cap Requests = {}

VARIABLES
  status,     \* rounds.status; "none": not created yet
  strict,     \* mode is replay, or require_locked_agents
  enrollment, \* round_teams.status; "none": no row
  lock,       \* round_agents: <<round, team>> -> the locked agent
  teamActive, \* teams.is_active
  agent,      \* agents.status
  call,       \* the agents' calls
  request,    \* the operator's requests
  during,     \* history: what has been true at some moment of a call underway
  disturbed   \* history: the activations underway that another request has
              \* taken something away from

tables == <<status, strict, enrollment, lock, teamActive, agent>>
vars   == <<tables, call, request, during, disturbed>>

Statuses     == {"draft", "active", "paused", "completed"}
Memberships  == {"active", "paused", "withdrawn"}
Membership   == Rounds \X Teams

CallRow == [pc: {"idle", "enrollment", "member", "locked", "agentLocked", "handler",
                 "insert", "ordered", "target", "cancel", "ended"},
            kind: {"order", "cancel"},
            agent: Agents \cup {None},
            seen: {"active", "paused"},     \* the agent's status, as authenticated
            round: Rounds \cup {None},      \* the active round, as last read
            target: Calls \cup {None}]      \* cancel: the call that created the order

RequestRow == [pc: {"idle", "enrolled", "teams", "locks", "pauseOthers", "write", "ended"},
               kind: Kinds \cup {None},
               round: Rounds \cup {None},
               agent: Agents \cup {None},
               strict: BOOLEAN]             \* activate: roundRequiresLockedAgent, as read

\* What has been true since the call began, at one moment or another.
DuringRow ==
  [active: SUBSET Rounds,    \* the rounds that were the active one
   enrolled: SUBSET Rounds,  \* ... in which the team's enrollment was active
   admitted: SUBSET Rounds,  \* ... that were not strict, or had locked the agent
   shared: SUBSET Rounds,    \* ... that were active and not strict, all at once,
                             \*     while the handler was at work
   standing: BOOLEAN,        \* the team and the agent were active, both at once
   unchecked: SUBSET {"enrollment", "locked"}] \* the checks that saw no round

TypeOK ==
  /\ status \in [Rounds -> Statuses \cup {"none"}]
  /\ strict \in [Rounds -> BOOLEAN]
  /\ enrollment \in [Membership -> Memberships \cup {"none"}]
  /\ lock \in [Membership -> Agents \cup {None}]
  /\ teamActive \in [Teams -> BOOLEAN]
  /\ agent \in [Agents -> {"active", "paused", "revoked"}]
  /\ call \in [Calls -> CallRow]
  /\ \A c \in Calls : call[c].pc \in {"member", "agentLocked", "insert", "ordered", "cancel"} =>
                        call[c].round # None
  /\ request \in [Requests -> RequestRow]
  /\ during \in [Calls -> DuringRow]
  /\ disturbed \subseteq Requests

-----------------------------------------------------------------------------
(***************************************************************************)
(* Queries                                                                 *)
(***************************************************************************)
\* GetActiveRound: of several active rounds, the one created last.
ActiveRound ==
  LET active == {r \in Rounds : status[r] = "active"}
  IN  IF active = {} THEN None ELSE Max(active)

\* CountActiveRoundTeams > 0.
HasActiveTeam(r) == \E t \in Teams : enrollment[<<r, t>>] = "active" /\ teamActive[t]

\* Variant: the lock's row is looked at, and not its agent.
LockRowsComplete(r) ==
  \A t \in Teams : enrollment[<<r, t>>] = "active" => teamActive[t] /\ lock[<<r, t>>] # None

\* CheckRoundAgentLocks: every team whose enrollment is active is active and
\* has locked an active agent of its own.
LocksComplete(r) ==
  \A t \in Teams :
    enrollment[<<r, t>>] = "active" =>
      /\ teamActive[t]
      /\ lock[<<r, t>>] # None
      /\ TeamOf[lock[<<r, t>>]] = t
      /\ agent[lock[<<r, t>>]] = "active"

\* RoundAgentLocked
IsLocked(r, a) == \E t \in Teams : lock[<<r, t>>] = a

-----------------------------------------------------------------------------
(***************************************************************************)
(* A call or a request that has ended is as good as new; an order is known *)
(* by the call that created it.                                            *)
(***************************************************************************)
NewCall    == [pc |-> "idle", kind |-> "order", agent |-> None, seen |-> "active",
               round |-> None, target |-> None]
NewRequest == [pc |-> "idle", kind |-> None, round |-> None, agent |-> None, strict |-> FALSE]

EndCall(c)    == call' = [call EXCEPT ![c] = [NewCall EXCEPT !.pc = "ended"]]
EndRequest(q) == request' = [request EXCEPT ![q] = [NewRequest EXCEPT !.pc = "ended"]]

-----------------------------------------------------------------------------
(***************************************************************************)
(* An agent's call: agentAuth, requireActiveRoundEnrollment,               *)
(* requireActiveAgentMutation, requireRoundAgentIfLocked, the handler.     *)
(***************************************************************************)
Goto(c, pc, r) == call' = [call EXCEPT ![c].pc = pc, ![c].round = r]

\* agentAuth: one query for the token's agent and its team.
Authenticate(c, a, kind) ==
  /\ call[c].pc = "idle"
  /\ IF teamActive[TeamOf[a]] /\ agent[a] # "revoked"
     THEN call' = [call EXCEPT ![c] = [NewCall EXCEPT !.pc = "enrollment", !.kind = kind,
                                                      !.agent = a, !.seen = agent[a]]]
     ELSE EndCall(c)
  /\ UNCHANGED <<tables, request>>

\* requireActiveRoundEnrollment reads the active round.  Without one, or when
\* the query fails, the request goes on.
ReadRoundForEnrollment(c) ==
  /\ call[c].pc = "enrollment"
  /\ \/ ActiveRound # None /\ Goto(c, "member", ActiveRound)
     \/ Goto(c, "locked", None)
  /\ UNCHANGED <<tables, request>>

\* Variant: a team that has a row is a member, whatever the row says.
EnrolledOnce(c) == enrollment[<<call[c].round, TeamOf[call[c].agent]>>] # "none"

EnrolledNow(c) == enrollment[<<call[c].round, TeamOf[call[c].agent]>>] = "active"

\* ... and the team's enrollment in it.
CheckEnrollment(c) ==
  /\ call[c].pc = "member"
  /\ IF EnrolledNow(c) THEN Goto(c, "locked", None) ELSE EndCall(c)
  /\ UNCHANGED <<tables, request>>

\* requireActiveAgentMutation looks at the agent as it was authenticated; then
\* requireRoundAgentIfLocked reads the active round again, and again goes on
\* without one.
ReadRoundForLock(c) ==
  /\ call[c].pc = "locked"
  /\ \/ /\ call[c].seen # "active"
        /\ EndCall(c)
     \/ /\ call[c].seen = "active"
        /\ ActiveRound # None
        /\ IF strict[ActiveRound] THEN Goto(c, "agentLocked", ActiveRound)
                                  ELSE Goto(c, "handler", None)
     \/ /\ call[c].seen = "active"
        /\ Goto(c, "handler", None)
  /\ UNCHANGED <<tables, request>>

CheckLock(c) ==
  /\ call[c].pc = "agentLocked"
  /\ IF IsLocked(call[c].round, call[c].agent) THEN Goto(c, "handler", None) ELSE EndCall(c)
  /\ UNCHANGED <<tables, request>>

\* Variant: the handler goes on without a round as the middleware does.
ReadRoundUnchecked(c) ==
  /\ call[c].pc = "handler"
  /\ call[c].kind = "order"
  /\ Goto(c, "insert", ActiveRound)
  /\ UNCHANGED <<tables, request>>

\* prepareTrade reads the active round once more.
ReadRoundInHandler(c) ==
  /\ call[c].pc = "handler"
  /\ call[c].kind = "order"
  /\ IF ActiveRound # None THEN Goto(c, "insert", ActiveRound) ELSE EndCall(c)
  /\ UNCHANGED <<tables, request>>

\* The order is created in the round that was read.
InsertOrder(c) ==
  /\ call[c].pc = "insert"
  /\ Goto(c, "ordered", call[c].round)
  /\ UNCHANGED <<tables, request>>

\* The orders there are.
Ordered == {c \in Calls : call[c].pc = "ordered"}

\* The cancel handler finds the order among the team's own ...
FindOrder(c, target) ==
  /\ call[c].pc = "handler"
  /\ call[c].kind = "cancel"
  /\ target \in Ordered
  /\ TeamOf[call[target].agent] = TeamOf[call[c].agent]
  /\ call' = [call EXCEPT ![c].pc = "target", ![c].target = target]
  /\ UNCHANGED <<tables, request>>

\* Variant: any agent of the team may cancel.
OwnOrderOfTeam(c) == call[call[c].target].round = ActiveRound

\* ... which must be one of the active round, and in a strict round one the
\* same agent created.
OwnOrder(c) ==
  /\ call[call[c].target].round = ActiveRound
  /\ strict[ActiveRound] => call[call[c].target].agent = call[c].agent

CheckCancel(c) ==
  /\ call[c].pc = "target"
  /\ IF ActiveRound # None /\ OwnOrder(c) THEN Goto(c, "cancel", ActiveRound) ELSE EndCall(c)
  /\ UNCHANGED <<tables, request>>

\* The order is marked, unless its round was reset and it is no longer there.
WriteCanceled(c) ==
  /\ call[c].pc = "cancel"
  /\ call[c].target \in Ordered
  /\ EndCall(c)
  /\ UNCHANGED <<tables, request>>

-----------------------------------------------------------------------------
(***************************************************************************)
(* The operator's requests                                                 *)
(***************************************************************************)
\* A request that is one statement.
Write(q, kind) ==
  /\ kind \in Allowed
  /\ request[q].pc = "idle"
  /\ EndRequest(q)

\* POST /rounds takes any status for the new round.
CreateRound(q, s, required) ==
  LET unborn == {r \in Rounds : status[r] = "none"}
      new    == Min(unborn)
  IN  /\ unborn # {}
      /\ Write(q, "create")
      /\ status' = [status EXCEPT ![new] = s]
      /\ strict' = [strict EXCEPT ![new] = required]
      /\ UNCHANGED <<enrollment, lock, teamActive, agent, call>>

\* Pause and complete (also after a settlement): no status is refused.
SetRoundStatus(q, r, kind, s) ==
  /\ <<kind, s>> \in {<<"pause", "paused">>, <<"complete", "completed">>}
  /\ status[r] # "none"
  /\ Write(q, kind)
  /\ status' = [status EXCEPT ![r] = s]
  /\ UNCHANGED <<strict, enrollment, lock, teamActive, agent, call>>

\* A reset deletes the round's orders and makes it a draft; enrollments and
\* locks remain.
ResetRound(q, r) ==
  /\ status[r] # "none"
  /\ Write(q, "reset")
  /\ status' = [status EXCEPT ![r] = "draft"]
  /\ call' = [c \in Calls |-> IF c \in Ordered /\ call[c].round = r
                              THEN [NewCall EXCEPT !.pc = "ended"] ELSE call[c]]
  /\ UNCHANGED <<strict, enrollment, lock, teamActive, agent>>

\* (A round in replay mode stays strict.)
SetRoundRequireLockedAgents(q, r, required) ==
  /\ status[r] # "none"
  /\ Write(q, "strict")
  /\ strict' = [strict EXCEPT ![r] = required]
  /\ UNCHANGED <<status, enrollment, lock, teamActive, agent, call>>

\* An insert, or an update of the row there is.
EnrollRoundTeam(q, m) ==
  /\ status[m[1]] # "none"
  /\ Write(q, "enroll")
  /\ enrollment' = [enrollment EXCEPT ![m] = "active"]
  /\ UNCHANGED <<status, strict, lock, teamActive, agent, call>>

\* Pause, resume and withdraw need a row to update.
SetRoundTeamStatus(q, m, s) ==
  /\ enrollment[m] # "none"
  /\ Write(q, "setEnrollment")
  /\ enrollment' = [enrollment EXCEPT ![m] = s]
  /\ UNCHANGED <<status, strict, lock, teamActive, agent, call>>

SetTeamActive(q, t, active) ==
  /\ Write(q, "setTeam")
  /\ teamActive' = [teamActive EXCEPT ![t] = active]
  /\ UNCHANGED <<status, strict, enrollment, lock, agent, call>>

\* Pause, resume, revoke: a revoked agent can be resumed.
SetAgentStatus(q, a, s) ==
  /\ Write(q, "setAgent")
  /\ agent' = [agent EXCEPT ![a] = s]
  /\ UNCHANGED <<status, strict, enrollment, lock, teamActive, call>>

\* Activation: the round is read, its teams are counted, ...
StartActivation(q, r) ==
  /\ "activate" \in Allowed
  /\ request[q].pc = "idle"
  /\ status[r] # "none"
  /\ request' = [request EXCEPT ![q] = [@ EXCEPT !.pc = "enrolled", !.kind = "activate",
                                                 !.round = r, !.strict = strict[r]]]
  /\ UNCHANGED <<tables, call>>

CountTeams(q) ==
  /\ request[q].pc = "enrolled"
  /\ IF \E t \in Teams : enrollment[<<request[q].round, t>>] # "none"
     THEN request' = [request EXCEPT ![q].pc = "teams"]
     ELSE EndRequest(q)
  /\ UNCHANGED <<tables, call>>

\* ... and counted again without those that do not take part, ...
CountActiveTeams(q) ==
  /\ request[q].pc = "teams"
  /\ IF HasActiveTeam(request[q].round)
     THEN request' = [request EXCEPT ![q].pc = IF request[q].strict THEN "locks" ELSE "pauseOthers"]
     ELSE EndRequest(q)
  /\ UNCHANGED <<tables, call>>

\* ... the locks are looked at if the round asks for them, ...
CheckLocks(q) ==
  /\ request[q].pc = "locks"
  /\ IF LocksComplete(request[q].round)
     THEN request' = [request EXCEPT ![q].pc = "pauseOthers"]
     ELSE EndRequest(q)
  /\ UNCHANGED <<tables, call>>

\* ... the other active rounds are paused, ...
PauseOthers(q) ==
  /\ request[q].pc = "pauseOthers"
  /\ status' = [r \in Rounds |-> IF status[r] = "active" /\ r # request[q].round
                                 THEN "paused" ELSE status[r]]
  /\ request' = [request EXCEPT ![q].pc = "write"]
  /\ UNCHANGED <<strict, enrollment, lock, teamActive, agent, call>>

\* ... and this one becomes the active round.
Activate(q) ==
  /\ request[q].pc = "write"
  /\ request[q].kind = "activate"
  /\ status' = [status EXCEPT ![request[q].round] = "active"]
  /\ EndRequest(q)
  /\ UNCHANGED <<strict, enrollment, lock, teamActive, agent, call>>

\* The locks of a completed round do not change, those of an active one only
\* when the operator confirms.
MayChangeLock(r, confirmed) ==
  /\ status[r] # "completed"
  /\ status[r] = "active" => confirmed

\* Lock or unlock: the round is read and the rule applied ...
StartLockChange(q, kind, r, a, confirmed) ==
  /\ kind \in {"lock", "unlock"} \cap Allowed
  /\ request[q].pc = "idle"
  /\ status[r] # "none"
  /\ IF MayChangeLock(r, confirmed)
     THEN request' = [request EXCEPT ![q] = [NewRequest EXCEPT !.pc = "write", !.kind = kind,
                                                               !.round = r, !.agent = a]]
     ELSE EndRequest(q)
  /\ UNCHANGED <<tables, call>>

\* ... and the team's row is inserted, updated or deleted later.
WriteLock(q) ==
  LET r == request[q].round
      a == request[q].agent
      m == <<r, TeamOf[a]>>
  IN  /\ request[q].pc = "write"
      /\ \/ /\ request[q].kind = "lock"
            /\ lock' = [lock EXCEPT ![m] = a]
         \/ /\ request[q].kind = "unlock"
            /\ lock' = [n \in Membership |-> IF n[1] = r /\ lock[n] = a THEN None ELSE lock[n]]
      /\ EndRequest(q)
      /\ UNCHANGED <<status, strict, enrollment, teamActive, agent, call>>

-----------------------------------------------------------------------------
(***************************************************************************)
(* What the properties remember of a call and of an activation             *)
(***************************************************************************)
Underway(c) == call[c].pc \notin {"idle", "ordered", "ended"}

Nothing == [active |-> {}, enrolled |-> {}, admitted |-> {}, shared |-> {},
            standing |-> FALSE, unchecked |-> {}]

\* What is true of a call at this moment.
Enrolled(c) == {r \in Rounds : enrollment[<<r, TeamOf[call[c].agent]>>] = "active"}
Admitted(c) == {r \in Rounds : strict[r] => lock[<<r, TeamOf[call[c].agent]>>] = call[c].agent}
Shared(c)   == {r \in Rounds : /\ r = ActiveRound /\ ~strict[r]
                               /\ call[c].pc \in {"handler", "insert", "target", "cancel"}}
Standing(c) == teamActive[TeamOf[call[c].agent]] /\ agent[call[c].agent] = "active"

\* A middleware lets the call pass that found no active round, or whose query
\* for it failed.
PassesUnchecked(c) ==
  \/ call[c].pc = "enrollment" /\ call'[c].pc = "locked"
  \/ /\ call[c].pc = "locked" /\ call'[c].pc = "handler"
     /\ ActiveRound # None => strict[ActiveRound]

Remembered(c) ==
  LET was == during[c]
  IN  IF ~Underway(c)' THEN Nothing
      ELSE [active    |-> was.active \cup ({ActiveRound'} \ {None}),
            enrolled  |-> was.enrolled \cup Enrolled(c)',
            admitted  |-> was.admitted \cup Admitted(c)',
            shared    |-> was.shared \cup Shared(c)',
            standing  |-> was.standing \/ Standing(c)',
            unchecked |-> was.unchecked \cup (IF PassesUnchecked(c) THEN {call[c].pc} ELSE {})]

\* What an activation looks at, or has looked at, is taken away: its round is
\* made strict or not, its enrollments change, a lock, a team or an agent is not
\* what it was, or another round is made active.
TakenAway(q) ==
  LET r == request[q].round
  IN  /\ request[q].pc \notin {"idle", "ended"}
      /\ request[q].kind = "activate"
      /\ \/ strict'[r] # strict[r]
         \/ \E other \in Rounds \ {r} : status[other] # "active" /\ status'[other] = "active"
         \/ \E t \in Teams :
              \/ enrollment'[<<r, t>>] # enrollment[<<r, t>>]
              \/ lock[<<r, t>>] # None /\ lock'[<<r, t>>] # lock[<<r, t>>]
              \/ teamActive[t] /\ ~teamActive'[t]
         \/ \E a \in Agents : agent[a] = "active" /\ agent'[a] # "active"

Remember ==
  /\ during' = [c \in Calls |-> Remembered(c)]
  /\ disturbed' = {q \in Requests : /\ request'[q].pc \notin {"idle", "ended"}
                                    /\ q \in disturbed \/ TakenAway(q)}

-----------------------------------------------------------------------------
\* The operator has created some rounds, enrolled teams, locked agents and
\* started at most one of them before anything happens here.
Init ==
  /\ status \in [Rounds -> Statuses \cup {"none"}]
  /\ \A r \in Rounds : status[r] = "none" <=> r \notin Created
  /\ Cardinality({r \in Rounds : status[r] = "active"}) <= 1
  /\ strict \in [Rounds -> BOOLEAN]
  /\ enrollment \in [Membership -> {"none", "active"}]
  /\ lock \in [Membership -> Agents \cup {None}]
  /\ \A r \in Rounds \ Created : ~strict[r]
  /\ \A m \in Membership :
       /\ m[1] \notin Created => enrollment[m] = "none" /\ lock[m] = None
       /\ lock[m] # None => TeamOf[lock[m]] = m[2]
  /\ teamActive = [t \in Teams |-> TRUE]
  /\ agent = [a \in Agents |-> "active"]
  /\ call = [c \in Calls |-> NewCall]
  /\ request = [q \in Requests |-> NewRequest]
  /\ during = [c \in Calls |-> Nothing]
  /\ disturbed = {}

CallStep(c) ==
  \/ \E a \in Agents, kind \in {"order", "cancel"} : Authenticate(c, a, kind)
  \/ ReadRoundForEnrollment(c)
  \/ CheckEnrollment(c)
  \/ ReadRoundForLock(c)
  \/ CheckLock(c)
  \/ ReadRoundInHandler(c)
  \/ InsertOrder(c)
  \/ \E target \in Calls : FindOrder(c, target)
  \/ CheckCancel(c)
  \/ WriteCanceled(c)

RequestStep(q) ==
  \/ \E s \in Statuses, required \in BOOLEAN : CreateRound(q, s, required)
  \/ \E r \in Rounds, kind \in Kinds, s \in Statuses : SetRoundStatus(q, r, kind, s)
  \/ \E r \in Rounds : ResetRound(q, r)
  \/ \E r \in Rounds, required \in BOOLEAN : SetRoundRequireLockedAgents(q, r, required)
  \/ \E m \in Membership : EnrollRoundTeam(q, m)
  \/ \E m \in Membership, s \in Memberships : SetRoundTeamStatus(q, m, s)
  \/ \E t \in Teams, active \in BOOLEAN : SetTeamActive(q, t, active)
  \/ \E a \in Agents, s \in {"active", "paused", "revoked"} : SetAgentStatus(q, a, s)
  \/ \E r \in Rounds : StartActivation(q, r)
  \/ CountTeams(q)
  \/ CountActiveTeams(q)
  \/ CheckLocks(q)
  \/ PauseOthers(q)
  \/ Activate(q)
  \/ \E kind \in {"lock", "unlock"}, r \in Rounds, a \in Agents, confirmed \in BOOLEAN :
       StartLockChange(q, kind, r, a, confirmed)
  \/ WriteLock(q)

Next ==
  \/ \E c \in Calls : CallStep(c) /\ Remember
  \/ \E q \in Requests : RequestStep(q) /\ Remember

Spec == Init /\ [][Next]_vars

-----------------------------------------------------------------------------
(***************************************************************************)
(* Properties                                                              *)
(***************************************************************************)
\* The round of the order that a call creates or cancels.
OrderRound(c) == IF call[c].kind = "order" THEN call[c].round ELSE call[call[c].target].round

\* Whatever the operator did meanwhile, an order is created or canceled only in
\* a round that was the active one at some moment of the call, and for an agent
\* that was active, in an active team, at some moment of it; and there was a
\* round active during the call in which the team was enrolled, and one that
\* admitted the agent.  When one round only was active during the call, all of
\* that is of the order's round; after a change of rounds it may be of the one
\* before.  The last two are promised of a call whose check saw a round: the code
\* lets pass those that found none, or whose query failed.
CallsWereAdmitted ==
  [][\A c \in Calls :
       InsertOrder(c) \/ WriteCanceled(c) =>
         LET was == during[c]
         IN  /\ OrderRound(c) \in was.active
             /\ was.standing
             /\ "enrollment" \in was.unchecked \/ was.active \cap was.enrolled # {}
             /\ "locked" \in was.unchecked \/ was.active \cap was.admitted # {}]_vars

\* An order is canceled by the team that created it, and by another agent of the
\* team only if the order's round was active and not strict at one and the same
\* moment of the handler's work, whatever its mode was when the call began and
\* whoever holds its locks.
CancelsWereOwn ==
  [][\A c \in Calls :
       WriteCanceled(c) =>
         LET creator == call[call[c].target].agent
         IN  /\ TeamOf[creator] = TeamOf[call[c].agent]
             /\ creator = call[c].agent \/ OrderRound(c) \in during[c].shared]_vars

\* What README.md asks of a team and its agent to trade in round r.
MayTrade(a, r) ==
  /\ status[r] = "active"
  /\ teamActive[TeamOf[a]]
  /\ agent[a] = "active"
  /\ enrollment[<<r, TeamOf[a]>>] = "active"
  /\ strict[r] => lock[<<r, TeamOf[a]>>] = a

\* A round starts with a team that can trade, and if it asks for locks with an
\* agent of every enrolled team that can, and no other round is left active,
\* unless another request took away what the activation had looked at: it
\* changed the round's mode or enrollments, a lock, a team or an agent, or made
\* another round active, before the activation was through.
UndisturbedStartsAreReady ==
  [][\A q \in Requests \ disturbed, r \in Rounds :
       Activate(q) /\ request[q].round = r =>
         /\ \A other \in Rounds \ {r} : status'[other] # "active"
         /\ \E t \in Teams : enrollment[<<r, t>>] = "active" /\ teamActive[t]
         /\ strict[r] => \A t \in Teams :
              enrollment[<<r, t>>] = "active" =>
                \E a \in Agents : TeamOf[a] = t /\ MayTrade(a, r)']_vars
=============================================================================
