------------------------- MODULE RoundControlProofs -------------------------
(***************************************************************************)
(* What RoundControl keeps for all rounds, teams, agents, calls and        *)
(* requests: its type, that the checks of a call add up to what they are   *)
(* for, whatever the operator does between them, and that a start nothing  *)
(* was taken away from is ready.                                           *)
(***************************************************************************)
EXTENDS RoundControl, FiniteInduction, TLAPS

-----------------------------------------------------------------------------
(***************************************************************************)
(* The inductive invariant                                                 *)
(***************************************************************************)
\* A team locks agents of its own.
LocksAreOwn ==
  \A r \in Rounds, t \in Teams : lock[<<r, t>>] # None => TeamOf[lock[<<r, t>>]] = t

\* A call is by an agent, and one that cancels is about an order of its team, for
\* as long as there is that order.
CallIsSomeones(c) ==
  /\ call[c].pc \notin {"idle", "ended"} => call[c].agent \in Agents
  /\ call[c].pc = "insert" => call[c].kind = "order"
  /\ call[c].pc \in {"target", "cancel"} =>
       /\ call[c].kind = "cancel" /\ call[c].target \in Calls
       /\ call[call[c].target].pc \in {"ordered", "ended"}
       /\ call[call[c].target].pc = "ordered" =>
            TeamOf[call[call[c].target].agent] = TeamOf[call[c].agent]

\* What is true of a call now is among what is remembered of it, ...
NowSeen(c) ==
  /\ ActiveRound # None => ActiveRound \in during[c].active
  /\ Enrolled(c) \subseteq during[c].enrolled
  /\ Admitted(c) \subseteq during[c].admitted
  /\ Shared(c) \subseteq during[c].shared
  /\ Standing(c) => during[c].standing

\* ... and so is what each of its checks was to find out.
EnrollmentSeen(c) ==
  "enrollment" \in during[c].unchecked \/ during[c].active \cap during[c].enrolled # {}

AdmissionSeen(c) ==
  "locked" \in during[c].unchecked \/ during[c].active \cap during[c].admitted # {}

OwnershipSeen(c) ==
  call[call[c].target].pc = "ordered" =>
    /\ call[call[c].target].round = call[c].round
    /\ \/ call[call[c].target].agent = call[c].agent
       \/ call[c].round \in during[c].shared

ChecksSeen(c) ==
  /\ call[c].seen = "active" => during[c].standing
  /\ call[c].pc \in {"agentLocked", "handler", "insert", "target", "cancel"} => call[c].seen = "active"
  /\ call[c].pc \in {"member", "agentLocked", "insert", "cancel"} => call[c].round \in during[c].active
  /\ call[c].pc \in {"locked", "agentLocked", "handler", "insert", "target", "cancel"} => EnrollmentSeen(c)
  /\ call[c].pc \in {"handler", "insert", "target", "cancel"} => AdmissionSeen(c)
  /\ call[c].pc = "cancel" => OwnershipSeen(c)

\* What a request is about, and what an activation that lost nothing has found out.
RequestIsSomeones(q) ==
  /\ request[q].pc \in {"enrolled", "teams", "locks", "pauseOthers"} =>
       request[q].kind = "activate" /\ request[q].round \in Rounds
  /\ request[q].pc = "write" =>
       /\ request[q].kind \in {"activate", "lock", "unlock"} /\ request[q].round \in Rounds
       /\ request[q].kind # "activate" => request[q].agent \in Agents

StartIsReady(q) ==
  LET r == request[q].round IN
  /\ request[q].pc \in {"enrolled", "teams", "locks", "pauseOthers"} =>
       request[q].strict = strict[r]
  /\ request[q].pc \in {"locks", "pauseOthers"} => HasActiveTeam(r)
  /\ request[q].pc = "pauseOthers" => (strict[r] => LocksComplete(r))
  /\ request[q].pc = "write" /\ request[q].kind = "activate" =>
       /\ HasActiveTeam(r) /\ (strict[r] => LocksComplete(r))
       /\ \A other \in Rounds \ {r} : status[other] # "active"

IInv ==
  /\ TypeOK
  /\ LocksAreOwn
  /\ \A c \in Calls : CallIsSomeones(c) /\ (Underway(c) => NowSeen(c) /\ ChecksSeen(c))
  /\ \A q \in Requests : RequestIsSomeones(q) /\ (q \notin disturbed => StartIsReady(q))

-----------------------------------------------------------------------------
(***************************************************************************)
(* Lemmas about the queries and the rows                                   *)
(***************************************************************************)
\* The active round is a round that is active.
LEMMA ActiveRoundIsActive ==
  ASSUME status \in [Rounds -> Statuses \cup {"none"}]
  PROVE  /\ ActiveRound \in Rounds \cup {None}
         /\ ActiveRound # None => ActiveRound \in Rounds /\ status[ActiveRound] = "active"
<1>1. PICK active \in SUBSET Rounds : active = {r \in Rounds : status[r] = "active"}
  OBVIOUS
<1>2. CASE active = {}
  BY <1>1, <1>2 DEF ActiveRound
<1>3. CASE active # {}
  <2>1. IsFiniteSet(active) /\ active \subseteq Int
    <3>1. IsFiniteSet(Rounds) /\ Rounds \subseteq Nat
      BY RoundAssumption
    <3>2. IsFiniteSet(active)
      BY <3>1, FS_Subset
    <3>. QED
      BY <3>1, <3>2
  <2>2. PICK x \in active : \A y \in active : x >= y
    BY <1>3, <2>1, GreatestElement
  <2>3. Max(active) \in active
    BY <2>2 DEF Max
  <2>4. ActiveRound = Max(active)
    BY <1>1, <1>3 DEF ActiveRound
  <2>. QED
    BY <1>1, <2>3, <2>4
<1>. QED
  BY <1>2, <1>3

\* The same of the step's new state.
LEMMA ActiveRoundNextIsRound ==
  ASSUME status' \in [Rounds -> Statuses \cup {"none"}]
  PROVE  ActiveRound' \in Rounds \cup {None}
<1>1. PICK active \in SUBSET Rounds : active = {r \in Rounds : status'[r] = "active"}
  OBVIOUS
<1>2. CASE active = {}
  BY <1>1, <1>2 DEF ActiveRound
<1>3. CASE active # {}
  <2>1. IsFiniteSet(active) /\ active \subseteq Int
    <3>1. IsFiniteSet(Rounds) /\ Rounds \subseteq Nat
      BY RoundAssumption
    <3>2. IsFiniteSet(active)
      BY <3>1, FS_Subset
    <3>. QED
      BY <3>1, <3>2
  <2>2. PICK x \in active : \A y \in active : x >= y
    BY <1>3, <2>1, GreatestElement
  <2>3. Max(active) \in active
    BY <2>2 DEF Max
  <2>4. ActiveRound' = Max(active)
    BY <1>1, <1>3 DEF ActiveRound
  <2>. QED
    BY <1>1, <2>3, <2>4
<1>. QED
  BY <1>2, <1>3

\* What the actions put into a row is a row.
LEMMA RowsAreRows ==
  /\ NewCall \in CallRow /\ NewRequest \in RequestRow
  /\ [NewCall EXCEPT !.pc = "ended"] \in CallRow
  /\ [NewCall EXCEPT !.pc = "ended"].pc = "ended"
  /\ [NewRequest EXCEPT !.pc = "ended"] \in RequestRow
  /\ [NewRequest EXCEPT !.pc = "ended"].pc = "ended"
  /\ Nothing \in DuringRow
BY DEF Nothing, DuringRow, NewCall, NewRequest, CallRow, RequestRow

-----------------------------------------------------------------------------
(***************************************************************************)
(* The invariant at the start                                              *)
(***************************************************************************)
LEMMA InitIInv ==
  Init => IInv
<1>. SUFFICES ASSUME Init PROVE IInv
  OBVIOUS
<1>1. /\ \A c \in Calls : call[c].pc = "idle"
      /\ \A q \in Requests : request[q].pc = "idle"
  BY DEF Init, NewCall, NewRequest
<1>2. TypeOK
  <2>1. call \in [Calls -> CallRow] /\ request \in [Requests -> RequestRow]
         /\ during \in [Calls -> DuringRow]
    BY RowsAreRows DEF Init
  <2>. QED
    BY <1>1, <2>1 DEF Init, TypeOK, Memberships
<1>3. LocksAreOwn
  <2>1. ASSUME NEW r \in Rounds, NEW t \in Teams, lock[<<r, t>>] # None
        PROVE  TeamOf[lock[<<r, t>>]] = t
    <3>1. <<r, t>> \in Membership
      BY DEF Membership
    <3>2. lock[<<r, t>>] # None => TeamOf[lock[<<r, t>>]] = <<r, t>>[2]
      BY <3>1 DEF Init
    <3>. QED
      BY <2>1, <3>2
  <2>. QED
    BY <2>1 DEF LocksAreOwn
<1>4. ASSUME NEW c \in Calls
      PROVE  CallIsSomeones(c) /\ ~Underway(c)
  BY <1>1 DEF CallIsSomeones, Underway
<1>5. ASSUME NEW q \in Requests
      PROVE  RequestIsSomeones(q) /\ StartIsReady(q)
  BY <1>1 DEF RequestIsSomeones, StartIsReady
<1>. QED
  BY <1>2, <1>3, <1>4, <1>5 DEF IInv

-----------------------------------------------------------------------------
(***************************************************************************)
(* What is remembered                                                      *)
(***************************************************************************)
\* A call underway forgets nothing, and what is true of it is remembered.
LEMMA MemoryGrows ==
  ASSUME IInv, Remember, NEW c \in Calls, Underway(c)'
  PROVE  /\ during[c].active \subseteq during'[c].active
         /\ during[c].enrolled \subseteq during'[c].enrolled
         /\ during[c].admitted \subseteq during'[c].admitted
         /\ during[c].shared \subseteq during'[c].shared
         /\ during[c].standing => during'[c].standing
         /\ during[c].unchecked \subseteq during'[c].unchecked
         /\ PassesUnchecked(c) => call[c].pc \in during'[c].unchecked
         /\ NowSeen(c)'
<1>1. during'[c] = Remembered(c)
  BY DEF Remember
<1>2. PICK was : was = during[c]
  OBVIOUS
<1>3. PICK row : row =
        [active    |-> was.active \cup ({ActiveRound'} \ {None}),
         enrolled  |-> was.enrolled \cup Enrolled(c)',
         admitted  |-> was.admitted \cup Admitted(c)',
         shared    |-> was.shared \cup Shared(c)',
         standing  |-> was.standing \/ Standing(c)',
         unchecked |-> was.unchecked \cup (IF PassesUnchecked(c) THEN {call[c].pc} ELSE {})]
  OBVIOUS
<1>4. during'[c] = row
  BY <1>1, <1>2, <1>3 DEF Remembered
<1>5. /\ row.active = was.active \cup ({ActiveRound'} \ {None})
      /\ row.enrolled = was.enrolled \cup Enrolled(c)'
      /\ row.admitted = was.admitted \cup Admitted(c)'
      /\ row.shared = was.shared \cup Shared(c)'
      /\ row.standing = (was.standing \/ Standing(c)')
      /\ row.unchecked = was.unchecked \cup (IF PassesUnchecked(c) THEN {call[c].pc} ELSE {})
  BY <1>3
<1>6. NowSeen(c)'
  BY <1>4, <1>5 DEF NowSeen
<1>7. /\ was.active \subseteq row.active /\ was.enrolled \subseteq row.enrolled
      /\ was.admitted \subseteq row.admitted /\ was.shared \subseteq row.shared
      /\ was.standing => row.standing
      /\ was.unchecked \subseteq row.unchecked
      /\ PassesUnchecked(c) => call[c].pc \in row.unchecked
  BY <1>5
<1>. QED
  BY <1>2, <1>4, <1>6, <1>7

\* What is remembered is a row.
LEMMA MemoryIsTyped ==
  ASSUME IInv, Remember, status' \in [Rounds -> Statuses \cup {"none"}],
         teamActive' \in [Teams -> BOOLEAN]
  PROVE  during' \in [Calls -> DuringRow]
<1>1. ASSUME NEW c \in Calls
      PROVE  Remembered(c) \in DuringRow
  <2>1. CASE ~Underway(c)'
    BY <2>1, RowsAreRows DEF Remembered
  <2>2. CASE Underway(c)'
    <3>1. PICK was \in DuringRow : was = during[c]
      BY DEF IInv, TypeOK
    <3>2. {ActiveRound'} \ {None} \subseteq Rounds
      <4>1. ASSUME status' \in [Rounds -> Statuses \cup {"none"}]
            PROVE  ActiveRound' \in Rounds \cup {None}
        BY <4>1, ActiveRoundNextIsRound
      <4>. QED
        BY <4>1
    <3>3. PassesUnchecked(c) => call[c].pc \in {"enrollment", "locked"}
      BY DEF PassesUnchecked
    <3>4. Enrolled(c)' \subseteq Rounds /\ Admitted(c)' \subseteq Rounds /\ Shared(c)' \subseteq Rounds
      BY DEF Enrolled, Admitted, Shared
    <3>5. /\ was.active \subseteq Rounds /\ was.enrolled \subseteq Rounds
          /\ was.admitted \subseteq Rounds /\ was.shared \subseteq Rounds
          /\ was.standing \in BOOLEAN /\ was.unchecked \subseteq {"enrollment", "locked"}
      BY DEF DuringRow
    <3>6. (was.standing \/ Standing(c)') \in BOOLEAN
      OBVIOUS
    <3>7. PICK active \in SUBSET Rounds, enrolled \in SUBSET Rounds, admitted \in SUBSET Rounds,
               shared \in SUBSET Rounds, standing \in BOOLEAN,
               unchecked \in SUBSET {"enrollment", "locked"} :
            /\ active = was.active \cup ({ActiveRound'} \ {None})
            /\ enrolled = was.enrolled \cup Enrolled(c)'
            /\ admitted = was.admitted \cup Admitted(c)'
            /\ shared = was.shared \cup Shared(c)'
            /\ standing = (was.standing \/ Standing(c)')
            /\ unchecked = was.unchecked \cup (IF PassesUnchecked(c) THEN {call[c].pc} ELSE {})
      <4>1. /\ was.active \cup ({ActiveRound'} \ {None}) \in SUBSET Rounds
            /\ was.enrolled \cup Enrolled(c)' \in SUBSET Rounds
            /\ was.admitted \cup Admitted(c)' \in SUBSET Rounds
            /\ was.shared \cup Shared(c)' \in SUBSET Rounds
        BY <3>2, <3>4, <3>5
      <4>2. was.unchecked \cup (IF PassesUnchecked(c) THEN {call[c].pc} ELSE {})
              \in SUBSET {"enrollment", "locked"}
        BY <3>3, <3>5
      <4>. QED
        BY <3>6, <4>1, <4>2, Zenon
    <3>8. Remembered(c) = [active |-> active, enrolled |-> enrolled, admitted |-> admitted,
                           shared |-> shared, standing |-> standing, unchecked |-> unchecked]
      BY <2>2, <3>1, <3>7 DEF Remembered
    <3>. QED
      BY <3>8 DEF DuringRow
  <2>. QED
    BY <2>1, <2>2
<1>. QED
  BY <1>1 DEF Remember

\* What has been seen of a call that did not move itself is still seen; of what
\* it is about, only the order may have gone.
LEMMA SeenStays ==
  ASSUME IInv, Remember, NEW c \in Calls, call'[c] = call[c],
         call[c].pc \in {"target", "cancel"} /\ call'[call[c].target].pc = "ordered" =>
           call'[call[c].target] = call[call[c].target]
  PROVE  Underway(c)' => NowSeen(c)' /\ ChecksSeen(c)'
<1>. SUFFICES ASSUME Underway(c)' PROVE NowSeen(c)' /\ ChecksSeen(c)'
  OBVIOUS
<1>1. ChecksSeen(c)
  BY DEF Underway, IInv
<1>2. PICK was, is : /\ was = during[c] /\ is = during'[c]
                     /\ was.active \subseteq is.active /\ was.enrolled \subseteq is.enrolled
                     /\ was.admitted \subseteq is.admitted /\ was.shared \subseteq is.shared
                     /\ was.standing => is.standing
                     /\ was.unchecked \subseteq is.unchecked
  BY MemoryGrows
<1>3. (EnrollmentSeen(c) => EnrollmentSeen(c)') /\ (AdmissionSeen(c) => AdmissionSeen(c)')
  BY <1>2 DEF EnrollmentSeen, AdmissionSeen
<1>4. call[c].pc = "cancel" => (OwnershipSeen(c) => OwnershipSeen(c)')
  BY <1>2 DEF OwnershipSeen
<1>5. ChecksSeen(c)'
  BY <1>1, <1>2, <1>3, <1>4 DEF ChecksSeen
<1>. QED
  BY <1>5, MemoryGrows

\* An activation that nothing was taken away from is as ready as it was.
LEMMA ReadinessStays ==
  ASSUME IInv, Remember, NEW q \in Requests, request'[q] = request[q]
  PROVE  RequestIsSomeones(q)' /\ (q \notin disturbed' => StartIsReady(q)')
<1>1. RequestIsSomeones(q)
  BY DEF IInv
<1>2. RequestIsSomeones(q)'
  BY <1>1 DEF RequestIsSomeones
<1>3. ASSUME q \notin disturbed', request[q].pc \notin {"idle", "ended"},
             request[q].kind = "activate"
      PROVE  StartIsReady(q)'
  <2>1. StartIsReady(q) /\ ~TakenAway(q)
    BY <1>3 DEF Remember, IInv
  <2>2. PICK r \in Rounds : r = request[q].round
    <3>1. request[q] \in RequestRow
      BY DEF IInv, TypeOK
    <3>. QED
      BY <1>1, <1>3, <3>1 DEF RequestIsSomeones, RequestRow
  <2>3. /\ strict'[r] = strict[r]
        /\ \A other \in Rounds \ {r} : status[other] # "active" => status'[other] # "active"
    BY <1>3, <2>1, <2>2 DEF TakenAway
  <2>4. ASSUME NEW t \in Teams
        PROVE  /\ enrollment'[<<r, t>>] = enrollment[<<r, t>>]
               /\ lock[<<r, t>>] # None => lock'[<<r, t>>] = lock[<<r, t>>]
               /\ teamActive[t] => teamActive'[t]
    BY <1>3, <2>1, <2>2 DEF TakenAway
  <2>5. ASSUME NEW a \in Agents, agent[a] = "active"
        PROVE  agent'[a] = "active"
    BY <1>3, <2>1, <2>5 DEF TakenAway
  <2>6. HasActiveTeam(r) => HasActiveTeam(r)'
    <3>1. ASSUME NEW t \in Teams, enrollment[<<r, t>>] = "active" /\ teamActive[t]
          PROVE  enrollment'[<<r, t>>] = "active" /\ teamActive'[t]
      BY <2>4, <3>1
    <3>. QED
      BY <3>1 DEF HasActiveTeam
  <2>7. LocksComplete(r) => LocksComplete(r)'
    <3>1. \A t \in Teams : lock[<<r, t>>] \in Agents \cup {None}
      BY DEF IInv, TypeOK, Membership
    <3>2. ASSUME LocksComplete(r), NEW t \in Teams, enrollment'[<<r, t>>] = "active"
          PROVE  /\ teamActive'[t]
                 /\ lock'[<<r, t>>] # None
                 /\ TeamOf[lock'[<<r, t>>]] = t
                 /\ agent'[lock'[<<r, t>>]] = "active"
      <4>1. enrollment[<<r, t>>] = "active"
        BY <2>4, <3>2
      <4>2. /\ teamActive[t] /\ lock[<<r, t>>] # None
            /\ TeamOf[lock[<<r, t>>]] = t /\ agent[lock[<<r, t>>]] = "active"
        BY <3>2, <4>1 DEF LocksComplete
      <4>3. lock'[<<r, t>>] = lock[<<r, t>>] /\ lock[<<r, t>>] \in Agents
        BY <2>4, <3>1, <4>2
      <4>. QED
        BY <2>4, <2>5, <4>2, <4>3
    <3>. QED
      BY <3>2 DEF LocksComplete
  <2>. QED
    BY <2>1, <2>2, <2>3, <2>6, <2>7 DEF StartIsReady
<1>4. CASE request[q].pc \in {"idle", "ended"} \/ request[q].kind # "activate"
  BY <1>1, <1>4 DEF StartIsReady, RequestIsSomeones
<1>. QED
  BY <1>2, <1>3, <1>4

-----------------------------------------------------------------------------
(***************************************************************************)
(* The steps of a call                                                     *)
(***************************************************************************)
\* What a step of call c leaves alone: the tables, the requests and the other
\* calls; and an order stays one.
CallFrame(c) ==
  /\ UNCHANGED <<tables, request>>
  /\ Remember
  /\ call[c].pc \notin {"ordered", "ended"}
  /\ call' \in [Calls -> CallRow]
  /\ \A d \in Calls \ {c} : call'[d] = call[d]

\* It remains to look at the call itself.
LEMMA CallKeeps ==
  ASSUME IInv, NEW c \in Calls, CallFrame(c),
         call'[c].pc \in {"member", "agentLocked", "insert", "ordered", "cancel"} =>
           call'[c].round # None,
         CallIsSomeones(c)',
         Underway(c)' => ChecksSeen(c)'
  PROVE  IInv'
<1>1. TypeOK'
  <2>1. during' \in [Calls -> DuringRow] /\ disturbed' \subseteq Requests
    BY MemoryIsTyped DEF CallFrame, Remember, tables, IInv, TypeOK
  <2>. QED
    BY <2>1 DEF IInv, TypeOK, CallFrame, tables
<1>2. LocksAreOwn'
  BY DEF IInv, LocksAreOwn, CallFrame, tables
<1>3. ASSUME NEW d \in Calls \ {c}
      PROVE  CallIsSomeones(d)' /\ (Underway(d)' => NowSeen(d)' /\ ChecksSeen(d)')
  <2>1. CallIsSomeones(d) /\ call'[d] = call[d]
    BY DEF IInv, CallFrame
  <2>2. call[d].pc \in {"target", "cancel"} => call'[call[d].target] = call[call[d].target]
    BY <2>1 DEF CallIsSomeones, CallFrame
  <2>3. CallIsSomeones(d)'
    BY <2>1, <2>2 DEF CallIsSomeones
  <2>. QED
    BY <2>1, <2>2, <2>3, SeenStays DEF CallFrame
<1>4. Underway(c)' => NowSeen(c)'
  BY MemoryGrows DEF CallFrame
<1>5. ASSUME NEW q \in Requests
      PROVE  RequestIsSomeones(q)' /\ (q \notin disturbed' => StartIsReady(q)')
  BY ReadinessStays DEF CallFrame
<1>. QED
  BY <1>1, <1>2, <1>3, <1>4, <1>5 DEF IInv

\* A call that ends is no call any more.
LEMMA EndCallKeeps ==
  ASSUME IInv, Remember, NEW c \in Calls, call[c].pc \notin {"ordered", "ended"},
         EndCall(c), UNCHANGED <<tables, request>>
  PROVE  IInv'
<1>1. /\ call' \in [Calls -> CallRow] /\ call'[c].pc = "ended"
      /\ \A d \in Calls \ {c} : call'[d] = call[d]
  BY RowsAreRows DEF EndCall, IInv, TypeOK
<1>2. CallFrame(c) /\ CallIsSomeones(c)' /\ ~Underway(c)'
  BY <1>1 DEF CallFrame, CallIsSomeones, Underway
<1>. QED
  BY <1>1, <1>2, CallKeeps

\* What going to the next step does to the row.
LEMMA GotoRow ==
  ASSUME IInv, NEW c \in Calls, NEW pc, NEW r \in Rounds \cup {None}, Goto(c, pc, r),
         pc \in {"member", "locked", "agentLocked", "handler", "insert", "ordered", "cancel"}
  PROVE  /\ call' \in [Calls -> CallRow]
         /\ \A d \in Calls \ {c} : call'[d] = call[d]
         /\ call'[c].pc = pc /\ call'[c].round = r /\ call'[c].agent = call[c].agent
         /\ call'[c].kind = call[c].kind /\ call'[c].seen = call[c].seen
         /\ call'[c].target = call[c].target
<1>1. call \in [Calls -> CallRow] /\ call[c] \in CallRow
  BY DEF IInv, TypeOK
<1>2. call' = [call EXCEPT ![c] = [call[c] EXCEPT !.pc = pc, !.round = r]]
  BY <1>1 DEF Goto, CallRow
<1>3. [call[c] EXCEPT !.pc = pc, !.round = r] \in CallRow
  BY <1>1 DEF CallRow
<1>. QED
  BY <1>1, <1>2, <1>3 DEF CallRow

\* What a call that goes on has seen before, and sees now.
LEMMA GoesOn ==
  ASSUME IInv, Remember, NEW c \in Calls, Underway(c), Underway(c)'
  PROVE  /\ CallIsSomeones(c) /\ ChecksSeen(c) /\ NowSeen(c)
         /\ EnrollmentSeen(c) => EnrollmentSeen(c)'
         /\ AdmissionSeen(c) => AdmissionSeen(c)'
         /\ during[c].standing => during'[c].standing
         /\ during[c].active \subseteq during'[c].active
         /\ during[c].shared \subseteq during'[c].shared
         /\ NowSeen(c)'
<1>1. CallIsSomeones(c) /\ ChecksSeen(c) /\ NowSeen(c)
  BY DEF IInv
<1>2. PICK was, is : /\ was = during[c] /\ is = during'[c]
                     /\ was.active \subseteq is.active /\ was.enrolled \subseteq is.enrolled
                     /\ was.admitted \subseteq is.admitted /\ was.unchecked \subseteq is.unchecked
  BY MemoryGrows
<1>3. (EnrollmentSeen(c) => EnrollmentSeen(c)') /\ (AdmissionSeen(c) => AdmissionSeen(c)')
  BY <1>2 DEF EnrollmentSeen, AdmissionSeen
<1>. QED
  BY <1>1, <1>3, MemoryGrows

LEMMA AuthenticateKeeps ==
  ASSUME IInv, Remember, NEW c \in Calls, NEW a \in Agents, NEW kind \in {"order", "cancel"},
         Authenticate(c, a, kind)
  PROVE  IInv'
<1>1. CASE ~(teamActive[TeamOf[a]] /\ agent[a] # "revoked")
  BY <1>1, EndCallKeeps DEF Authenticate
<1>2. CASE teamActive[TeamOf[a]] /\ agent[a] # "revoked"
  <2>1. agent[a] \in {"active", "paused"}
    BY <1>2 DEF IInv, TypeOK
  <2>0. PICK row : row = [NewCall EXCEPT !.pc = "enrollment", !.kind = kind,
                                        !.agent = a, !.seen = agent[a]]
    OBVIOUS
  <2>2. /\ row \in CallRow
        /\ row.pc = "enrollment" /\ row.agent = a /\ row.seen = agent[a]
    BY <2>0, <2>1 DEF NewCall, CallRow
  <2>3. call' = [call EXCEPT ![c] = row]
    BY <1>2, <2>0 DEF Authenticate
  <2>4. call' \in [Calls -> CallRow] /\ call'[c] = row /\ \A d \in Calls \ {c} : call'[d] = call[d]
    BY <2>2, <2>3 DEF IInv, TypeOK
  <2>5. CallFrame(c)
    BY <2>4 DEF CallFrame, Authenticate
  <2>6. CallIsSomeones(c)' /\ Underway(c)'
    BY <2>2, <2>4 DEF CallIsSomeones, Underway
  <2>7. call'[c].seen = "active" => Standing(c)'
    BY <1>2, <2>2, <2>4 DEF Standing, Authenticate, tables
  <2>8. ChecksSeen(c)'
    BY <2>2, <2>4, <2>6, <2>7, MemoryGrows DEF ChecksSeen, NowSeen
  <2>. QED
    BY <2>2, <2>4, <2>5, <2>6, <2>8, CallKeeps
<1>. QED
  BY <1>1, <1>2

\* A step that goes to the next check: what it is about stays, and what it has
\* seen as well.
LEMMA GotoKeeps ==
  ASSUME IInv, Remember, NEW c \in Calls, NEW pc, NEW r \in Rounds \cup {None}, Goto(c, pc, r),
         UNCHANGED <<tables, request>>, Underway(c),
         pc \in {"member", "locked", "agentLocked", "handler", "insert"},
         pc \in {"member", "agentLocked", "insert"} => r # None /\ r \in during'[c].active,
         pc = "insert" => call[c].kind = "order",
         pc \in {"agentLocked", "handler", "insert"} => call[c].seen = "active",
         pc \in {"locked", "agentLocked", "handler", "insert"} => EnrollmentSeen(c)',
         pc \in {"handler", "insert"} => AdmissionSeen(c)'
  PROVE  IInv'
<1>1. CallFrame(c)
  BY GotoRow DEF CallFrame, Underway
<1>2. Underway(c)'
  BY GotoRow DEF Underway
<1>3. CallIsSomeones(c)'
  BY <1>2, GoesOn, GotoRow DEF CallIsSomeones, Underway
<1>4. ChecksSeen(c)'
  <2>1. call[c].seen = "active" => during'[c].standing
    BY <1>2, GoesOn DEF ChecksSeen
  <2>. QED
    BY <2>1, GotoRow DEF ChecksSeen
<1>. QED
  BY <1>1, <1>3, <1>4, GotoRow, CallKeeps

LEMMA ReadRoundForEnrollmentKeeps ==
  ASSUME IInv, Remember, NEW c \in Calls, ReadRoundForEnrollment(c)
  PROVE  IInv'
<1>1. /\ call[c].pc = "enrollment" /\ UNCHANGED <<tables, request>> /\ Underway(c)
      /\ ActiveRound \in Rounds \cup {None}
  BY ActiveRoundIsActive DEF IInv, TypeOK, ReadRoundForEnrollment, Underway
<1>2. CASE ActiveRound # None /\ Goto(c, "member", ActiveRound)
  <2>1. Underway(c)'
    BY <1>1, <1>2, GotoRow DEF Underway
  <2>2. ActiveRound \in during'[c].active
    BY <1>1, <1>2, <2>1, GoesOn DEF NowSeen
  <2>. QED
    BY <1>1, <1>2, <2>2, GotoKeeps
<1>3. CASE Goto(c, "locked", None)
  <2>1. Underway(c)' /\ PassesUnchecked(c)
    BY <1>1, <1>3, GotoRow DEF Underway, PassesUnchecked
  <2>2. EnrollmentSeen(c)'
    BY <1>1, <2>1, MemoryGrows DEF EnrollmentSeen
  <2>. QED
    BY <1>1, <1>3, <2>2, GotoKeeps
<1>. QED
  BY <1>2, <1>3 DEF ReadRoundForEnrollment

LEMMA CheckEnrollmentKeeps ==
  ASSUME IInv, Remember, NEW c \in Calls, CheckEnrollment(c)
  PROVE  IInv'
<1>1. /\ call[c].pc = "member" /\ UNCHANGED <<tables, request>> /\ Underway(c)
      /\ call[c].round \in Rounds
  BY DEF IInv, TypeOK, CallRow, CheckEnrollment, Underway
<1>2. CASE EnrolledNow(c)
  <2>1. Goto(c, "locked", None)
    BY <1>2 DEF CheckEnrollment
  <2>2. Underway(c)'
    BY <2>1, GotoRow DEF Underway
  <2>3. call[c].round \in Enrolled(c)
    BY <1>1, <1>2 DEF Enrolled, EnrolledNow
  <2>4. EnrollmentSeen(c)
    BY <1>1, <2>2, <2>3, GoesOn DEF EnrollmentSeen, NowSeen, ChecksSeen
  <2>. QED
    BY <1>1, <2>1, <2>2, <2>4, GoesOn, GotoKeeps
<1>3. CASE ~EnrolledNow(c)
  BY <1>1, <1>3, EndCallKeeps DEF CheckEnrollment
<1>. QED
  BY <1>2, <1>3

LEMMA ReadRoundForLockKeeps ==
  ASSUME IInv, Remember, NEW c \in Calls, ReadRoundForLock(c)
  PROVE  IInv'
<1>1. /\ call[c].pc = "locked" /\ UNCHANGED <<tables, request>> /\ Underway(c)
      /\ ActiveRound \in Rounds \cup {None}
  BY ActiveRoundIsActive DEF IInv, TypeOK, ReadRoundForLock, Underway
<1>2. CASE call[c].seen # "active" /\ EndCall(c)
  BY <1>1, <1>2, EndCallKeeps
<1>3. CASE /\ call[c].seen = "active" /\ ActiveRound # None
           /\ Goto(c, "agentLocked", ActiveRound)
  <2>1. Underway(c)'
    BY <1>1, <1>3, GotoRow DEF Underway
  <2>2. ActiveRound \in during'[c].active /\ EnrollmentSeen(c)'
    BY <1>1, <1>3, <2>1, GoesOn DEF NowSeen, ChecksSeen
  <2>. QED
    BY <1>1, <1>3, <2>2, GotoKeeps
<1>4. CASE call[c].seen = "active" /\ Goto(c, "handler", None)
  <2>1. Underway(c)' /\ call'[c].pc = "handler"
    BY <1>1, <1>4, GotoRow DEF Underway
  <2>2. EnrollmentSeen(c)'
    BY <1>1, <2>1, GoesOn DEF ChecksSeen
  <2>3. AdmissionSeen(c)'
    <3>1. CASE PassesUnchecked(c)
      BY <1>1, <2>1, <3>1, MemoryGrows DEF AdmissionSeen
    <3>2. CASE ~PassesUnchecked(c)
      <4>1. ActiveRound # None /\ ~strict[ActiveRound]
        BY <1>1, <2>1, <3>2 DEF PassesUnchecked
      <4>2. ActiveRound \in Admitted(c) /\ NowSeen(c)
        BY <1>1, <2>1, <4>1, GoesOn DEF Admitted
      <4>3. AdmissionSeen(c)
        BY <4>1, <4>2 DEF AdmissionSeen, NowSeen
      <4>. QED
        BY <1>1, <2>1, <4>3, GoesOn
    <3>. QED
      BY <3>1, <3>2
  <2>. QED
    BY <1>1, <1>4, <2>2, <2>3, GotoKeeps
<1>. QED
  BY <1>2, <1>3, <1>4 DEF ReadRoundForLock

LEMMA CheckLockKeeps ==
  ASSUME IInv, Remember, NEW c \in Calls, CheckLock(c)
  PROVE  IInv'
<1>1. /\ call[c].pc = "agentLocked" /\ UNCHANGED <<tables, request>> /\ Underway(c)
      /\ call[c].round \in Rounds /\ call[c].agent \in Agents
  BY DEF IInv, TypeOK, CallRow, CallIsSomeones, CheckLock, Underway
<1>2. CASE IsLocked(call[c].round, call[c].agent)
  <2>1. Goto(c, "handler", None)
    BY <1>2 DEF CheckLock
  <2>2. Underway(c)'
    BY <2>1, GotoRow DEF Underway
  <2>3. lock[<<call[c].round, TeamOf[call[c].agent]>>] = call[c].agent
    BY <1>1, <1>2, RoundAssumption DEF IsLocked, IInv, LocksAreOwn
  <2>4. call[c].round \in Admitted(c)
    BY <1>1, <2>3 DEF Admitted
  <2>5. AdmissionSeen(c) /\ EnrollmentSeen(c) /\ call[c].seen = "active"
    BY <1>1, <2>2, <2>4, GoesOn DEF AdmissionSeen, NowSeen, ChecksSeen
  <2>. QED
    BY <1>1, <2>1, <2>2, <2>5, GoesOn, GotoKeeps
<1>3. CASE ~IsLocked(call[c].round, call[c].agent)
  BY <1>1, <1>3, EndCallKeeps DEF CheckLock
<1>. QED
  BY <1>2, <1>3

LEMMA ReadRoundInHandlerKeeps ==
  ASSUME IInv, Remember, NEW c \in Calls, ReadRoundInHandler(c)
  PROVE  IInv'
<1>1. /\ call[c].pc = "handler" /\ call[c].kind = "order" /\ UNCHANGED <<tables, request>>
      /\ Underway(c) /\ ActiveRound \in Rounds \cup {None}
  BY ActiveRoundIsActive DEF IInv, TypeOK, ReadRoundInHandler, Underway
<1>2. CASE ActiveRound # None
  <2>1. Goto(c, "insert", ActiveRound)
    BY <1>2 DEF ReadRoundInHandler
  <2>2. Underway(c)'
    BY <1>1, <2>1, GotoRow DEF Underway
  <2>3. /\ ActiveRound \in during'[c].active /\ EnrollmentSeen(c)' /\ AdmissionSeen(c)'
        /\ call[c].seen = "active"
    BY <1>1, <1>2, <2>2, GoesOn DEF NowSeen, ChecksSeen
  <2>. QED
    BY <1>1, <1>2, <2>1, <2>3, GotoKeeps
<1>3. CASE ActiveRound = None
  BY <1>1, <1>3, EndCallKeeps DEF ReadRoundInHandler
<1>. QED
  BY <1>2, <1>3

LEMMA InsertOrderKeeps ==
  ASSUME IInv, Remember, NEW c \in Calls, InsertOrder(c)
  PROVE  IInv'
<1>1. /\ call[c].pc = "insert" /\ UNCHANGED <<tables, request>>
      /\ Goto(c, "ordered", call[c].round) /\ call[c].round \in Rounds
      /\ CallIsSomeones(c)
  BY DEF IInv, TypeOK, CallRow, InsertOrder
<1>2. CallFrame(c)
  BY <1>1, GotoRow DEF CallFrame
<1>3. CallIsSomeones(c)' /\ ~Underway(c)'
  BY <1>1, GotoRow DEF CallIsSomeones, Underway
<1>4. call'[c].round # None
  <2>1. call'[c].round = call[c].round
    BY <1>1, GotoRow
  <2>2. None \notin Rounds
    BY RoundAssumption
  <2>. QED
    BY <1>1, <2>1, <2>2
<1>. QED
  BY <1>2, <1>3, <1>4, CallKeeps

LEMMA FindOrderKeeps ==
  ASSUME IInv, Remember, NEW c \in Calls, NEW target \in Calls, FindOrder(c, target)
  PROVE  IInv'
<1>1. /\ call[c].pc = "handler" /\ call[c].kind = "cancel"
      /\ UNCHANGED <<tables, request>>
      /\ call[target].pc = "ordered" /\ TeamOf[call[target].agent] = TeamOf[call[c].agent]
      /\ Underway(c) /\ CallIsSomeones(c) /\ call[c] \in CallRow
  BY DEF IInv, TypeOK, FindOrder, Ordered, Underway
<1>0. PICK row : row = [call[c] EXCEPT !.pc = "target", !.target = target]
  OBVIOUS
<1>2.   /\ row \in CallRow
        /\ row.pc = "target" /\ row.target = target /\ row.agent = call[c].agent
        /\ row.kind = call[c].kind /\ row.seen = call[c].seen /\ row.round = call[c].round
  BY <1>0, <1>1 DEF CallRow
<1>3. /\ call' \in [Calls -> CallRow] /\ call'[c] = row
      /\ \A d \in Calls \ {c} : call'[d] = call[d]
  <2>1. call' = [call EXCEPT ![c] = [call[c] EXCEPT !.pc = "target", !.target = target]]
    BY <1>1 DEF FindOrder, CallRow, IInv, TypeOK
  <2>. QED
    BY <1>0, <1>2, <2>1 DEF IInv, TypeOK
<1>4. CallFrame(c)
  BY <1>1, <1>3 DEF CallFrame
<1>5. CallIsSomeones(c)' /\ Underway(c)'
  BY <1>1, <1>2, <1>3 DEF CallIsSomeones, Underway
<1>6. ChecksSeen(c)'
  BY <1>1, <1>2, <1>3, <1>5, GoesOn DEF ChecksSeen
<1>. QED
  BY <1>2, <1>3, <1>4, <1>5, <1>6, CallKeeps

LEMMA CheckCancelKeeps ==
  ASSUME IInv, Remember, NEW c \in Calls, CheckCancel(c)
  PROVE  IInv'
<1>1. /\ call[c].pc = "target" /\ UNCHANGED <<tables, request>>
      /\ Underway(c) /\ CallIsSomeones(c) /\ ActiveRound \in Rounds \cup {None}
  BY ActiveRoundIsActive DEF IInv, TypeOK, CheckCancel, Underway
<1>2. CASE ActiveRound # None /\ OwnOrder(c)
  <2>1. Goto(c, "cancel", ActiveRound)
    BY <1>2 DEF CheckCancel
  <2>2. CallFrame(c) /\ Underway(c)'
    BY <1>1, <2>1, GotoRow DEF CallFrame, Underway
  <2>3. call[c].target \in Calls \ {c} /\ call'[call[c].target] = call[call[c].target]
    BY <1>1, <2>2 DEF CallIsSomeones, CallFrame
  <2>4. CallIsSomeones(c)'
    BY <1>1, <2>1, <2>3, GotoRow DEF CallIsSomeones
  <2>5. ~strict[ActiveRound] => ActiveRound \in Shared(c)
    BY <1>1, <1>2 DEF Shared
  <2>6. OwnershipSeen(c)'
    BY <1>1, <1>2, <2>1, <2>2, <2>3, <2>5, GotoRow, GoesOn DEF OwnershipSeen, OwnOrder, NowSeen
  <2>7. ActiveRound \in during'[c].active
    BY <1>1, <1>2, <2>2, GoesOn DEF NowSeen
  <2>8. ChecksSeen(c)'
    BY <1>1, <2>1, <2>2, <2>6, <2>7, GotoRow, GoesOn DEF ChecksSeen
  <2>. QED
    BY <1>1, <1>2, <2>1, <2>2, <2>4, <2>8, GotoRow, CallKeeps
<1>3. CASE ~(ActiveRound # None /\ OwnOrder(c))
  BY <1>1, <1>3, EndCallKeeps DEF CheckCancel
<1>. QED
  BY <1>2, <1>3

LEMMA WriteCanceledKeeps ==
  ASSUME IInv, Remember, NEW c \in Calls, WriteCanceled(c)
  PROVE  IInv'
BY EndCallKeeps DEF WriteCanceled

-----------------------------------------------------------------------------
(***************************************************************************)
(* The steps of a request                                                  *)
(***************************************************************************)
\* What a step of request q leaves alone: the other requests, and the calls but
\* for the orders that a reset takes away.
RequestFrame(q) ==
  /\ Remember
  /\ request' \in [Requests -> RequestRow]
  /\ \A p \in Requests \ {q} : request'[p] = request[p]
  /\ call' \in [Calls -> CallRow]
  /\ \A c \in Calls : \/ call'[c] = call[c]
                      \/ call[c].pc = "ordered" /\ call'[c].pc = "ended"

\* A call has seen what it has seen.
LEMMA CallsKeep ==
  ASSUME IInv, NEW q \in Requests, RequestFrame(q), NEW c \in Calls
  PROVE  CallIsSomeones(c)' /\ (Underway(c)' => NowSeen(c)' /\ ChecksSeen(c)')
<1>1. CallIsSomeones(c)
  BY DEF IInv
<1>2. CallIsSomeones(c)'
  BY <1>1 DEF CallIsSomeones, RequestFrame
<1>3. CASE call'[c] = call[c]
  <2>1. call[c].pc \in {"target", "cancel"} /\ call'[call[c].target].pc = "ordered" =>
          call'[call[c].target] = call[call[c].target]
    BY <1>1 DEF CallIsSomeones, RequestFrame
  <2>. QED
    BY <1>2, <1>3, <2>1, SeenStays DEF RequestFrame
<1>4. CASE call'[c].pc = "ended"
  BY <1>2, <1>4 DEF Underway
<1>. QED
  BY <1>3, <1>4 DEF RequestFrame

\* It remains to look at the tables and at the request itself.
LEMMA RequestKeeps ==
  ASSUME IInv, NEW q \in Requests, RequestFrame(q),
         status' \in [Rounds -> Statuses \cup {"none"}],
         strict' \in [Rounds -> BOOLEAN],
         enrollment' \in [Membership -> Memberships \cup {"none"}],
         lock' \in [Membership -> Agents \cup {None}],
         teamActive' \in [Teams -> BOOLEAN],
         agent' \in [Agents -> {"active", "paused", "revoked"}],
         LocksAreOwn',
         RequestIsSomeones(q)',
         q \notin disturbed' => StartIsReady(q)'
  PROVE  IInv'
<1>1. TypeOK'
  <2>1. \A c \in Calls : call'[c].pc \in {"member", "agentLocked", "insert", "ordered", "cancel"} =>
                           call'[c].round # None
    BY DEF IInv, TypeOK, RequestFrame
  <2>2. disturbed' \subseteq Requests /\ during' \in [Calls -> DuringRow]
    BY MemoryIsTyped DEF RequestFrame, Remember
  <2>. QED
    BY <2>1, <2>2 DEF TypeOK, RequestFrame
<1>. QED
  BY <1>1, CallsKeep, ReadinessStays DEF IInv, RequestFrame

\* A request that ends is no request any more.
LEMMA EndedIsReady ==
  ASSUME IInv, NEW q \in Requests, EndRequest(q)
  PROVE  /\ request' \in [Requests -> RequestRow]
         /\ \A p \in Requests \ {q} : request'[p] = request[p]
         /\ RequestIsSomeones(q)' /\ StartIsReady(q)'
<1>1. /\ request' \in [Requests -> RequestRow] /\ request'[q].pc = "ended"
      /\ \A p \in Requests \ {q} : request'[p] = request[p]
  BY RowsAreRows DEF EndRequest, IInv, TypeOK
<1>. QED
  BY <1>1 DEF RequestIsSomeones, StartIsReady

\* The requests that are one statement, and the last ones of the others, which
\* leave the locks alone or take them away.
LEMMA SingleWriteKeeps ==
  ASSUME IInv, Remember, NEW q \in Requests, EndRequest(q),
         call' \in [Calls -> CallRow],
         \A c \in Calls : \/ call'[c] = call[c]
                          \/ call[c].pc = "ordered" /\ call'[c].pc = "ended",
         status' \in [Rounds -> Statuses \cup {"none"}],
         strict' \in [Rounds -> BOOLEAN],
         enrollment' \in [Membership -> Memberships \cup {"none"}],
         lock' \in [Membership -> Agents \cup {None}],
         teamActive' \in [Teams -> BOOLEAN],
         agent' \in [Agents -> {"active", "paused", "revoked"}],
         LocksAreOwn'
  PROVE  IInv'
<1>1. RequestFrame(q)
  BY EndedIsReady DEF RequestFrame
<1>. QED
  BY <1>1, EndedIsReady, RequestKeeps

LEMMA CreateRoundKeeps ==
  ASSUME IInv, Remember, NEW q \in Requests, NEW s \in Statuses, NEW required \in BOOLEAN,
         CreateRound(q, s, required)
  PROVE  IInv'
<1>1. LocksAreOwn'
  BY DEF IInv, LocksAreOwn, CreateRound
<1>2. \A new : /\ [status EXCEPT ![new] = s] \in [Rounds -> Statuses \cup {"none"}]
               /\ [strict EXCEPT ![new] = required] \in [Rounds -> BOOLEAN]
  BY DEF IInv, TypeOK
<1>3. status' \in [Rounds -> Statuses \cup {"none"}] /\ strict' \in [Rounds -> BOOLEAN]
  BY <1>2 DEF CreateRound
<1>. QED
  BY <1>1, <1>3, SingleWriteKeeps DEF CreateRound, Write, IInv, TypeOK

LEMMA SetRoundStatusKeeps ==
  ASSUME IInv, Remember, NEW q \in Requests, NEW r \in Rounds, NEW kind \in Kinds,
         NEW s \in Statuses, SetRoundStatus(q, r, kind, s)
  PROVE  IInv'
<1>1. LocksAreOwn'
  BY DEF IInv, LocksAreOwn, SetRoundStatus
<1>. QED
  BY <1>1, SingleWriteKeeps DEF SetRoundStatus, Write, IInv, TypeOK

LEMMA ResetRoundKeeps ==
  ASSUME IInv, Remember, NEW q \in Requests, NEW r \in Rounds, ResetRound(q, r)
  PROVE  IInv'
<1>1. LocksAreOwn'
  BY DEF IInv, LocksAreOwn, ResetRound
<1>2. /\ call' \in [Calls -> CallRow]
      /\ \A c \in Calls : \/ call'[c] = call[c]
                          \/ call[c].pc = "ordered" /\ call'[c].pc = "ended"
  BY RowsAreRows DEF ResetRound, Ordered, IInv, TypeOK
<1>3. status' \in [Rounds -> Statuses \cup {"none"}]
  BY DEF ResetRound, IInv, TypeOK, Statuses
<1>. QED
  BY <1>1, <1>2, <1>3, SingleWriteKeeps DEF ResetRound, Write, IInv, TypeOK

LEMMA SetRoundRequireLockedAgentsKeeps ==
  ASSUME IInv, Remember, NEW q \in Requests, NEW r \in Rounds, NEW required \in BOOLEAN,
         SetRoundRequireLockedAgents(q, r, required)
  PROVE  IInv'
<1>1. LocksAreOwn'
  BY DEF IInv, LocksAreOwn, SetRoundRequireLockedAgents
<1>. QED
  BY <1>1, SingleWriteKeeps DEF SetRoundRequireLockedAgents, Write, IInv, TypeOK

LEMMA EnrollRoundTeamKeeps ==
  ASSUME IInv, Remember, NEW q \in Requests, NEW m \in Membership, EnrollRoundTeam(q, m)
  PROVE  IInv'
<1>1. LocksAreOwn'
  BY DEF IInv, LocksAreOwn, EnrollRoundTeam
<1>2. enrollment' \in [Membership -> Memberships \cup {"none"}]
  BY DEF EnrollRoundTeam, IInv, TypeOK, Memberships
<1>. QED
  BY <1>1, <1>2, SingleWriteKeeps DEF EnrollRoundTeam, Write, IInv, TypeOK

LEMMA SetRoundTeamStatusKeeps ==
  ASSUME IInv, Remember, NEW q \in Requests, NEW m \in Membership, NEW s \in Memberships,
         SetRoundTeamStatus(q, m, s)
  PROVE  IInv'
<1>1. LocksAreOwn'
  BY DEF IInv, LocksAreOwn, SetRoundTeamStatus
<1>. QED
  BY <1>1, SingleWriteKeeps DEF SetRoundTeamStatus, Write, IInv, TypeOK

LEMMA SetTeamActiveKeeps ==
  ASSUME IInv, Remember, NEW q \in Requests, NEW t \in Teams, NEW active \in BOOLEAN,
         SetTeamActive(q, t, active)
  PROVE  IInv'
<1>1. LocksAreOwn'
  BY DEF IInv, LocksAreOwn, SetTeamActive
<1>. QED
  BY <1>1, SingleWriteKeeps DEF SetTeamActive, Write, IInv, TypeOK

LEMMA SetAgentStatusKeeps ==
  ASSUME IInv, Remember, NEW q \in Requests, NEW a \in Agents,
         NEW s \in {"active", "paused", "revoked"}, SetAgentStatus(q, a, s)
  PROVE  IInv'
<1>1. LocksAreOwn'
  BY DEF IInv, LocksAreOwn, SetAgentStatus
<1>. QED
  BY <1>1, SingleWriteKeeps DEF SetAgentStatus, Write, IInv, TypeOK

\* A step that only the request itself and its history see.
LEMMA ReadKeeps ==
  ASSUME IInv, Remember, NEW q \in Requests, UNCHANGED <<tables, call>>,
         request' \in [Requests -> RequestRow],
         \A p \in Requests \ {q} : request'[p] = request[p],
         RequestIsSomeones(q)',
         q \notin disturbed' => StartIsReady(q)'
  PROVE  IInv'
<1>1. LocksAreOwn'
  BY DEF IInv, LocksAreOwn, tables
<1>2. RequestFrame(q)
  BY DEF RequestFrame, IInv, TypeOK
<1>. QED
  BY <1>1, <1>2, RequestKeeps DEF IInv, TypeOK, tables

\* An activation that is underway and has lost nothing was as ready a step before.
LEMMA UndisturbedBefore ==
  ASSUME IInv, Remember, NEW q \in Requests, q \notin disturbed',
         request'[q].pc \notin {"idle", "ended"}
  PROVE  StartIsReady(q)
BY DEF IInv, Remember

LEMMA StartActivationKeeps ==
  ASSUME IInv, Remember, NEW q \in Requests, NEW r \in Rounds, StartActivation(q, r)
  PROVE  IInv'
<1>0. PICK row : row = [request[q] EXCEPT !.pc = "enrolled", !.kind = "activate",
                                          !.round = r, !.strict = strict[r]]
  OBVIOUS
<1>1. /\ row \in RequestRow /\ row.pc = "enrolled" /\ row.kind = "activate" /\ row.round = r
      /\ row.strict = strict[r]
  <2>1. request[q] \in RequestRow /\ strict[r] \in BOOLEAN
    BY DEF IInv, TypeOK
  <2>. QED
    BY <1>0, <2>1 DEF RequestRow, Kinds
<1>2. request' = [request EXCEPT ![q] = row]
  BY <1>0 DEF StartActivation
<1>3. /\ request' \in [Requests -> RequestRow] /\ request'[q] = row
      /\ \A p \in Requests \ {q} : request'[p] = request[p]
  BY <1>1, <1>2 DEF IInv, TypeOK
<1>4. UNCHANGED <<tables, call>>
  BY DEF StartActivation
<1>5. RequestIsSomeones(q)' /\ StartIsReady(q)'
  BY <1>1, <1>3, <1>4 DEF RequestIsSomeones, StartIsReady, tables
<1>. QED
  BY <1>3, <1>4, <1>5, ReadKeeps

\* What going to the next step does to the request's row.
LEMMA NextStepRow ==
  ASSUME IInv, NEW q \in Requests,
         NEW pc \in {"teams", "locks", "pauseOthers", "write"},
         request' = [request EXCEPT ![q].pc = pc]
  PROVE  /\ request' \in [Requests -> RequestRow]
         /\ \A p \in Requests \ {q} : request'[p] = request[p]
         /\ request'[q].pc = pc /\ request'[q].kind = request[q].kind
         /\ request'[q].round = request[q].round /\ request'[q].strict = request[q].strict
         /\ request'[q].agent = request[q].agent
<1>1. request' = [request EXCEPT ![q] = [request[q] EXCEPT !.pc = pc]]
  BY DEF IInv, TypeOK, RequestRow
<1>2. request \in [Requests -> RequestRow] /\ request[q] \in RequestRow
  BY DEF IInv, TypeOK
<1>. QED
  BY <1>1, <1>2 DEF RequestRow

LEMMA CountTeamsKeeps ==
  ASSUME IInv, Remember, NEW q \in Requests, CountTeams(q)
  PROVE  IInv'
<1>1. request[q].pc = "enrolled" /\ UNCHANGED <<tables, call>> /\ RequestIsSomeones(q)
  BY DEF CountTeams, IInv
<1>2. CASE EndRequest(q)
  BY <1>1, <1>2, EndedIsReady, ReadKeeps
<1>3. CASE request' = [request EXCEPT ![q].pc = "teams"]
  <2>1. RequestIsSomeones(q)'
    BY <1>1, <1>3, NextStepRow DEF RequestIsSomeones
  <2>2. q \notin disturbed' => StartIsReady(q)'
    BY <1>1, <1>3, NextStepRow, UndisturbedBefore DEF StartIsReady, tables
  <2>. QED
    BY <1>1, <1>3, <2>1, <2>2, NextStepRow, ReadKeeps
<1>. QED
  BY <1>2, <1>3 DEF CountTeams

LEMMA CountActiveTeamsKeeps ==
  ASSUME IInv, Remember, NEW q \in Requests, CountActiveTeams(q)
  PROVE  IInv'
<1>1. request[q].pc = "teams" /\ UNCHANGED <<tables, call>> /\ RequestIsSomeones(q)
  BY DEF CountActiveTeams, IInv
<1>2. CASE EndRequest(q)
  BY <1>1, <1>2, EndedIsReady, ReadKeeps
<1>3. ASSUME NEW pc \in {"locks", "pauseOthers"}, request' = [request EXCEPT ![q].pc = pc],
             HasActiveTeam(request[q].round), pc = "pauseOthers" => ~request[q].strict
      PROVE  IInv'
  <2>1. RequestIsSomeones(q)'
    BY <1>1, <1>3, NextStepRow DEF RequestIsSomeones
  <2>2. q \notin disturbed' => StartIsReady(q)'
    BY <1>1, <1>3, NextStepRow, UndisturbedBefore
    DEF StartIsReady, HasActiveTeam, tables
  <2>. QED
    BY <1>1, <1>3, <2>1, <2>2, NextStepRow, ReadKeeps
<1>. QED
  BY <1>2, <1>3 DEF CountActiveTeams

LEMMA CheckLocksKeeps ==
  ASSUME IInv, Remember, NEW q \in Requests, CheckLocks(q)
  PROVE  IInv'
<1>1. request[q].pc = "locks" /\ UNCHANGED <<tables, call>> /\ RequestIsSomeones(q)
  BY DEF CheckLocks, IInv
<1>2. CASE EndRequest(q)
  BY <1>1, <1>2, EndedIsReady, ReadKeeps
<1>3. CASE LocksComplete(request[q].round) /\ request' = [request EXCEPT ![q].pc = "pauseOthers"]
  <2>1. RequestIsSomeones(q)'
    BY <1>1, <1>3, NextStepRow DEF RequestIsSomeones
  <2>2. q \notin disturbed' => StartIsReady(q)'
    BY <1>1, <1>3, NextStepRow, UndisturbedBefore
    DEF StartIsReady, HasActiveTeam, LocksComplete, tables
  <2>. QED
    BY <1>1, <1>3, <2>1, <2>2, NextStepRow, ReadKeeps
<1>. QED
  BY <1>2, <1>3 DEF CheckLocks

LEMMA PauseOthersKeeps ==
  ASSUME IInv, Remember, NEW q \in Requests, PauseOthers(q)
  PROVE  IInv'
<1>1. /\ request[q].pc = "pauseOthers" /\ RequestIsSomeones(q)
      /\ request' = [request EXCEPT ![q].pc = "write"]
      /\ status' = [r \in Rounds |-> IF status[r] = "active" /\ r # request[q].round
                                     THEN "paused" ELSE status[r]]
      /\ UNCHANGED <<strict, enrollment, lock, teamActive, agent, call>>
  BY DEF PauseOthers, IInv
<1>2. RequestFrame(q)
  BY <1>1, NextStepRow DEF RequestFrame, IInv, TypeOK
<1>3. LocksAreOwn' /\ RequestIsSomeones(q)'
  BY <1>1, NextStepRow DEF IInv, LocksAreOwn, RequestIsSomeones
<1>4. ASSUME q \notin disturbed'
      PROVE  StartIsReady(q)'
  <2>1. StartIsReady(q) /\ request'[q].pc = "write" /\ request'[q].round = request[q].round
    BY <1>1, <1>4, NextStepRow, UndisturbedBefore
  <2>2. HasActiveTeam(request[q].round) /\
        (strict[request[q].round] => LocksComplete(request[q].round))
    BY <1>1, <2>1 DEF StartIsReady
  <2>. QED
    BY <1>1, <2>1, <2>2 DEF StartIsReady, HasActiveTeam, LocksComplete
<1>5. status' \in [Rounds -> Statuses \cup {"none"}]
  BY <1>1 DEF IInv, TypeOK, Statuses
<1>. QED
  BY <1>1, <1>2, <1>3, <1>4, <1>5, RequestKeeps DEF IInv, TypeOK

LEMMA ActivateKeeps ==
  ASSUME IInv, Remember, NEW q \in Requests, Activate(q)
  PROVE  IInv'
<1>1. LocksAreOwn'
  BY DEF IInv, LocksAreOwn, Activate
<1>2. status' \in [Rounds -> Statuses \cup {"none"}]
  BY DEF Activate, IInv, TypeOK, Statuses
<1>. QED
  BY <1>1, <1>2, SingleWriteKeeps DEF Activate, IInv, TypeOK

LEMMA StartLockChangeKeeps ==
  ASSUME IInv, Remember, NEW q \in Requests, NEW kind \in {"lock", "unlock"}, NEW r \in Rounds,
         NEW a \in Agents, NEW confirmed \in BOOLEAN,
         StartLockChange(q, kind, r, a, confirmed)
  PROVE  IInv'
<1>1. UNCHANGED <<tables, call>>
  BY DEF StartLockChange
<1>2. CASE EndRequest(q)
  BY <1>1, <1>2, EndedIsReady, ReadKeeps
<1>3. CASE /\ MayChangeLock(r, confirmed)
           /\ request' = [request EXCEPT ![q] = [NewRequest EXCEPT !.pc = "write", !.kind = kind,
                                                                   !.round = r, !.agent = a]]
  <2>0. PICK row : row = [NewRequest EXCEPT !.pc = "write", !.kind = kind,
                                            !.round = r, !.agent = a]
    OBVIOUS
  <2>1. /\ row \in RequestRow /\ row.pc = "write" /\ row.kind = kind /\ row.round = r
        /\ row.agent = a
    BY <2>0 DEF NewRequest, RequestRow, Kinds
  <2>2. /\ request' \in [Requests -> RequestRow] /\ request'[q] = row
        /\ \A p \in Requests \ {q} : request'[p] = request[p]
    BY <1>3, <2>0, <2>1 DEF IInv, TypeOK
  <2>3. RequestIsSomeones(q)' /\ StartIsReady(q)'
    BY <1>1, <1>3, <2>1, <2>2
    DEF RequestIsSomeones, StartIsReady, MayChangeLock, tables
  <2>. QED
    BY <1>1, <2>2, <2>3, ReadKeeps
<1>. QED
  BY <1>2, <1>3 DEF StartLockChange

LEMMA WriteLockKeeps ==
  ASSUME IInv, Remember, NEW q \in Requests, WriteLock(q)
  PROVE  IInv'
<1>1. PICK r \in Rounds, a \in Agents :
        /\ r = request[q].round /\ a = request[q].agent
        /\ EndRequest(q)
        /\ UNCHANGED <<status, strict, enrollment, teamActive, agent, call>>
        /\ \/ lock' = [lock EXCEPT ![<<r, TeamOf[a]>>] = a]
           \/ lock' = [n \in Membership |-> IF n[1] = r /\ lock[n] = a THEN None ELSE lock[n]]
  BY DEF WriteLock, IInv, RequestIsSomeones
<1>2. lock \in [Membership -> Agents \cup {None}] /\ LocksAreOwn
  BY DEF IInv, TypeOK
<1>3. CASE lock' = [lock EXCEPT ![<<r, TeamOf[a]>>] = a]
  <2>1. lock' \in [Membership -> Agents \cup {None}]
    BY <1>2, <1>3
  <2>2. LocksAreOwn'
    <3>1. ASSUME NEW s \in Rounds, NEW t \in Teams, lock'[<<s, t>>] # None
          PROVE  TeamOf[lock'[<<s, t>>]] = t
      <4>1. <<s, t>> \in Membership
        BY DEF Membership
      <4>2. CASE <<s, t>> = <<r, TeamOf[a]>>
        BY <1>2, <1>3, <4>1, <4>2
      <4>3. CASE <<s, t>> # <<r, TeamOf[a]>>
        BY <1>2, <1>3, <3>1, <4>1, <4>3 DEF LocksAreOwn
      <4>. QED
        BY <4>2, <4>3
    <3>. QED
      BY <3>1 DEF LocksAreOwn
  <2>. QED
    BY <1>1, <2>1, <2>2, SingleWriteKeeps DEF IInv, TypeOK
<1>4. CASE lock' = [n \in Membership |-> IF n[1] = r /\ lock[n] = a THEN None ELSE lock[n]]
  <2>1. lock' \in [Membership -> Agents \cup {None}]
    BY <1>2, <1>4
  <2>2. LocksAreOwn'
    <3>1. ASSUME NEW s \in Rounds, NEW t \in Teams, lock'[<<s, t>>] # None
          PROVE  TeamOf[lock'[<<s, t>>]] = t
      <4>1. <<s, t>> \in Membership
        BY DEF Membership
      <4>2. lock'[<<s, t>>] \in {None, lock[<<s, t>>]}
        BY <1>4, <4>1
      <4>. QED
        BY <1>2, <3>1, <4>2 DEF LocksAreOwn
    <3>. QED
      BY <3>1 DEF LocksAreOwn
  <2>. QED
    BY <1>1, <2>1, <2>2, SingleWriteKeeps DEF IInv, TypeOK
<1>. QED
  BY <1>1, <1>3, <1>4

-----------------------------------------------------------------------------
(***************************************************************************)
(* The theorems                                                            *)
(***************************************************************************)
LEMMA CallStepKeeps ==
  ASSUME IInv, Remember, NEW c \in Calls, CallStep(c)
  PROVE  IInv'
BY AuthenticateKeeps, ReadRoundForEnrollmentKeeps, CheckEnrollmentKeeps, ReadRoundForLockKeeps,
   CheckLockKeeps, ReadRoundInHandlerKeeps, InsertOrderKeeps, FindOrderKeeps, CheckCancelKeeps,
   WriteCanceledKeeps
DEF CallStep

LEMMA RequestStepKeeps ==
  ASSUME IInv, Remember, NEW q \in Requests, RequestStep(q)
  PROVE  IInv'
BY CreateRoundKeeps, SetRoundStatusKeeps, ResetRoundKeeps,
   SetRoundRequireLockedAgentsKeeps, EnrollRoundTeamKeeps, SetRoundTeamStatusKeeps,
   SetTeamActiveKeeps, SetAgentStatusKeeps, StartActivationKeeps, CountTeamsKeeps,
   CountActiveTeamsKeeps, CheckLocksKeeps, PauseOthersKeeps, ActivateKeeps,
   StartLockChangeKeeps, WriteLockKeeps
DEF RequestStep

LEMMA StutterKeeps ==
  ASSUME IInv, UNCHANGED vars
  PROVE  IInv'
<1>1. TypeOK' /\ LocksAreOwn'
  BY DEF IInv, TypeOK, LocksAreOwn, vars, tables
<1>2. ASSUME NEW c \in Calls
      PROVE  CallIsSomeones(c)' /\ (Underway(c)' => NowSeen(c)' /\ ChecksSeen(c)')
  <2>1. CallIsSomeones(c)' /\ (Underway(c)' => Underway(c))
    BY DEF IInv, CallIsSomeones, Underway, vars
  <2>2. NowSeen(c) => NowSeen(c)'
    BY DEF NowSeen, Enrolled, Admitted, Shared, Standing, ActiveRound, vars, tables
  <2>3. ChecksSeen(c) => ChecksSeen(c)'
    BY DEF ChecksSeen, EnrollmentSeen, AdmissionSeen, OwnershipSeen, vars
  <2>. QED
    BY <2>1, <2>2, <2>3 DEF IInv
<1>3. ASSUME NEW q \in Requests
      PROVE  RequestIsSomeones(q)' /\ (q \notin disturbed' => StartIsReady(q)')
  BY DEF IInv, RequestIsSomeones, StartIsReady, HasActiveTeam, LocksComplete, vars, tables
<1>. QED
  BY <1>1, <1>2, <1>3 DEF IInv

\* Whatever interleaves, the invariant holds.
THEOREM Invariance == Spec => []IInv
<1>1. IInv /\ [Next]_vars => IInv'
  BY CallStepKeeps, RequestStepKeeps, StutterKeeps DEF Next
<1>. QED
  BY <1>1, InitIInv, PTL DEF Spec

\* Every row stays a row of its table, and a call that is past a check of the
\* round knows the round.
THEOREM TypeCorrect == Spec => []TypeOK
<1>1. IInv => TypeOK
  BY DEF IInv
<1>. QED
  BY <1>1, Invariance, PTL

\* What is remembered of a call about to create an order or to cancel one.
LEMMA AboutToWrite ==
  ASSUME IInv, NEW c \in Calls, InsertOrder(c) \/ WriteCanceled(c)
  PROVE  /\ OrderRound(c) \in during[c].active /\ during[c].standing
         /\ EnrollmentSeen(c) /\ AdmissionSeen(c)
<1>1. /\ call[c].pc \in {"insert", "cancel"} /\ ChecksSeen(c) /\ CallIsSomeones(c)
  BY DEF IInv, InsertOrder, WriteCanceled, Underway
<1>2. CASE InsertOrder(c)
  BY <1>1, <1>2 DEF InsertOrder, OrderRound, ChecksSeen, CallIsSomeones
<1>3. CASE WriteCanceled(c)
  BY <1>1, <1>3 DEF WriteCanceled, Ordered, OrderRound, ChecksSeen, OwnershipSeen, CallIsSomeones
<1>. QED
  BY <1>2, <1>3

\* Whatever the operator did during the call: the order's round was the active
\* one at some moment of it, the agent and its team were active at some moment,
\* and each of the two middlewares that saw a round had one that was active
\* during the call and in which the team was enrolled, or the agent admitted.
THEOREM CallsAdmitted == Spec => CallsWereAdmitted
<1>1. ASSUME IInv, NEW c \in Calls, InsertOrder(c) \/ WriteCanceled(c)
      PROVE  LET was == during[c]
             IN  /\ OrderRound(c) \in was.active
                 /\ was.standing
                 /\ "enrollment" \in was.unchecked \/ was.active \cap was.enrolled # {}
                 /\ "locked" \in was.unchecked \/ was.active \cap was.admitted # {}
  BY <1>1, AboutToWrite DEF EnrollmentSeen, AdmissionSeen
<1>2. IInv => [\A c \in Calls :
                 InsertOrder(c) \/ WriteCanceled(c) =>
                   LET was == during[c]
                   IN  /\ OrderRound(c) \in was.active
                       /\ was.standing
                       /\ "enrollment" \in was.unchecked \/ was.active \cap was.enrolled # {}
                       /\ "locked" \in was.unchecked \/ was.active \cap was.admitted # {}]_vars
  BY <1>1
<1>. QED
  BY <1>2, Invariance, PTL DEF CallsWereAdmitted

\* A cancellation is by the team that created the order, and by another agent of
\* it only when the order's round was active and not strict at one moment of the
\* handler's work; a round made strict after that moment does not stop it.
THEOREM CancelsOwn == Spec => CancelsWereOwn
<1>1. ASSUME IInv, NEW c \in Calls, WriteCanceled(c)
      PROVE  LET creator == call[call[c].target].agent
             IN  /\ TeamOf[creator] = TeamOf[call[c].agent]
                 /\ creator = call[c].agent \/ OrderRound(c) \in during[c].shared
  <2>1. /\ ChecksSeen(c) /\ CallIsSomeones(c)
        /\ call[c].pc = "cancel" /\ call[call[c].target].pc = "ordered"
    BY <1>1 DEF IInv, WriteCanceled, Ordered, Underway
  <2>2. OwnershipSeen(c) /\ OrderRound(c) = call[call[c].target].round
    BY <2>1 DEF ChecksSeen, CallIsSomeones, OrderRound
  <2>. QED
    BY <2>1, <2>2 DEF CallIsSomeones, OwnershipSeen
<1>2. IInv => [\A c \in Calls :
                 WriteCanceled(c) =>
                   LET creator == call[call[c].target].agent
                   IN  /\ TeamOf[creator] = TeamOf[call[c].agent]
                       /\ creator = call[c].agent \/ OrderRound(c) \in during[c].shared]_vars
  BY <1>1
<1>. QED
  BY <1>2, Invariance, PTL DEF CancelsWereOwn

\* A start that nothing was taken away from leaves no other round active,
\* and its round has a team that can trade; in a strict one every enrolled team
\* has an agent that can.
THEOREM StartsAreReady == Spec => UndisturbedStartsAreReady
<1>1. ASSUME IInv, NEW q \in Requests \ disturbed, NEW r \in Rounds,
             Activate(q), request[q].round = r
      PROVE  /\ \A other \in Rounds \ {r} : status'[other] # "active"
             /\ \E t \in Teams : enrollment[<<r, t>>] = "active" /\ teamActive[t]
             /\ strict[r] => \A t \in Teams :
                  enrollment[<<r, t>>] = "active" =>
                    \E a \in Agents : TeamOf[a] = t /\ MayTrade(a, r)'
  <2>1. /\ HasActiveTeam(r) /\ (strict[r] => LocksComplete(r))
        /\ \A other \in Rounds \ {r} : status[other] # "active"
    BY <1>1 DEF IInv, StartIsReady, Activate
  <2>2. /\ status' = [status EXCEPT ![r] = "active"]
        /\ UNCHANGED <<strict, enrollment, lock, teamActive, agent>>
        /\ status \in [Rounds -> Statuses \cup {"none"}]
    BY <1>1 DEF Activate, IInv, TypeOK
  <2>3. \A other \in Rounds \ {r} : status'[other] # "active"
    BY <2>1, <2>2
  <2>4. ASSUME strict[r], NEW t \in Teams, enrollment[<<r, t>>] = "active"
        PROVE  \E a \in Agents : TeamOf[a] = t /\ MayTrade(a, r)'
    <3>1. PICK a \in Agents \cup {None} : a = lock[<<r, t>>]
      BY <1>1 DEF IInv, TypeOK, Membership
    <3>2. a \in Agents /\ TeamOf[a] = t /\ teamActive[t] /\ agent[a] = "active"
      BY <2>1, <2>4, <3>1 DEF LocksComplete
    <3>3. MayTrade(a, r)'
      BY <2>2, <2>4, <3>1, <3>2 DEF MayTrade
    <3>. QED
      BY <3>2, <3>3
  <2>. QED
    BY <2>1, <2>3, <2>4 DEF HasActiveTeam
<1>2. IInv => [\A q \in Requests \ disturbed, r \in Rounds :
       Activate(q) /\ request[q].round = r =>
         /\ \A other \in Rounds \ {r} : status'[other] # "active"
         /\ \E t \in Teams : enrollment[<<r, t>>] = "active" /\ teamActive[t]
         /\ strict[r] => \A t \in Teams :
              enrollment[<<r, t>>] = "active" =>
                \E a \in Agents : TeamOf[a] = t /\ MayTrade(a, r)']_vars
  BY <1>1
<1>. QED
  BY <1>2, Invariance, PTL DEF UndisturbedStartsAreReady
=============================================================================
