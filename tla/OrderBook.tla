------------------------------ MODULE OrderBook ------------------------------
(***************************************************************************)
(* What the arena promises about an order, step by step: the statuses it   *)
(* goes through and when it is executed.  An id is given out once.  An     *)
(* order is executed at most once, on its way to "filled".  A canceled     *)
(* order is never executed afterwards.  A cancellation may come late and   *)
(* be written over an order that was just executed or failed: it changes   *)
(* the status and undoes nothing.                                          *)
(***************************************************************************)
EXTENDS Naturals

CONSTANT MaxOrderId

VARIABLES
  status,    \* order id -> status, "none" without a row
  executed,  \* order id -> has it been executed
  lastId     \* the last id given out

bookVars == <<status, executed, lastId>>

Ids == 1..MaxOrderId

Init ==
  /\ status = [o \in Ids |-> "none"]
  /\ executed = [o \in Ids |-> FALSE]
  /\ lastId = 0

\* A new order is accepted or rejected.
Accept(s) ==
  /\ lastId < MaxOrderId
  /\ lastId' = lastId + 1
  /\ status' = [status EXCEPT ![lastId + 1] = s]
  /\ UNCHANGED executed

\* The venue rests it or refuses it.
Answer(o, s) ==
  /\ status[o] = "submitted"
  /\ status' = [status EXCEPT ![o] = s]
  /\ UNCHANGED <<executed, lastId>>

\* Orders are executed, by the venue at once or later as they rest, and
\* resting orders that cannot be covered fail.
Execute(filled, failed) ==
  /\ \A o \in filled : status[o] \in {"submitted", "open"} /\ ~executed[o]
  /\ \A o \in failed \ filled : status[o] = "open"
  /\ status' = [o \in Ids |-> IF o \in filled THEN "filled"
                              ELSE IF o \in failed THEN "failed" ELSE status[o]]
  /\ executed' = [o \in Ids |-> o \in filled \/ executed[o]]
  /\ UNCHANGED lastId

\* A resting order is canceled, or a late cancellation is written down.
CancelOrder(o) ==
  /\ status[o] \in {"open", "filled", "failed"}
  /\ status' = [status EXCEPT ![o] = "canceled"]
  /\ UNCHANGED <<executed, lastId>>

\* The operator deletes orders, executions and all; their ids do not come back.
Delete(gone) ==
  /\ status' = [o \in Ids |-> IF o \in gone THEN "none" ELSE status[o]]
  /\ executed' = [o \in Ids |-> executed[o] /\ o \notin gone]
  /\ UNCHANGED lastId

Next ==
  \/ \E s \in {"submitted", "rejected"} : Accept(s)
  \/ \E o \in Ids, s \in {"open", "failed"} : Answer(o, s)
  \/ \E filled, failed \in SUBSET Ids : Execute(filled, failed)
  \/ \E o \in Ids : CancelOrder(o)
  \/ \E gone \in SUBSET Ids : Delete(gone)

Spec == Init /\ [][Next]_bookVars
=============================================================================
