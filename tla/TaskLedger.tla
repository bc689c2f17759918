----------------------------- MODULE TaskLedger ------------------------------
(***************************************************************************)
(* What the worker pool of internal/pipeline promises its callers, without *)
(* channels, workers or metrics: a message is answered once; a message     *)
(* that was accepted is handled at most once, and only while the pool is   *)
(* open; at no time are more than Limit messages accepted and unhandled.   *)
(* It does not promise that an accepted message is handled.                *)
(***************************************************************************)
EXTENDS Naturals, FiniteSets

CONSTANTS Message,  \* the messages callers hand in
          Limit     \* how many accepted messages may wait or be in work

VARIABLES status,   \* of each message
          open      \* the pool still takes and handles messages

vars == <<status, open>>

Status == {"new", "accepted", "refused", "handled"}

Waiting == {m \in Message : status[m] = "accepted"}

Init == status = [m \in Message |-> "new"] /\ open = TRUE

Accept(m) ==
  /\ open /\ status[m] = "new" /\ Cardinality(Waiting) < Limit
  /\ status' = [status EXCEPT ![m] = "accepted"]
  /\ UNCHANGED open

Refuse(m) ==
  /\ status[m] = "new"
  /\ status' = [status EXCEPT ![m] = "refused"]
  /\ UNCHANGED open

Handle(m) ==
  /\ open /\ status[m] = "accepted"
  /\ status' = [status EXCEPT ![m] = "handled"]
  /\ UNCHANGED open

Close == open /\ open' = FALSE /\ UNCHANGED status

Next == Close \/ \E m \in Message : Accept(m) \/ Refuse(m) \/ Handle(m)

Spec == Init /\ [][Next]_vars
==============================================================================
