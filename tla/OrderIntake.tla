---------------------------- MODULE OrderIntake ----------------------------
(***************************************************************************)
(* What a conversation bot promises a customer who orders, whatever the    *)
(* timing of messages, failures and restarts: one conversation is open at  *)
(* a time, an answered slot of it never becomes unanswered, and it is      *)
(* closed only once an order has come of it.                               *)
(***************************************************************************)
EXTENDS Naturals

CONSTANT Slots

VARIABLES
  opened,   \* how many conversations there have been
  current,  \* the number of the open one, 0 if there is none
  filled,   \* its answered slots
  placed    \* the conversations an order has come of

intake == <<opened, current, filled, placed>>

Init ==
  /\ opened = 0
  /\ current = 0
  /\ filled = {}
  /\ placed = {}

OpenConversation ==
  /\ current = 0
  /\ opened' = opened + 1
  /\ current' = opened'
  /\ filled' \in SUBSET Slots
  /\ UNCHANGED placed

Answer ==
  /\ current # 0
  /\ filled \subseteq filled'
  /\ filled' \subseteq Slots
  /\ UNCHANGED <<opened, current, placed>>

(* A second attempt may still place an order of a closed conversation. *)
Place ==
  /\ \E c \in 1..opened : placed' = placed \cup {c}
  /\ UNCHANGED <<opened, current, filled>>

Close ==
  /\ current \in placed
  /\ current' = 0
  /\ filled' = {}
  /\ UNCHANGED <<opened, placed>>

Next == OpenConversation \/ Answer \/ Place \/ Close

Spec == Init /\ [][Next]_intake
=============================================================================
