---------------------------- MODULE MessageLedger ----------------------------
(***************************************************************************)
(* What the message pipeline promises of a message, whatever the handlers, *)
(* the queue and the workers do: it is stored once, queued, settled by     *)
(* being processed or abandoned, processed only after the conversation has *)
(* handled it, and never taken back once it is processed.  A queued        *)
(* message is settled eventually; a stored one need not be queued.         *)
(***************************************************************************)
CONSTANT Messages

VARIABLES
  phase,     \* unseen, stored, queued, processed or abandoned
  handled    \* messages the conversation has handled at least once

ledger == <<phase, handled>>

Phase == {"unseen", "stored", "queued", "processed", "abandoned"}

Init ==
  /\ phase = [m \in Messages |-> "unseen"]
  /\ handled = {}

Move(m, from, to) ==
  /\ phase[m] = from
  /\ phase' = [phase EXCEPT ![m] = to]
  /\ UNCHANGED handled

Store(m) == Move(m, "unseen", "stored")

Queue(m) == Move(m, "stored", "queued")

Handle(m) ==
  /\ phase[m] = "queued"
  /\ handled' = handled \cup {m}
  /\ UNCHANGED phase

Process(m) ==
  /\ m \in handled
  /\ Move(m, "queued", "processed")

Abandon(m) == Move(m, "queued", "abandoned")

(* The queue forgets an abandoned job, and recovery may find its message.  *)
Forget(m) == Move(m, "abandoned", "stored")

Next ==
  \E m \in Messages :
    Store(m) \/ Queue(m) \/ Handle(m) \/ Process(m) \/ Abandon(m) \/ Forget(m)

Settle(m) == Process(m) \/ Abandon(m)

Safe == Init /\ [][Next]_ledger

Live == Safe /\ \A m \in Messages : WF_ledger(Settle(m))
=============================================================================
