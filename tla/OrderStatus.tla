----------------------------- MODULE OrderStatus -----------------------------
(***************************************************************************)
(* The status of orders and the history kept of it.  A change - by staff   *)
(* on the dashboard, or by the bot for a customer who replaces an order -  *)
(* reads the order, saves its new status, records the step in the history  *)
(* and announces it: four calls with others in between.  A new order is    *)
(* likewise stored by one call and announced after another.                *)
(*                                                                         *)
(* DashboardFeed EXTENDS this module with the dashboards listening.        *)
(***************************************************************************)
EXTENDS Naturals, Sequences

CONSTANTS
  Orders,
  Existing,       \* those stored before the behaviour begins
  Changes,        \* what changes of a status are made
  BotCancels,     \* those made by the bot, which only cancels
  StaffSets,      \* statuses staff set orders to
  NewStatus,      \* status of a new order, by autoConfirmOrders
  None,
  MaxFaults       \* calls that fail, and deaths of the process

Status == {"pending", "confirmed", "processing", "shipped", "delivered", "cancelled"}

ASSUME OrderAssumption ==
  /\ Existing \subseteq Orders
  /\ BotCancels \subseteq Changes
  /\ StaffSets \subseteq Status
  /\ NewStatus \in {"pending", "confirmed"}
  /\ None \notin Status \cup Orders
  /\ MaxFaults \in Nat

VARIABLES
  status,       \* of the Order document, None before it is created
  history,      \* the OrderStatusHistory documents of an order, oldest first
  opening,      \* how far finalizeOrder is with an order
  change,       \* where a change is, its order, and the statuses it is between
  faults,
  overlapped,   \* auxiliary: orders two of whose changes were under way at once
  broken        \* auxiliary: orders of which a change or the creation failed

orderVars == <<status, history, opening, change, faults, overlapped, broken>>

Resting == {"idle", "done", "failed"}

NoChange == [at |-> "idle", order |-> None, from |-> None, to |-> None]

OrderInit ==
  /\ status = [o \in Orders |-> IF o \in Existing THEN NewStatus ELSE None]
  /\ history = [o \in Orders |-> <<>>]
  /\ opening = [o \in Orders |-> IF o \in Existing THEN "announced" ELSE "none"]
  /\ change = [c \in Changes |-> NoChange]
  /\ faults = 0
  /\ overlapped = {}
  /\ broken = {}

(* Some change of the order, or its creation, is under way. *)
Busy(o) ==
  \/ opening[o] = "stored"
  \/ \E c \in Changes : change[c].at \notin Resting /\ change[c].order = o

----------------------------------------------------------------------------
(* A new order, whose customer's counter is then incremented. *)
CreateOrder(o) ==
  /\ opening[o] = "none"
  /\ status' = [status EXCEPT ![o] = NewStatus]
  /\ opening' = [opening EXCEPT ![o] = "stored"]
  /\ UNCHANGED <<history, change, faults, overlapped, broken>>

AnnounceOrder(o) ==
  /\ opening[o] = "stored"
  /\ opening' = [opening EXCEPT ![o] = "announced"]
  /\ UNCHANGED <<status, history, change, faults, overlapped, broken>>

(* Mutant: no 404 for an order that is not there.                          *)
FindOrder_Unchecked(c, o, to) ==
  /\ change[c].at = "idle"
  /\ to \in IF c \in BotCancels THEN {"cancelled"} ELSE StaffSets
  /\ change' = [change EXCEPT ![c] =
                  [at |-> "save", order |-> o, from |-> status[o], to |-> to]]
  /\ overlapped' = IF Busy(o) THEN overlapped \cup {o} ELSE overlapped
  /\ UNCHANGED <<status, history, opening, faults, broken>>

(* updateOrderStatus and cancelOrderBySystem: whatever the status is, it   *)
(* may be changed to any other, or to itself.                              *)
FindOrder(c, o, to) ==
  /\ change[c].at = "idle"
  /\ status[o] # None
  /\ to \in IF c \in BotCancels THEN {"cancelled"} ELSE StaffSets
  /\ change' = [change EXCEPT ![c] =
                  [at |-> "save", order |-> o, from |-> status[o], to |-> to]]
  /\ overlapped' = IF Busy(o) THEN overlapped \cup {o} ELSE overlapped
  /\ UNCHANGED <<status, history, opening, faults, broken>>

(* Mongoose writes the fields that differ from what it has loaded, and so  *)
(* nothing when the status is set to what it was.                          *)
SaveStatus(c) ==
  /\ change[c].at = "save"
  /\ IF change[c].to = change[c].from
       THEN UNCHANGED status
       ELSE status' = [status EXCEPT ![change[c].order] = change[c].to]
  /\ change' = [change EXCEPT ![c].at = "record"]
  /\ UNCHANGED <<history, opening, faults, overlapped, broken>>

(* Mutant: the earlier status is read off the document once it is changed. *)
RecordStatus_AfterSet(c) ==
  /\ change[c].at = "record"
  /\ history' = [history EXCEPT ![change[c].order] =
                   Append(@, [from |-> change[c].to, to |-> change[c].to])]
  /\ change' = [change EXCEPT ![c].at = "announce"]
  /\ UNCHANGED <<status, opening, faults, overlapped, broken>>

RecordStatus(c) ==
  /\ change[c].at = "record"
  /\ history' = [history EXCEPT ![change[c].order] =
                   Append(@, [from |-> change[c].from, to |-> change[c].to])]
  /\ change' = [change EXCEPT ![c].at = "announce"]
  /\ UNCHANGED <<status, opening, faults, overlapped, broken>>

AnnounceChange(c) ==
  /\ change[c].at = "announce"
  /\ change' = [change EXCEPT ![c].at = "done"]
  /\ UNCHANGED <<status, history, opening, faults, overlapped, broken>>

(* A rejected save or create; what is left of the handler is not run.      *)
FailChange(c) ==
  /\ faults < MaxFaults
  /\ change[c].at \in {"save", "record"}
  /\ faults' = faults + 1
  /\ change' = [change EXCEPT ![c].at = "failed"]
  /\ broken' = broken \cup {change[c].order}
  /\ UNCHANGED <<status, history, opening, overlapped>>

(* A rejected call after Order.create, so that the order is not announced. *)
FailCreation(o) ==
  /\ faults < MaxFaults
  /\ opening[o] = "stored"
  /\ faults' = faults + 1
  /\ opening' = [opening EXCEPT ![o] = "silent"]
  /\ broken' = broken \cup {o}
  /\ UNCHANGED <<status, history, change, overlapped>>

(* The process dies, with all its handlers, and is started again.          *)
Crash ==
  /\ faults < MaxFaults
  /\ faults' = faults + 1
  /\ change' = [c \in Changes |->
                  IF change[c].at \in Resting THEN change[c]
                  ELSE [change[c] EXCEPT !.at = "failed"]]
  /\ opening' = [o \in Orders |-> IF opening[o] = "stored" THEN "silent" ELSE opening[o]]
  /\ broken' = broken \cup {o \in Orders : Busy(o)}
  /\ UNCHANGED <<status, history, overlapped>>

----------------------------------------------------------------------------
OrderTypeOK ==
  /\ status \in [Orders -> Status \cup {None}]
  /\ history \in [Orders -> Seq([from : Status, to : Status])]
  /\ opening \in [Orders -> {"none", "stored", "announced", "silent"}]
  /\ change \in [Changes -> [at : Resting \cup {"save", "record", "announce"},
                             order : Orders \cup {None},
                             from : Status \cup {None}, to : Status \cup {None}]]
  /\ faults \in 0 .. MaxFaults
  /\ {overlapped, broken} \subseteq SUBSET Orders

(* The status an order has reached by the first n entries of its history.  *)
Reached(o, n) == IF n = 0 THEN NewStatus ELSE history[o][n].to

(* Where a change has saved a status that it has not yet recorded.         *)
Unrecorded(o, s) ==
  \E c \in Changes : change[c].at = "record" /\ change[c].order = o /\ change[c].to = s

(* The history accounts for the status.  Whatever changes overlap, unless  *)
(* a call fails the status is one that the history, or a change about to   *)
(* be recorded, says it was changed to; and if no two changes of an order  *)
(* overlapped, each entry starts where the one before it ended and the     *)
(* last ends in the status.  (orders.repository.ts:49-101 reads, saves and *)
(* records in three calls.)                                                *)
HistoryTells ==
  \A o \in Orders : status[o] # None /\ o \notin broken =>
    LET n == Len(history[o])
        Entries == {Reached(o, i) : i \in 0 .. n}
    IN /\ status[o] \in Entries \/ Unrecorded(o, status[o])
       /\ o \notin overlapped =>
            /\ \A i \in 1 .. n : history[o][i].from = Reached(o, i - 1)
            /\ status[o] = Reached(o, n) \/ Unrecorded(o, status[o])
=============================================================================
