--------------------------- MODULE OrderFinalizer ---------------------------
(***************************************************************************)
(* What both conversation bots share: the attempts the worker makes at the *)
(* messages of one customer, the Customer and Order documents they write,  *)
(* and finalizeOrder, which turns a draft into an order in seven awaited   *)
(* calls.  Any of them may fail, and the process may die between any two;  *)
(* the message is then tried again from the start.                         *)
(*                                                                         *)
(* A module that EXTENDS this one adds the conversation document and the   *)
(* bot: it fills mem[m].state and brings an attempt to "details", and it   *)
(* takes over again at "finalized".                                        *)
(***************************************************************************)
EXTENDS Integers, Sequences, FiniteSets

CONSTANTS
  Messages,      \* messages of one customer to one page
  None,          \* an unset field
  Earlier,       \* the origin of a value from before these messages
  Acquaintance,  \* sets of details a customer may have left before; {} for a new one
  NewStatus,     \* status of a new order, by autoConfirmOrders
  StaffSets,     \* statuses staff set orders to, on the dashboard
  Workers,       \* attempts that run at once: 5 in messageWorker.ts
  MaxAttempts,   \* attempts of a message: 4 in queues.ts
  MaxFaults, MaxCrashes, MaxUpdates  \* bounds on the environment

Details == {"name", "phone", "address", "email"}

Open == {"pending", "confirmed", "processing"}

Status == Open \cup {"shipped", "delivered", "cancelled"}

ASSUME FinalizerAssumption ==
  /\ IsFiniteSet(Messages)
  /\ None \notin Messages \cup {Earlier, "keep", "replace"} \cup Nat
  /\ Earlier \notin Messages
  /\ Acquaintance \subseteq SUBSET Details
  /\ NewStatus \in {"pending", "confirmed"}
  /\ StaffSets \subseteq Status
  /\ Workers \in Nat \ {0}
  /\ MaxAttempts \in Nat \ {0}
  /\ {MaxFaults, MaxCrashes, MaxUpdates} \subseteq Nat

VARIABLES
  customer,   \* the Customer document; a field holds the message it is from
  orders,     \* Order documents of the customer, oldest first
  pc,         \* where the attempt at a message is
  mem,        \* what it holds in memory, None between attempts
  tries,      \* attempts at a message that threw
  updates,    \* status changes made from the dashboard
  faults, crashes   \* how much of each bound is used

documents == <<customer, orders>>
attempts  == <<pc, mem, tries>>
bounds    == <<updates, faults, crashes>>

Finalizing == {"details", "cancelRead", "cancelSave", "cancelLog",
               "create", "count", "notify"}

(* Where the conversation is not, or no more, in the hands of an attempt.  *)
Resting == {"queued", "settle", "done", "failed"}

Running == {m \in Messages : pc[m] \notin Resting}

(* The messages whose jobs are with a worker.                              *)
Busy == {m \in Messages : pc[m] \notin {"queued", "done", "failed"}}

(* The draft, pending order and decision an attempt finalizes. *)
State(m) == mem[m].state

Given(new, old) == IF new # None THEN new ELSE old

(* An order from before; the bot made it for another conversation.  The    *)
(* last three fields are not in the document: the conversation the order   *)
(* is from, its decision, and the conversation it was cancelled for.       *)
EarlierOrder ==
  [status |-> NewStatus, product |-> Earlier, quantity |-> 1,
   phone |-> Earlier, address |-> Earlier, by |-> Earlier,
   conversation |-> 0, decision |-> None, cancelledFor |-> 0]

(* A customer with some details, and perhaps an order, from before. *)
Met(known) ==
  /\ customer = [exists |-> known # {}, totalOrders |-> 0,
                 name    |-> IF "name" \in known THEN Earlier ELSE None,
                 phone   |-> IF "phone" \in known THEN Earlier ELSE None,
                 address |-> IF "address" \in known THEN Earlier ELSE None,
                 email   |-> IF "email" \in known THEN Earlier ELSE None]
  /\ \/ orders = <<>>
     \/ {"name", "phone", "address"} \subseteq known /\ orders = <<EarlierOrder>>

InitFinalizer ==
  /\ \E known \in Acquaintance : Met(known)
  /\ pc = [m \in Messages |-> "queued"]
  /\ mem = [m \in Messages |-> None]
  /\ tries = [m \in Messages |-> 0]
  /\ updates = 0
  /\ faults = 0
  /\ crashes = 0

----------------------------------------------------------------------------
(* Attempts. *)

Go(m, place) == pc' = [pc EXCEPT ![m] = place]

Forget(m) == mem' = [mem EXCEPT ![m] = None]

(* The conversation is done with the message, and its job goes on.         *)
Finish(m) == Go(m, "settle") /\ Forget(m) /\ UNCHANGED tries

(* The calls that end the job, which nothing here reads what they write:   *)
(* the message is marked as processed and its log as resolved.  Until they *)
(* have returned the message may be tried again, and converse again.       *)
Settle(m) ==
  /\ pc[m] = "settle"
  /\ Go(m, "done")
  /\ UNCHANGED <<documents, mem, tries, bounds>>

(* A call rejects: the job is tried again unless its attempts are used up. *)
Reject(m) ==
  /\ tries' = [tries EXCEPT ![m] = @ + 1]
  /\ Go(m, IF tries'[m] < MaxAttempts THEN "queued" ELSE "failed")
  /\ Forget(m)

(* Any call an attempt waits for may fail, leaving the database as it is. *)
Fault(m) ==
  /\ m \in Busy
  /\ faults < MaxFaults
  /\ faults' = faults + 1
  /\ Reject(m)
  /\ UNCHANGED <<documents, updates, crashes>>

(* The process dies; the jobs it ran are found stalled and start again. *)
Crash ==
  /\ Busy # {}
  /\ crashes < MaxCrashes
  /\ crashes' = crashes + 1
  /\ pc' = [m \in Messages |-> IF m \in Busy THEN "queued" ELSE pc[m]]
  /\ mem' = [m \in Messages |-> None]
  /\ UNCHANGED <<documents, tries, updates, faults>>

(* Customer.create, which the unique index may refuse by now. *)
AddCustomer(m, then) ==
  /\ pc[m] = "insertCustomer"
  /\ IF customer.exists
     THEN Reject(m) /\ UNCHANGED customer
     ELSE /\ customer' = [customer EXCEPT !.exists = TRUE]
          /\ Go(m, then)
          /\ UNCHANGED <<mem, tries>>
  /\ UNCHANGED <<orders, bounds>>

(* Staff change the status of an order from the dashboard, to another. *)
UpdateStatus(o, s) ==
  /\ updates < MaxUpdates
  /\ s # orders[o].status
  /\ updates' = updates + 1
  /\ orders' = [orders EXCEPT ![o].status = s]
  /\ UNCHANGED <<customer, attempts, faults, crashes>>

----------------------------------------------------------------------------
(* finalizeOrder. *)

Replaces(m) == State(m).pending # None /\ State(m).decision = "replace"

(* updateCustomerDetails: what the draft has goes to the customer. *)
UpdateCustomerDetails(m) ==
  /\ pc[m] = "details"
  /\ customer' = [customer EXCEPT !.name    = Given(State(m).name, @),
                                  !.phone   = Given(State(m).phone, @),
                                  !.address = Given(State(m).address, @),
                                  !.email   = Given(State(m).email, @)]
  /\ Go(m, IF Replaces(m) THEN "cancelRead" ELSE "create")
  /\ UNCHANGED <<orders, mem, tries, bounds>>

(* cancelOrderBySystem: the order is read; saving writes only a change. *)
CancelRead(m) ==
  /\ pc[m] = "cancelRead"
  /\ Go(m, IF orders[State(m).pending].status = "cancelled"
           THEN "cancelLog" ELSE "cancelSave")
  /\ UNCHANGED <<documents, mem, tries, bounds>>

(* It is cancelled whatever its status has become since. *)
CancelSave(m) ==
  /\ pc[m] = "cancelSave"
  /\ orders' = [orders EXCEPT ![State(m).pending].status = "cancelled",
                              ![State(m).pending].cancelledFor = State(m).id]
  /\ Go(m, "cancelLog")
  /\ UNCHANGED <<customer, mem, tries, bounds>>

(* Its OrderStatusHistory entry; the history itself is not kept here. *)
CancelLog(m) ==
  /\ pc[m] = "cancelLog"
  /\ Go(m, "create")
  /\ UNCHANGED <<documents, mem, tries, bounds>>

(* Mutant: the customer's details are not fallen back on. *)
NewOrder_DraftOnly(m) ==
  [status |-> NewStatus,
   product |-> State(m).product,
   quantity |-> Given(State(m).quantity, 1),
   phone |-> State(m).phone,
   address |-> State(m).address,
   by |-> m,
   conversation |-> State(m).id,
   decision |-> State(m).decision,
   cancelledFor |-> 0]

NewOrder(m) ==
  [status |-> NewStatus,
   product |-> State(m).product,
   quantity |-> Given(State(m).quantity, 1),
   phone |-> Given(State(m).phone, mem[m].customer.phone),
   address |-> Given(State(m).address, mem[m].customer.address),
   by |-> m,
   conversation |-> State(m).id,
   decision |-> State(m).decision,
   cancelledFor |-> 0]

(* Order's schema wants a product and a quantity of at least 1, and no     *)
(* phone or address.                                                       *)
OrderValidates(order) == order.product # None /\ order.quantity >= 1

(* Mutant: the rejection of an invalid order is swallowed. *)
CreateOrder_Swallowed(m) ==
  /\ pc[m] = "create"
  /\ orders' = IF OrderValidates(NewOrder(m)) THEN Append(orders, NewOrder(m)) ELSE orders
  /\ Go(m, "count")
  /\ UNCHANGED <<customer, mem, tries, bounds>>

(* Mutant: the schema checks nothing. *)
CreateOrder_Unvalidated(m) ==
  /\ pc[m] = "create"
  /\ orders' = Append(orders, NewOrder(m))
  /\ Go(m, "count")
  /\ UNCHANGED <<customer, mem, tries, bounds>>

(* The catalog lookup, which changes nothing, and Order.create. *)
CreateOrder(m) ==
  /\ pc[m] = "create"
  /\ IF OrderValidates(NewOrder(m))
     THEN /\ orders' = Append(orders, NewOrder(m))
          /\ Go(m, "count")
          /\ UNCHANGED <<mem, tries>>
     ELSE /\ Reject(m)
          /\ UNCHANGED orders
  /\ UNCHANGED <<customer, bounds>>

(* incrementOrderCount. *)
IncrementOrderCount(m) ==
  /\ pc[m] = "count"
  /\ customer' = [customer EXCEPT !.totalOrders = @ + 1]
  /\ Go(m, "notify")
  /\ UNCHANGED <<orders, mem, tries, bounds>>

(* emitOrderNew and createNotification, whose document is not kept here. *)
Notify(m) ==
  /\ pc[m] = "notify"
  /\ Go(m, "finalized")
  /\ UNCHANGED <<documents, mem, tries, bounds>>

FinalizerStep(m) ==
  \/ UpdateCustomerDetails(m)
  \/ CancelRead(m) \/ CancelSave(m) \/ CancelLog(m)
  \/ CreateOrder(m) \/ IncrementOrderCount(m) \/ Notify(m)

StaffStep == \E o \in 1..Len(orders) : \E s \in StaffSets : UpdateStatus(o, s)

(* finalizeOrder of the code starts from values that are all there. *)
OrderType ==
  [status : Status, product : Messages \cup {Earlier}, quantity : Nat \ {0},
   phone : Messages \cup {Earlier, None}, address : Messages \cup {Earlier, None},
   by : Messages \cup {Earlier}, conversation : Nat,
   decision : {None, "keep", "replace"}, cancelledFor : Nat]

CustomerType ==
  [exists : BOOLEAN, totalOrders : Nat,
   name : Messages \cup {Earlier, None}, phone : Messages \cup {Earlier, None},
   address : Messages \cup {Earlier, None}, email : Messages \cup {Earlier, None}]

(* The documents and the attempts keep their types. *)
FinalizerTypeOK ==
  /\ customer \in CustomerType
  /\ orders \in Seq(OrderType)
  /\ tries \in [Messages -> 0..MaxAttempts]
  /\ updates \in 0..MaxUpdates
  /\ faults \in 0..MaxFaults
  /\ crashes \in 0..MaxCrashes

(* Every order of the bot has somebody to go to and somewhere to go: the   *)
(* schema asks for neither, and the draft it comes from is a snapshot that *)
(* other attempts have moved on from (findNextMissingStage, finalize).     *)
OrdersAreComplete ==
  \A o \in 1..Len(orders) :
    /\ orders[o].phone # None
    /\ orders[o].address # None
    /\ customer.name # None

OrdersOfBot == {o \in 1..Len(orders) : orders[o].conversation # 0}

(* The customer's counter never runs ahead of the orders: a retry counts   *)
(* again only when it has placed again.                                    *)
CounterNeverAhead == customer.totalOrders <= Cardinality(OrdersOfBot)

(* No more open orders than one, those the customer kept on purpose, and   *)
(* those of attempts that were tried again.                                *)
OpenOrdersAccounted ==
  LET open == {o \in 1..Len(orders) : orders[o].status \in Open}
      kept == {o \in 1..Len(orders) : orders[o].decision = "keep"} IN
  Cardinality(open) <= 1 + Cardinality(kept) + faults
=============================================================================
