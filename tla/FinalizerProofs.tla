-------------------------- MODULE FinalizerProofs --------------------------
(***************************************************************************)
(* Lemmas about OrderFinalizer, which the proofs about the two bots share: *)
(* what its steps do to the documents and to the attempts, whatever the    *)
(* bot that takes them.                                                    *)
(***************************************************************************)
EXTENDS OrderFinalizer, FiniteSetTheorems, TLAPS

----------------------------------------------------------------------------
(* Attempts. *)

Attempting(P, M) ==
  /\ pc \in [Messages -> P]
  /\ mem \in [Messages -> M \cup {None}]
  /\ tries \in [Messages -> 0..MaxAttempts]

(* The other attempts are not concerned.                                   *)
OthersStay(m) ==
  \A n \in Messages \ {m} :
    pc'[n] = pc[n] /\ mem'[n] = mem[n] /\ tries'[n] = tries[n]

(* An attempt ends: its memory goes with it.                               *)
Ends(m) ==
  /\ pc'[m] \in Resting
  /\ mem'[m] = None
  /\ OthersStay(m)

LEMMA GoStep ==
  ASSUME NEW P, NEW M, Attempting(P, M), NEW m \in Messages, NEW place \in P, Go(m, place)
  PROVE  /\ pc' \in [Messages -> P]
         /\ pc'[m] = place
         /\ \A n \in Messages \ {m} : pc'[n] = pc[n]
BY DEF Attempting, Go

(* An attempt goes on. *)
LEMMA GoesOn ==
  ASSUME NEW P, NEW M, Attempting(P, M), NEW m \in Messages, NEW place \in P, Go(m, place),
         tries' = tries, mem' = mem
  PROVE  /\ Attempting(P, M)'
         /\ OthersStay(m)
         /\ pc'[m] = place /\ mem'[m] = mem[m] /\ tries'[m] = tries[m]
BY DEF Attempting, Go, OthersStay

LEMMA FinishStep ==
  ASSUME NEW P, NEW M, Attempting(P, M), Resting \subseteq P, NEW m \in Messages, Finish(m)
  PROVE  Attempting(P, M)' /\ Ends(m) /\ pc'[m] = "settle" /\ tries' = tries
BY DEF Attempting, Finish, Go, Forget, Ends, OthersStay, Resting

(* The job of a message ends; nothing else changes. *)
LEMMA SettleStep ==
  ASSUME NEW P, NEW M, Attempting(P, M), Resting \subseteq P, NEW m \in Messages, Settle(m)
  PROVE  /\ Attempting(P, M)'
         /\ pc[m] = "settle" /\ pc'[m] = "done"
         /\ \A n \in Messages \ {m} : pc'[n] = pc[n]
         /\ mem' = mem /\ tries' = tries /\ UNCHANGED documents /\ UNCHANGED bounds
BY DEF Attempting, Settle, Go, Resting

LEMMA RejectStep ==
  ASSUME NEW P, NEW M, Attempting(P, M), Resting \subseteq P, NEW m \in Messages,
         tries[m] < MaxAttempts, Reject(m)
  PROVE  /\ Attempting(P, M)'
         /\ Ends(m)
         /\ tries'[m] = tries[m] + 1
         /\ pc'[m] \in {"queued", "failed"}
         /\ pc'[m] = "queued" => tries'[m] < MaxAttempts
<1>1. MaxAttempts \in Nat /\ tries[m] \in 0..MaxAttempts
  BY FinalizerAssumption DEF Attempting
<1>2. tries' = [tries EXCEPT ![m] = tries[m] + 1]
  BY DEF Reject
<1>3. tries'[m] = tries[m] + 1 /\ tries' \in [Messages -> 0..MaxAttempts]
  BY <1>1, <1>2 DEF Attempting
<1>4. pc' = [pc EXCEPT ![m] = IF tries'[m] < MaxAttempts THEN "queued" ELSE "failed"]
  BY DEF Reject, Go
<1>5. pc' \in [Messages -> P] /\ pc'[m] = IF tries'[m] < MaxAttempts THEN "queued" ELSE "failed"
  BY <1>4 DEF Attempting, Resting
<1>6. mem' = [mem EXCEPT ![m] = None]
  BY DEF Reject, Forget
<1> QED
  BY <1>2, <1>3, <1>4, <1>5, <1>6 DEF Attempting, Ends, OthersStay, Resting

LEMMA CrashStep ==
  ASSUME NEW P, NEW M, Attempting(P, M), Resting \subseteq P, Crash
  PROVE  /\ Attempting(P, M)'
         /\ \A n \in Messages :
              /\ mem'[n] = None
              /\ pc'[n] = IF n \in Busy THEN "queued" ELSE pc[n]
              /\ n \notin Busy' /\ n \notin Running'
BY DEF Attempting, Crash, Resting, Running, Busy

----------------------------------------------------------------------------
(* Documents. *)

(* No order goes away, and but for its status an order stays as it is.     *)
Lasting == {"product", "quantity", "phone", "address", "by", "conversation", "decision"}

OrdersKept ==
  /\ Len(orders) <= Len(orders')
  /\ \A o \in 1..Len(orders) : \A f \in Lasting : orders'[o][f] = orders[o][f]

(* What is known of the customer stays known. *)
CustomerKept == \A f \in Details : customer[f] # None => customer'[f] # None

(* What an attempt finalizes; each bot's document has these fields.        *)
IsDraft(d) ==
  /\ d.id \in Nat \ {0}
  /\ \A f \in Details : d[f] \in Messages \cup {None}
  /\ d.product \in Messages \cup {None} /\ d.quantity \in Nat \cup {None}
  /\ d.pending \in Nat \cup {None} /\ d.decision \in {None, "keep", "replace"}

(* All that an order needs is in the draft, or was with the customer when  *)
(* the draft was found complete, and is now.                               *)
Whole(m) ==
  /\ IsDraft(State(m))
  /\ mem[m].customer \in CustomerType
  /\ \A f \in {"name", "phone", "address"} :
       State(m)[f] # None \/ mem[m].customer[f] # None
  /\ mem[m].customer.name # None => customer.name # None

Ready(m) ==
  pc[m] \in Finalizing => Whole(m) /\ (pc[m] # "details" => customer.name # None)

Placed(c) == \E o \in 1..Len(orders) : orders[o].conversation = c

(* After the create the attempt's conversation has its order.              *)
Placing == {"count", "notify", "finalized"}

(* An order gets another status, and maybe a conversation it is cancelled for. *)
LEMMA OrderChanges ==
  ASSUME NEW q \in Seq(OrderType), NEW o \in Nat, NEW s \in Status, NEW c \in Nat,
         NEW r, r \in {[q EXCEPT ![o].status = s], [q EXCEPT ![o].status = s, ![o].cancelledFor = c]}
  PROVE  /\ r \in Seq(OrderType)
         /\ Len(r) = Len(q)
         /\ \A p \in 1..Len(q) : p # o => r[p] = q[p]
         /\ \A p \in 1..Len(q) : \A f \in Lasting : r[p][f] = q[p][f]
         /\ o \in 1..Len(q) =>
              /\ r[o].status = s
              /\ r[o].cancelledFor \in {q[o].cancelledFor, c}
<1>1. CASE o \notin 1..Len(q)
  <2>1. r = q
    BY <1>1
  <2> QED
    BY <1>1, <2>1
<1>2. CASE o \in 1..Len(q)
  <2>1. q[o] \in OrderType
    BY <1>2
  <2> DEFINE x == [q[o] EXCEPT !.status = s]
             y == [q[o] EXCEPT !.status = s, !.cancelledFor = c]
  <2>2. /\ x \in OrderType /\ y \in OrderType
        /\ x.status = s /\ y.status = s
        /\ x.cancelledFor = q[o].cancelledFor /\ y.cancelledFor = c
        /\ \A f \in Lasting : x[f] = q[o][f] /\ y[f] = q[o][f]
    BY <2>1 DEF OrderType, Lasting
  <2>3. PICK z \in {x, y} : r = [q EXCEPT ![o] = z]
    <3>1. [q EXCEPT ![o].status = s] = [q EXCEPT ![o] = x]
      OBVIOUS
    <3>2. [q EXCEPT ![o].status = s, ![o].cancelledFor = c] = [q EXCEPT ![o] = y]
      BY <1>2
    <3> QED
      BY <3>1, <3>2
  <2> HIDE DEF x, y
  <2>4. z \in OrderType
    BY <2>2, <2>3
  <2> QED
    BY <1>2, <2>2, <2>3, <2>4
<1> QED
  BY <1>1, <1>2

----------------------------------------------------------------------------
(* The steps of finalizeOrder. *)

LEMMA DetailsStep ==
  ASSUME FinalizerTypeOK, NEW m \in Messages, Whole(m), UpdateCustomerDetails(m)
  PROVE  /\ customer' \in CustomerType
         /\ CustomerKept
         /\ customer'.name # None
         /\ customer'.totalOrders = customer.totalOrders
<1>1. customer \in CustomerType
  BY DEF FinalizerTypeOK
<1> DEFINE d == State(m)
           new == [customer EXCEPT !.name = Given(d.name, @), !.phone = Given(d.phone, @),
                                   !.address = Given(d.address, @), !.email = Given(d.email, @)]
<1>2. customer' = new
  BY DEF UpdateCustomerDetails
<1>3. \A f \in Details : d[f] \in Messages \cup {None}
  BY DEF Whole, IsDraft
<1>4. d.name \in Messages \cup {None} /\ d.phone \in Messages \cup {None}
      /\ d.address \in Messages \cup {None} /\ d.email \in Messages \cup {None}
  BY <1>3 DEF Details
<1>5. d.name # None \/ customer.name # None
  BY DEF Whole
<1> HIDE DEF d
<1>6. \A x \in Messages \cup {None}, y \in Messages \cup {Earlier, None} :
        /\ Given(x, y) \in Messages \cup {Earlier, None}
        /\ (x # None \/ y # None) => Given(x, y) # None
  BY DEF Given
<1>7. /\ new.name = Given(d.name, customer.name) /\ new.phone = Given(d.phone, customer.phone)
      /\ new.address = Given(d.address, customer.address)
      /\ new.email = Given(d.email, customer.email)
      /\ new.totalOrders = customer.totalOrders /\ new.exists = customer.exists
      /\ new = [exists |-> new.exists, totalOrders |-> new.totalOrders, name |-> new.name,
                phone |-> new.phone, address |-> new.address, email |-> new.email]
  <2> DEFINE name == Given(d.name, customer.name)
             phone == Given(d.phone, customer.phone)
             address == Given(d.address, customer.address)
             email == Given(d.email, customer.email)
  <2>1. new = [customer EXCEPT !.name = name, !.phone = phone, !.address = address,
                               !.email = email]
    OBVIOUS
  <2> HIDE DEF new, name, phone, address, email
  <2>2. /\ new.name = name /\ new.phone = phone /\ new.address = address /\ new.email = email
        /\ new.totalOrders = customer.totalOrders /\ new.exists = customer.exists
        /\ new = [exists |-> new.exists, totalOrders |-> new.totalOrders, name |-> new.name,
                  phone |-> new.phone, address |-> new.address, email |-> new.email]
    BY <1>1, <2>1 DEF CustomerType
  <2> QED
    BY <2>2 DEF name, phone, address, email
<1>8. /\ customer.name \in Messages \cup {Earlier, None}
      /\ customer.phone \in Messages \cup {Earlier, None}
      /\ customer.address \in Messages \cup {Earlier, None}
      /\ customer.email \in Messages \cup {Earlier, None}
      /\ customer.totalOrders \in Nat /\ customer.exists \in BOOLEAN
  BY <1>1 DEF CustomerType
<1> HIDE DEF new
<1>9. new \in CustomerType
  BY <1>4, <1>6, <1>7, <1>8 DEF CustomerType
<1>10. CustomerKept
  BY <1>2, <1>4, <1>6, <1>7, <1>8 DEF CustomerKept, Details
<1> QED
  BY <1>2, <1>4, <1>5, <1>6, <1>7, <1>8, <1>9, <1>10

LEMMA NewOrderType ==
  ASSUME NEW m \in Messages, Whole(m), OrderValidates(NewOrder(m))
  PROVE  /\ NewOrder(m) \in OrderType
         /\ NewOrder(m).conversation = State(m).id
         /\ NewOrder(m).phone # None /\ NewOrder(m).address # None
         /\ NewOrder(m).cancelledFor = 0
         /\ NewOrder(m).status = NewStatus
         /\ NewOrder(m).decision = State(m).decision
         /\ NewOrder(m).by = m
<1> USE FinalizerAssumption
<1> DEFINE d == State(m)
           c == mem[m].customer
<1>1. /\ d.id \in Nat \ {0} /\ d.product \in Messages \cup {None}
      /\ d.quantity \in Nat \cup {None} /\ d.decision \in {None, "keep", "replace"}
  BY DEF Whole, IsDraft
<1>2. d.phone \in Messages \cup {None} /\ d.address \in Messages \cup {None}
  BY DEF Whole, IsDraft, Details
<1>3. /\ c.phone \in Messages \cup {Earlier, None} /\ c.address \in Messages \cup {Earlier, None}
      /\ d.phone # None \/ c.phone # None
      /\ d.address # None \/ c.address # None
  BY DEF Whole, CustomerType
<1> DEFINE order == NewOrder(m)
<1>4. /\ order.product = d.product /\ order.quantity = Given(d.quantity, 1)
      /\ order.phone = Given(d.phone, c.phone) /\ order.address = Given(d.address, c.address)
      /\ order.conversation = d.id /\ order.decision = d.decision
      /\ order.cancelledFor = 0 /\ order.status = NewStatus /\ order.by = m
      /\ order = [status |-> order.status, product |-> order.product, quantity |-> order.quantity,
                  phone |-> order.phone, address |-> order.address, by |-> order.by,
                  conversation |-> order.conversation, decision |-> order.decision,
                  cancelledFor |-> order.cancelledFor]
  BY DEF NewOrder
<1>5. order.product # None /\ order.quantity >= 1
  BY DEF OrderValidates
<1> HIDE DEF order, c, d
<1>6. order.quantity \in Nat \ {0} /\ order.product \in Messages \cup {Earlier}
  BY <1>1, <1>4, <1>5 DEF Given
<1>7. order.phone \in Messages \cup {Earlier} /\ order.address \in Messages \cup {Earlier}
      /\ order.phone # None /\ order.address # None
  BY <1>2, <1>3, <1>4 DEF Given
<1>8. NewStatus \in Status
  BY DEF Status, Open
<1>9. order \in OrderType
  BY <1>1, <1>4, <1>6, <1>7, <1>8 DEF OrderType
<1> QED
  BY <1>4, <1>7, <1>9 DEF order, d

(* A step of finalizeOrder that has no effect on the documents. *)
Passing(m) == CancelRead(m) \/ CancelLog(m) \/ Notify(m)

After(place) ==
  CASE place = "details" -> {"cancelRead", "create"}
    [] place = "cancelRead" -> {"cancelLog", "cancelSave"}
    [] place = "cancelSave" -> {"cancelLog"}
    [] place = "cancelLog" -> {"create"}
    [] place = "create" -> {"count"}
    [] place = "count" -> {"notify"}
    [] place = "notify" -> {"finalized"}

(* Where a step of finalizeOrder leads. *)
LEMMA FinalizerGoes ==
  ASSUME NEW P, NEW M, Attempting(P, M), Resting \cup Finalizing \cup {"finalized"} \subseteq P,
         NEW m \in Messages, tries[m] < MaxAttempts, FinalizerStep(m)
  PROVE  /\ pc[m] \in Finalizing
         /\ Attempting(P, M)'
         /\ \/ /\ pc[m] = "create" /\ ~OrderValidates(NewOrder(m)) /\ Reject(m)
            \/ /\ pc'[m] \in After(pc[m]) /\ mem' = mem /\ tries' = tries
               /\ OthersStay(m)
               /\ pc[m] = "create" => OrderValidates(NewOrder(m))
<1>1. ASSUME NEW place \in P, Go(m, place), place \in After(pc[m]), pc[m] \in Finalizing,
             UNCHANGED <<mem, tries>>, pc[m] = "create" => OrderValidates(NewOrder(m))
      PROVE  /\ Attempting(P, M)'
             /\ pc'[m] \in After(pc[m]) /\ mem' = mem /\ tries' = tries /\ OthersStay(m)
             /\ pc[m] = "create" => OrderValidates(NewOrder(m))
  BY <1>1, GoStep DEF Attempting, OthersStay
<1>2. CASE UpdateCustomerDetails(m)
  BY <1>1, <1>2 DEF UpdateCustomerDetails, After, Finalizing
<1>3. CASE CancelRead(m)
  BY <1>1, <1>3 DEF CancelRead, After, Finalizing
<1>4. CASE CancelSave(m)
  BY <1>1, <1>4 DEF CancelSave, After, Finalizing
<1>5. CASE CancelLog(m)
  BY <1>1, <1>5 DEF CancelLog, After, Finalizing
<1>6. CASE CreateOrder(m)
  <2>1. CASE OrderValidates(NewOrder(m))
    BY <1>1, <1>6, <2>1 DEF CreateOrder, After, Finalizing
  <2>2. CASE ~OrderValidates(NewOrder(m))
    BY <1>6, <2>2, RejectStep DEF CreateOrder, Finalizing
  <2> QED
    BY <2>1, <2>2
<1>7. CASE IncrementOrderCount(m)
  BY <1>1, <1>7 DEF IncrementOrderCount, After, Finalizing
<1>8. CASE Notify(m)
  BY <1>1, <1>8 DEF Notify, After, Finalizing
<1> QED
  BY <1>2, <1>3, <1>4, <1>5, <1>6, <1>7, <1>8 DEF FinalizerStep

(* What it does to the documents. *)
LEMMA FinalizerWrites ==
  ASSUME FinalizerTypeOK, NEW m \in Messages, Ready(m), FinalizerStep(m)
  PROVE  /\ customer' \in CustomerType /\ orders' \in Seq(OrderType)
         /\ UNCHANGED bounds
         /\ OrdersKept /\ CustomerKept
         /\ customer'.name # None
         /\ customer'.totalOrders = customer.totalOrders + (IF pc[m] = "count" THEN 1 ELSE 0)
         /\ \/ orders' = orders /\ (pc[m] = "create" => ~OrderValidates(NewOrder(m)))
            \/ /\ pc[m] = "create" /\ OrderValidates(NewOrder(m))
               /\ NewOrder(m) \in OrderType
               /\ orders' = Append(orders, NewOrder(m))
            \/ /\ pc[m] = "cancelSave"
               /\ orders' = [orders EXCEPT ![State(m).pending].status = "cancelled",
                                           ![State(m).pending].cancelledFor = State(m).id]
               /\ Len(orders') = Len(orders)
               /\ \A o \in 1..Len(orders) :
                    orders'[o].cancelledFor \in {orders[o].cancelledFor, State(m).id}
<1>1. customer \in CustomerType /\ orders \in Seq(OrderType)
  BY DEF FinalizerTypeOK
<1>2. pc[m] \in Finalizing /\ Whole(m)
  BY DEF Ready, FinalizerStep, UpdateCustomerDetails, CancelRead, CancelSave, CancelLog,
         CreateOrder, IncrementOrderCount, Notify, Finalizing
<1>3. pc[m] # "details" => customer.name # None
  BY <1>2 DEF Ready
<1>4. orders' = orders => OrdersKept
  BY <1>1 DEF OrdersKept
<1>5. customer' = customer => CustomerKept
  BY DEF CustomerKept
<1>6. customer.totalOrders \in Nat
  BY <1>1 DEF CustomerType
<1>7. CASE UpdateCustomerDetails(m)
  <2>1. pc[m] = "details" /\ orders' = orders /\ UNCHANGED bounds
    BY <1>7 DEF UpdateCustomerDetails
  <2>2. /\ customer' \in CustomerType /\ CustomerKept /\ customer'.name # None
        /\ customer'.totalOrders = customer.totalOrders
    BY <1>2, <1>7, DetailsStep
  <2> QED
    BY <1>1, <1>4, <1>6, <2>1, <2>2
<1>8. CASE Passing(m)
  BY <1>1, <1>3, <1>4, <1>5, <1>6, <1>8 DEF Passing, CancelRead, CancelLog, Notify, documents
<1>9. CASE CancelSave(m)
  <2>1. State(m).pending \in Nat \cup {None} /\ State(m).id \in Nat
    BY <1>2 DEF Whole, IsDraft
  <2>2. orders' = [orders EXCEPT ![State(m).pending].status = "cancelled",
                                 ![State(m).pending].cancelledFor = State(m).id]
        /\ customer' = customer /\ pc[m] = "cancelSave"
    BY <1>9 DEF CancelSave
  <2>3. CASE State(m).pending = None
    <3>1. None \notin DOMAIN orders
      BY <1>1, FinalizerAssumption
    <3>2. orders' = orders
      BY <1>1, <2>2, <2>3, <3>1
    <3>3. UNCHANGED bounds
      BY <1>9 DEF CancelSave
    <3>4. customer' = customer /\ pc[m] = "cancelSave"
      BY <2>2
    <3> QED
      BY <1>1, <1>3, <1>4, <1>5, <1>6, <3>2, <3>3, <3>4
  <2>4. CASE State(m).pending \in Nat
    <3>1. "cancelled" \in Status
      BY DEF Status
    <3>2. /\ orders' \in Seq(OrderType) /\ Len(orders') = Len(orders)
          /\ \A o \in 1..Len(orders) : o # State(m).pending => orders'[o] = orders[o]
          /\ \A o \in 1..Len(orders) : \A f \in Lasting : orders'[o][f] = orders[o][f]
          /\ State(m).pending \in 1..Len(orders) =>
               orders'[State(m).pending].cancelledFor \in
                 {orders[State(m).pending].cancelledFor, State(m).id}
      <4> DEFINE o == State(m).pending
                 c == State(m).id
                 r == orders'
      <4>1. o \in Nat /\ c \in Nat
        BY <2>1, <2>4
      <4>2. r \in {[orders EXCEPT ![o].status = "cancelled"],
                   [orders EXCEPT ![o].status = "cancelled", ![o].cancelledFor = c]}
        BY <2>2
      <4> HIDE DEF o, c, r
      <4>3. /\ r \in Seq(OrderType) /\ Len(r) = Len(orders)
            /\ \A p \in 1..Len(orders) : p # o => r[p] = orders[p]
            /\ \A p \in 1..Len(orders) : \A f \in Lasting : r[p][f] = orders[p][f]
            /\ o \in 1..Len(orders) => r[o].cancelledFor \in {orders[o].cancelledFor, c}
        BY <1>1, <3>1, <4>1, <4>2, OrderChanges
      <4> QED
        BY <4>3 DEF o, c, r
    <3>3. OrdersKept
      BY <1>1, <3>2 DEF OrdersKept
    <3>4. \A o \in 1..Len(orders) :
            orders'[o].cancelledFor \in {orders[o].cancelledFor, State(m).id}
      BY <3>2
    <3>5. UNCHANGED bounds
      BY <1>9 DEF CancelSave
    <3> QED
      BY <1>1, <1>3, <1>5, <1>6, <2>2, <3>2, <3>3, <3>4, <3>5
  <2> QED
    BY <2>1, <2>3, <2>4
<1>10. CASE CreateOrder(m)
  <2>1. customer' = customer /\ pc[m] = "create" /\ UNCHANGED bounds
    BY <1>10 DEF CreateOrder
  <2>2. CASE OrderValidates(NewOrder(m))
    <3>1. orders' = Append(orders, NewOrder(m)) /\ NewOrder(m) \in OrderType
      BY <1>2, <1>10, <2>2, NewOrderType DEF CreateOrder
    <3>2. orders' \in Seq(OrderType) /\ Len(orders') = Len(orders) + 1
          /\ \A o \in 1..Len(orders) : orders'[o] = orders[o]
      BY <1>1, <3>1
    <3>3. OrdersKept
      BY <1>1, <3>2 DEF OrdersKept
    <3> QED
      BY <1>1, <1>3, <1>5, <1>6, <2>1, <2>2, <3>1, <3>2, <3>3
  <2>3. CASE ~OrderValidates(NewOrder(m))
    BY <1>1, <1>3, <1>4, <1>5, <1>6, <1>10, <2>1, <2>3 DEF CreateOrder
  <2> QED
    BY <2>2, <2>3
<1>11. CASE IncrementOrderCount(m)
  <2>1. customer' = [customer EXCEPT !.totalOrders = customer.totalOrders + 1]
        /\ orders' = orders /\ pc[m] = "count" /\ UNCHANGED bounds
    BY <1>11 DEF IncrementOrderCount
  <2>2. customer' \in CustomerType /\ customer'.totalOrders = customer.totalOrders + 1
        /\ \A f \in Details : customer'[f] = customer[f]
    BY <1>1, <1>6, <2>1 DEF CustomerType, Details
  <2>3. customer'.name # None
    BY <1>3, <2>1, <2>2 DEF Details
  <2> QED
    BY <1>1, <1>4, <2>1, <2>2, <2>3 DEF CustomerKept
<1> QED
  BY <1>7, <1>8, <1>9, <1>10, <1>11 DEF FinalizerStep, Passing

(* Staff change nothing of an order but its status. *)
LEMMA StaffWrites ==
  ASSUME FinalizerTypeOK, StaffStep
  PROVE  /\ FinalizerTypeOK' /\ OrdersKept /\ CustomerKept
         /\ UNCHANGED <<customer, attempts>>
         /\ Len(orders') = Len(orders)
         /\ \A o \in 1..Len(orders) : orders'[o].cancelledFor = orders[o].cancelledFor
         /\ updates' = updates + 1
         /\ UNCHANGED <<faults, crashes>>
<1>1. PICK o \in 1..Len(orders), s \in StaffSets : UpdateStatus(o, s)
  BY DEF StaffStep
<1>2. orders \in Seq(OrderType) /\ s \in Status /\ o \in Nat /\ o \in 1..Len(orders)
  BY FinalizerAssumption DEF FinalizerTypeOK
<1>3. orders' = [orders EXCEPT ![o].status = s]
      /\ UNCHANGED <<customer, pc, mem, tries, faults, crashes>>
      /\ updates' = updates + 1 /\ updates < MaxUpdates
  BY <1>1 DEF UpdateStatus, attempts
<1> DEFINE c == orders[o].cancelledFor
           r == orders'
<1>4. c \in Nat
  <2>1. orders[o] \in OrderType
    BY <1>2
  <2> QED
    BY <2>1 DEF OrderType
<1>5. r \in {[orders EXCEPT ![o].status = s],
             [orders EXCEPT ![o].status = s, ![o].cancelledFor = c]}
  BY <1>3
<1> HIDE DEF c, r
<1>6. /\ r \in Seq(OrderType) /\ Len(r) = Len(orders)
      /\ \A p \in 1..Len(orders) : p # o => r[p] = orders[p]
      /\ \A p \in 1..Len(orders) : \A f \in Lasting : r[p][f] = orders[p][f]
      /\ r[o].cancelledFor \in {orders[o].cancelledFor, c}
  BY <1>2, <1>4, <1>5, OrderChanges
<1>7. /\ orders' \in Seq(OrderType) /\ Len(orders') = Len(orders) /\ OrdersKept
      /\ \A p \in 1..Len(orders) : orders'[p].cancelledFor = orders[p].cancelledFor
  BY <1>2, <1>6 DEF OrdersKept, r, c
<1>8. updates' \in 0..MaxUpdates
  BY <1>3, FinalizerAssumption DEF FinalizerTypeOK
<1> QED
  BY <1>3, <1>7, <1>8 DEF FinalizerTypeOK, CustomerKept, attempts

----------------------------------------------------------------------------
(* Orders are whole. *)

LEMMA ReadyKept ==
  ASSUME NEW n, Ready(n), CustomerKept, pc'[n] = pc[n], mem'[n] = mem[n]
  PROVE  Ready(n)'
BY DEF Ready, Whole, IsDraft, State, CustomerKept, Details

LEMMA RestIsReady ==
  ASSUME NEW n, pc'[n] \in Resting
  PROVE  Ready(n)'
BY DEF Ready, Resting, Finalizing

LEMMA CompleteKept ==
  ASSUME FinalizerTypeOK, OrdersAreComplete, OrdersKept, CustomerKept, Len(orders') = Len(orders)
  PROVE  OrdersAreComplete'
BY DEF FinalizerTypeOK, OrdersAreComplete, OrdersKept, CustomerKept, Lasting, Details

LEMMA FinalizerSound ==
  ASSUME NEW P, NEW M, Attempting(P, M), Resting \cup Finalizing \cup {"finalized"} \subseteq P,
         FinalizerTypeOK, OrdersAreComplete, \A n \in Messages : Ready(n),
         NEW m \in Messages, tries[m] < MaxAttempts, FinalizerStep(m)
  PROVE  /\ FinalizerTypeOK'
         /\ OrdersAreComplete'
         /\ \A n \in Messages : Ready(n)'
<1>1. Ready(m) /\ Resting \subseteq P
  OBVIOUS
<1>2. /\ pc[m] \in Finalizing
      /\ Attempting(P, M)'
      /\ \/ pc[m] = "create" /\ ~OrderValidates(NewOrder(m)) /\ Reject(m)
         \/ pc'[m] \in After(pc[m]) /\ mem' = mem /\ tries' = tries /\ OthersStay(m)
  BY FinalizerGoes
<1>3. /\ customer' \in CustomerType /\ orders' \in Seq(OrderType) /\ UNCHANGED bounds
      /\ OrdersKept /\ CustomerKept /\ customer'.name # None
      /\ \/ Len(orders') = Len(orders)
         \/ /\ OrderValidates(NewOrder(m)) /\ orders' = Append(orders, NewOrder(m))
            /\ NewOrder(m) \in OrderType
  BY <1>1, FinalizerWrites
<1>4. FinalizerTypeOK'
  BY <1>2, <1>3 DEF FinalizerTypeOK, Attempting, bounds
<1>5. OrdersAreComplete'
  <2>1. CASE Len(orders') = Len(orders)
    BY <1>3, <2>1, CompleteKept
  <2>2. CASE OrderValidates(NewOrder(m)) /\ orders' = Append(orders, NewOrder(m))
             /\ NewOrder(m) \in OrderType
    <3>1. NewOrder(m).phone # None /\ NewOrder(m).address # None
      BY <1>1, <1>2, <2>2, NewOrderType DEF Ready
    <3>2. orders \in Seq(OrderType)
      BY DEF FinalizerTypeOK
    <3>3. /\ Len(orders') = Len(orders) + 1 /\ orders'[Len(orders) + 1] = NewOrder(m)
          /\ \A o \in 1..Len(orders) : orders'[o] = orders[o]
      BY <2>2, <3>2
    <3>4. \A o \in 1..Len(orders) : orders[o].phone # None /\ orders[o].address # None
      BY DEF OrdersAreComplete
    <3>5. \A o \in 1..Len(orders') : o \in 1..Len(orders) \/ o = Len(orders) + 1
      BY <3>2, <3>3
    <3> QED
      BY <1>3, <3>1, <3>3, <3>4, <3>5 DEF OrdersAreComplete
  <2> QED
    BY <1>3, <2>1, <2>2
<1>6. ASSUME NEW n \in Messages PROVE Ready(n)'
  <2>1. CASE n # m
    <3>1. OthersStay(m)
      BY <1>1, <1>2, RejectStep DEF Ends
    <3> QED
      BY <1>3, <2>1, <3>1, ReadyKept DEF OthersStay
  <2>2. CASE n = m
    <3>1. CASE Reject(m)
      BY <1>1, <2>2, <3>1, RejectStep, RestIsReady DEF Ends
    <3>2. CASE mem' = mem
      <4>1. Whole(m)
        BY <1>1, <1>2 DEF Ready
      <4>2. Whole(m)'
        BY <1>3, <3>2, <4>1 DEF Whole, IsDraft, State
      <4> QED
        BY <1>3, <2>2, <4>2 DEF Ready
    <3> QED
      BY <1>2, <3>1, <3>2
  <2> QED
    BY <2>1, <2>2
<1> QED
  BY <1>4, <1>5, <1>6

----------------------------------------------------------------------------
(* The counter. *)

Counting == {m \in Messages : pc[m] = "count"}

(* An order is there before it is counted.                                 *)
Counted == customer.totalOrders + Cardinality(Counting) <= Cardinality(OrdersOfBot)

LEMMA FiniteSetsHere ==
  ASSUME FinalizerTypeOK
  PROVE  /\ IsFiniteSet(Counting) /\ IsFiniteSet(OrdersOfBot)
         /\ Cardinality(Counting) \in Nat /\ Cardinality(OrdersOfBot) \in Nat
<1>1. IsFiniteSet(Counting)
  BY FS_Subset, FinalizerAssumption DEF Counting
<1>2. IsFiniteSet(1..Len(orders))
  BY FS_Interval DEF FinalizerTypeOK
<1>3. IsFiniteSet(OrdersOfBot)
  BY <1>2, FS_Subset DEF OrdersOfBot
<1> QED
  BY <1>1, <1>3, FS_CardinalityType

LEMMA CountedCounts ==
  ASSUME FinalizerTypeOK, Counted
  PROVE  CounterNeverAhead
BY FiniteSetsHere DEF Counted, CounterNeverAhead, FinalizerTypeOK, CustomerType

(* No attempt arrives at the counter, and no order.                        *)
LEMMA CountedKept ==
  ASSUME FinalizerTypeOK, Counted, OrdersKept, Len(orders') = Len(orders),
         customer'.totalOrders = customer.totalOrders,
         \A n \in Messages : pc'[n] = "count" => pc[n] = "count"
  PROVE  Counted'
<1>1. OrdersOfBot' = OrdersOfBot
  BY DEF OrdersOfBot, OrdersKept, Lasting
<1>2. Counting' \subseteq Counting
  BY DEF Counting
<1>3. Cardinality(Counting') <= Cardinality(Counting) /\ Cardinality(Counting') \in Nat
  BY <1>2, FiniteSetsHere, FS_Subset, FS_CardinalityType
<1>4. customer.totalOrders \in Nat
  BY DEF FinalizerTypeOK, CustomerType
<1> QED
  BY <1>1, <1>3, <1>4, FiniteSetsHere DEF Counted

LEMMA FinalizerCounts ==
  ASSUME NEW P, NEW M, Attempting(P, M), Resting \cup Finalizing \cup {"finalized"} \subseteq P,
         FinalizerTypeOK, Counted, NEW m \in Messages, Ready(m), tries[m] < MaxAttempts,
         FinalizerStep(m)
  PROVE  Counted'
<1>1. /\ pc[m] \in Finalizing
      /\ \/ pc[m] = "create" /\ ~OrderValidates(NewOrder(m)) /\ Ends(m)
         \/ /\ pc'[m] \in After(pc[m]) /\ OthersStay(m)
            /\ pc[m] = "create" => OrderValidates(NewOrder(m))
  BY FinalizerGoes, RejectStep
<1>2. OthersStay(m)
  BY <1>1 DEF Ends
<1>3. orders \in Seq(OrderType) /\ customer.totalOrders \in Nat
  BY DEF FinalizerTypeOK, CustomerType
<1>7. /\ OrdersKept
      /\ customer'.totalOrders = customer.totalOrders + (IF pc[m] = "count" THEN 1 ELSE 0)
      /\ \/ orders' = orders /\ (pc[m] = "create" => ~OrderValidates(NewOrder(m)))
         \/ /\ pc[m] = "create" /\ OrderValidates(NewOrder(m))
            /\ NewOrder(m) \in OrderType /\ orders' = Append(orders, NewOrder(m))
         \/ pc[m] = "cancelSave" /\ Len(orders') = Len(orders)
  BY FinalizerWrites
<1>4. CASE pc[m] = "create" /\ OrderValidates(NewOrder(m))
  <2>1. /\ orders' = Append(orders, NewOrder(m)) /\ NewOrder(m) \in OrderType
        /\ customer'.totalOrders = customer.totalOrders
    BY <1>3, <1>4, <1>7
  <2>2. NewOrder(m).conversation # 0
    BY <1>1, <1>4, NewOrderType DEF Ready, Whole, IsDraft
  <2>3. /\ Len(orders') = Len(orders) + 1 /\ orders'[Len(orders) + 1] = NewOrder(m)
        /\ \A o \in 1..Len(orders) : orders'[o] = orders[o]
    BY <1>3, <2>1
  <2>4. OrdersOfBot' = OrdersOfBot \cup {Len(orders) + 1} /\ Len(orders) + 1 \notin OrdersOfBot
    <3>1. 1..Len(orders') = (1..Len(orders)) \cup {Len(orders) + 1} /\ Len(orders) \in Nat
      BY <1>3, <2>3
    <3> QED
      BY <2>2, <2>3, <3>1 DEF OrdersOfBot
  <2>5. Cardinality(OrdersOfBot') = Cardinality(OrdersOfBot) + 1
    BY <2>4, FiniteSetsHere, FS_AddElement
  <2>6. Counting' \subseteq Counting \cup {m}
    BY <1>2 DEF Counting, OthersStay
  <2>7. /\ IsFiniteSet(Counting \cup {m})
        /\ Cardinality(Counting \cup {m}) <= Cardinality(Counting) + 1
    <3>1. IsFiniteSet(Counting) /\ Cardinality(Counting) \in Nat
      BY FiniteSetsHere
    <3>2. Cardinality(Counting \cup {m}) \in {Cardinality(Counting), Cardinality(Counting) + 1}
      BY <3>1, FS_AddElement
    <3>3. IsFiniteSet(Counting \cup {m})
      BY <3>1, FS_AddElement
    <3> QED
      BY <3>1, <3>2, <3>3
  <2>8. Cardinality(Counting') <= Cardinality(Counting) + 1 /\ Cardinality(Counting') \in Nat
    <3>1. /\ IsFiniteSet(Counting') /\ Cardinality(Counting') \in Nat
          /\ Cardinality(Counting') <= Cardinality(Counting \cup {m})
          /\ Cardinality(Counting \cup {m}) \in Nat
      BY <2>6, <2>7, FS_Subset, FS_CardinalityType
    <3> QED
      BY <2>7, <3>1, FiniteSetsHere
  <2> QED
    BY <1>3, <2>1, <2>5, <2>8, FiniteSetsHere DEF Counted
<1>5. CASE pc[m] = "count"
  <2>1. /\ customer'.totalOrders = customer.totalOrders + 1 /\ orders' = orders
    BY <1>5, <1>7
  <2>2. pc'[m] = "notify"
    BY <1>1, <1>5 DEF After
  <2>3. Counting' = Counting \ {m} /\ m \in Counting
    BY <1>2, <1>5, <2>2 DEF Counting, OthersStay
  <2>4. Cardinality(Counting') = Cardinality(Counting) - 1
    BY <2>3, FiniteSetsHere, FS_RemoveElement
  <2>5. OrdersOfBot' = OrdersOfBot
    BY <2>1 DEF OrdersOfBot
  <2> QED
    BY <1>3, <2>1, <2>4, <2>5, FiniteSetsHere DEF Counted
<1>6. CASE pc[m] # "count" /\ ~(pc[m] = "create" /\ OrderValidates(NewOrder(m)))
  <2>1. /\ customer'.totalOrders = customer.totalOrders /\ OrdersKept
        /\ Len(orders') = Len(orders)
    BY <1>3, <1>6, <1>7
  <2>2. pc'[m] # "count"
    <3>1. CASE Ends(m)
      BY <3>1 DEF Ends, Resting
    <3>2. CASE ~Ends(m)
      BY <1>1, <1>6, <3>2 DEF After, Finalizing
    <3> QED
      BY <1>1, <3>1, <3>2
  <2>3. \A n \in Messages : pc'[n] = "count" => pc[n] = "count"
    BY <1>2, <2>2 DEF OthersStay
  <2> QED
    BY <2>1, <2>3, CountedKept
<1> QED
  BY <1>4, <1>5, <1>6

----------------------------------------------------------------------------
(* Open orders. *)

OpenOrders == {o \in 1..Len(orders) : orders[o].status \in Open}
KeptOrders == {o \in 1..Len(orders) : orders[o].decision = "keep"}

(* What is claimed of open orders is claimed of what the bots do. *)
Calm == updates = 0 /\ crashes = 0

LEMMA Accounted ==
  OpenOrdersAccounted <=> Cardinality(OpenOrders) <= 1 + Cardinality(KeptOrders) + faults
BY DEF OpenOrdersAccounted, OpenOrders, KeptOrders

(* Orders stay what they are. *)
LEMMA OpenSame ==
  ASSUME orders' = orders
  PROVE  OpenOrders' = OpenOrders /\ KeptOrders' = KeptOrders /\ OrdersOfBot' = OrdersOfBot
BY DEF OpenOrders, KeptOrders, OrdersOfBot

LEMMA OpenFinite ==
  ASSUME FinalizerTypeOK
  PROVE  /\ IsFiniteSet(OpenOrders) /\ IsFiniteSet(KeptOrders)
         /\ Cardinality(OpenOrders) \in Nat /\ Cardinality(KeptOrders) \in Nat
<1>1. IsFiniteSet(1..Len(orders))
  BY FS_Interval DEF FinalizerTypeOK
<1>2. IsFiniteSet(OpenOrders) /\ IsFiniteSet(KeptOrders)
  BY <1>1, FS_Subset DEF OpenOrders, KeptOrders
<1> QED
  BY <1>2, FS_CardinalityType

(* An order is placed. *)
LEMMA OneMoreOrder ==
  ASSUME FinalizerTypeOK, NEW x \in OrderType, orders' = Append(orders, x)
  PROVE  /\ Len(orders') = Len(orders) + 1 /\ orders'[Len(orders) + 1] = x
         /\ \A o \in 1..Len(orders) : orders'[o] = orders[o]
         /\ Cardinality(OpenOrders') <= Cardinality(OpenOrders) + 1
         /\ Cardinality(KeptOrders') =
              Cardinality(KeptOrders) + (IF x.decision = "keep" THEN 1 ELSE 0)
         /\ Cardinality(OpenOrders') \in Nat
<1>1. orders \in Seq(OrderType) /\ Len(orders) \in Nat
  BY DEF FinalizerTypeOK
<1> DEFINE n == Len(orders) + 1
<1>2. /\ Len(orders') = n /\ orders'[n] = x /\ 1..Len(orders') = (1..Len(orders)) \cup {n}
      /\ \A o \in 1..Len(orders) : orders'[o] = orders[o]
      /\ n \notin 1..Len(orders)
  BY <1>1
<1> HIDE DEF n
<1>3. OpenOrders' \subseteq OpenOrders \cup {n} /\ n \notin OpenOrders
  BY <1>2 DEF OpenOrders
<1>4. IsFiniteSet(OpenOrders) /\ IsFiniteSet(KeptOrders)
      /\ Cardinality(OpenOrders) \in Nat /\ Cardinality(KeptOrders) \in Nat
  BY OpenFinite
<1>5. IsFiniteSet(OpenOrders \cup {n}) /\ Cardinality(OpenOrders \cup {n}) = Cardinality(OpenOrders) + 1
  BY <1>3, <1>4, FS_AddElement
<1>6. /\ IsFiniteSet(OpenOrders') /\ Cardinality(OpenOrders') \in Nat
      /\ Cardinality(OpenOrders') <= Cardinality(OpenOrders \cup {n})
  BY <1>3, <1>5, FS_Subset, FS_CardinalityType
<1>7. CASE x.decision = "keep"
  <2>1. KeptOrders' = KeptOrders \cup {n} /\ n \notin KeptOrders
    BY <1>2, <1>7 DEF KeptOrders
  <2>2. Cardinality(KeptOrders') = Cardinality(KeptOrders) + 1
    BY <1>4, <2>1, FS_AddElement
  <2> QED
    BY <1>2, <1>5, <1>6, <1>7, <2>2 DEF n
<1>8. CASE x.decision # "keep"
  <2>1. KeptOrders' = KeptOrders
    BY <1>2, <1>8 DEF KeptOrders
  <2> QED
    BY <1>2, <1>4, <1>5, <1>6, <1>8, <2>1 DEF n
<1> QED
  BY <1>7, <1>8

(* An order is cancelled. *)
Cancels(o, c) ==
  orders' = [orders EXCEPT ![o].status = "cancelled", ![o].cancelledFor = c]

LEMMA OneCancelled ==
  ASSUME FinalizerTypeOK, NEW o \in 1..Len(orders), NEW c \in Nat, Cancels(o, c)
  PROVE  /\ orders'[o].status \notin Open
         /\ \A p \in 1..Len(orders) : p # o => orders'[p] = orders[p]
         /\ Cardinality(OpenOrders') =
              Cardinality(OpenOrders) - (IF orders[o].status \in Open THEN 1 ELSE 0)
         /\ Cardinality(KeptOrders') = Cardinality(KeptOrders)
<1>1. orders \in Seq(OrderType) /\ o \in Nat /\ c \in Nat /\ "cancelled" \in Status
  BY DEF FinalizerTypeOK, Status
<1> DEFINE r == orders'
           s == "cancelled"
<1>2. r \in {[orders EXCEPT ![o].status = s],
             [orders EXCEPT ![o].status = s, ![o].cancelledFor = c]}
  BY DEF Cancels
<1>3. /\ Len(r) = Len(orders) /\ r[o].status = "cancelled"
      /\ \A p \in 1..Len(orders) : p # o => r[p] = orders[p]
      /\ \A p \in 1..Len(orders) : \A f \in Lasting : r[p][f] = orders[p][f]
  <2>1. s \in Status /\ o \in 1..Len(orders)
    BY <1>1
  <2> HIDE DEF r, s
  <2>2. /\ r \in Seq(OrderType) /\ Len(r) = Len(orders)
        /\ \A p \in 1..Len(orders) : p # o => r[p] = orders[p]
        /\ \A p \in 1..Len(orders) : \A f \in Lasting : r[p][f] = orders[p][f]
        /\ r[o].status = s
    BY <1>1, <1>2, <2>1, OrderChanges
  <2> QED
    BY <2>2 DEF s
<1> HIDE DEF r
<1>4. "cancelled" \notin Open
  BY DEF Open
<1>5. OpenOrders' = OpenOrders \ {o}
  BY <1>3, <1>4 DEF OpenOrders, r
<1>6. KeptOrders' = KeptOrders
  <2>1. \A p \in 1..Len(orders) : r[p].decision = orders[p].decision
    BY <1>3 DEF Lasting
  <2> QED
    BY <1>3, <2>1 DEF KeptOrders, r
<1>7. IsFiniteSet(OpenOrders) /\ Cardinality(OpenOrders) \in Nat
  BY OpenFinite
<1>8. CASE orders[o].status \in Open
  <2>1. o \in OpenOrders
    BY <1>8 DEF OpenOrders
  <2>2. Cardinality(OpenOrders') = Cardinality(OpenOrders) - 1
    BY <1>5, <1>7, <2>1, FS_RemoveElement
  <2> QED
    BY <1>3, <1>4, <1>6, <1>8, <2>2 DEF r
<1>9. CASE orders[o].status \notin Open
  <2>1. OpenOrders' = OpenOrders
    BY <1>5, <1>9 DEF OpenOrders
  <2> QED
    BY <1>3, <1>4, <1>6, <1>7, <1>9, <2>1 DEF r
<1> QED
  BY <1>8, <1>9

(* Only one attempt runs at a time when there is one worker. *)
LEMMA NobodyRuns ==
  ASSUME Workers = 1, Cardinality(Busy) < Workers
  PROVE  Busy = {} /\ Running = {}
<1>1. IsFiniteSet(Busy) /\ Running \subseteq Busy
  BY FS_Subset, FinalizerAssumption DEF Busy, Running, Resting
<1>2. Cardinality(Busy) \in Nat /\ Cardinality(Busy) < 1
  BY <1>1, FS_CardinalityType
<1>3. Cardinality(Busy) = 0
  BY <1>2
<1> QED
  BY <1>1, <1>3, FS_EmptySet

=============================================================================
