-------------------------- MODULE GrokAgentProofs --------------------------
(***************************************************************************)
(* Proofs about GrokAgent.  The turns of a customer may overlap, so of the *)
(* copy a turn has taken only what no other turn takes back is invariant:  *)
(* that a pending order comes with its decision, that a message is on      *)
(* record as the one that decided only after it has resolved something,    *)
(* and that what the customer's details held at the start they hold now.   *)
(* The second part is about turns that do not overlap.                     *)
(***************************************************************************)
EXTENDS GrokAgent, FinalizerProofs

(* The turn has taken its copy of the conversation. *)
Loaded(m) == pc[m] \notin Resting \cup {"insertCustomer", "readCustomer", "openState"}

(* The order is placed; an attempt that fails here places it again.        *)
Closing == Placing \cup {"close"}

(* A message yet to be dealt with has an attempt left. *)
Budget == \A m \in Messages : pc[m] \notin {"done", "failed"} => tries[m] < MaxAttempts

(* An attempt at the message has found an open order to ask about.         *)
HasResolved(x) ==
  \/ tries[x] > 0 \/ crashes > 0 \/ pc[x] \in {"settle", "done"}
  \/ mem[x] # None /\ mem[x].candidate # None

Heard(d) == d.resolver # None => HasResolved(d.resolver)

(* A pending order is one there is, and comes with its decision.           *)
Decides(d, q) ==
  /\ d.pending = None <=> d.decision = None
  /\ d.pending # None => d.pending \in 1..Len(q)

(* What the turn started from.  A candidate is looked for only when there  *)
(* is no decision on record, so its turn cannot finalize.                  *)
Begun(m) ==
  /\ \A f \in Details : mem[m].customer[f] # None => customer[f] # None
  /\ Loaded(m) => State(m) # None /\ Decides(State(m), orders) /\ Heard(State(m))
  /\ pc[m] = "openState" => mem[m].state = None
  /\ pc[m] \in {"openState", "findOpenOrder", "ask", "persist"} =>
       mem[m].round < MaxIterations
  /\ pc[m] \in {"openState", "findOpenOrder"} => mem[m].candidate = None
  /\ pc[m] = "findOpenOrder" => ~mem[m].decided
  /\ mem[m].candidate # None => ~mem[m].decided /\ mem[m].candidate \in 1..Len(orders)
  /\ pc[m] \in Finalizing \cup Closing => mem[m].candidate = None

Turn(m) ==
  /\ mem[m] # None => Begun(m)
  /\ Ready(m)
  /\ pc[m] \in Closing => Placed(State(m).id)

IInv ==
  /\ TypeOK
  /\ Budget
  /\ OrdersAreComplete
  /\ doc # None => Decides(doc, orders) /\ Heard(doc)
  /\ \A m \in Messages : Turn(m)

(* The turn that runs alone: its conversation is the customer's, it has    *)
(* all that is on record and more, and the order it may replace is the one *)
(* on record, not open any more once it is replaced.                       *)
AloneAt(m) ==
  /\ Loaded(m) =>
       /\ doc # None /\ doc.id = State(m).id
       /\ \A s \in Slots : doc[s] # None => State(m)[s] # None
       /\ \/ State(m).pending = doc.pending
          \/ mem[m].candidate # None /\ State(m).pending = mem[m].candidate
  /\ pc[m] \in {"cancelRead", "cancelSave", "cancelLog"} => Replaces(m)
  /\ Calm =>
       /\ Loaded(m) /\ mem[m].candidate # None => orders[mem[m].candidate].status \in Open
       /\ pc[m] \in {"ask", "persist", "details", "create"} =>
            (State(m).pending = None /\ mem[m].candidate = None => OpenOrders = {})
       /\ pc[m] \in {"cancelLog", "create"} /\ Replaces(m) =>
            orders[State(m).pending].status \notin Open

(* There is room for an order when the pending one is not open any more,   *)
(* until a turn has placed one.                                            *)
Room ==
  Calm =>
    /\ OpenOrdersAccounted
    /\ (/\ doc # None /\ doc.pending # None /\ orders[doc.pending].status \notin Open
        /\ \A m \in Messages : pc[m] \notin Closing)
       => Cardinality(OpenOrders) <= Cardinality(KeptOrders) + faults

Alone ==
  ~overlapped =>
    /\ \A m, n \in Running : m = n
    /\ \A m \in Messages : AloneAt(m)
    /\ CancelledIsCovered
    /\ Room

----------------------------------------------------------------------------
(* What a step has to show. *)

(* Nothing that is required of a turn is taken from another.               *)
DocumentsKept ==
  /\ OrdersKept /\ CustomerKept /\ FinalizerTypeOK' /\ OrdersAreComplete'
  /\ doc' \in DocumentType \cup {None} /\ opened' \in Nat /\ overlapped' \in BOOLEAN

HeardStay == \A x \in Messages : HasResolved(x) => HasResolved(x)'

LEMMA Typed ==
  ASSUME TypeOK
  PROVE  /\ Attempting(Place, MemoryType)
         /\ Resting \subseteq Place
         /\ Resting \cup Finalizing \cup {"finalized"} \subseteq Place
         /\ FinalizerTypeOK /\ orders \in Seq(OrderType) /\ crashes \in Nat
         /\ tries \in [Messages -> Nat]
BY FinalizerAssumption DEF TypeOK, FinalizerTypeOK, Attempting, Place

LEMMA HeardKept ==
  ASSUME IInv, NEW m \in Messages, OthersStay(m), crashes' = crashes,
         tries'[m] = tries[m] \/ tries'[m] > 0,
         tries'[m] > 0 \/ (pc[m] \in {"settle", "done"} => pc'[m] \in {"settle", "done"}),
         mem[m] # None /\ mem[m].candidate # None =>
           \/ tries'[m] > 0 \/ pc'[m] \in {"settle", "done"}
           \/ mem'[m] # None /\ mem'[m].candidate # None
  PROVE  HeardStay
<1>1. SUFFICES ASSUME NEW x \in Messages, HasResolved(x)
               PROVE  HasResolved(x)'
  BY DEF HeardStay
<1>2. CASE x # m
  BY <1>1, <1>2 DEF OthersStay, HasResolved
<1>3. CASE x = m
  BY <1>1, <1>3 DEF HasResolved
<1> QED
  BY <1>2, <1>3

LEMMA DecidesKept ==
  ASSUME IInv, OrdersKept, NEW d, Decides(d, orders)
  PROVE  Decides(d, orders')
<1>1. Len(orders) \in Nat /\ Len(orders) <= Len(orders')
  BY Typed DEF IInv, OrdersKept
<1> QED
  BY <1>1 DEF Decides

(* A turn that another step passes by. *)
LEMMA TurnKept ==
  ASSUME IInv, OrdersKept, CustomerKept, HeardStay, NEW n \in Messages,
         pc'[n] = pc[n], mem'[n] = mem[n]
  PROVE  Turn(n)'
<1>1. Turn(n) /\ State(n)' = State(n) /\ (Loaded(n)' <=> Loaded(n))
  BY DEF IInv, State, Loaded
<1>2. Ready(n)'
  BY <1>1, ReadyKept DEF Turn
<1>3. pc'[n] \in Closing => Placed(State(n).id)'
  BY <1>1 DEF Turn, Placed, OrdersKept, Lasting
<1>4. ASSUME mem[n] # None
      PROVE  Begun(n)'
  <2>1. Begun(n)
    BY <1>1, <1>4 DEF Turn
  <2>2. \A f \in Details : mem[n].customer[f] # None => customer'[f] # None
    BY <2>1 DEF Begun, CustomerKept
  <2>3. Loaded(n) => State(n) # None /\ Decides(State(n), orders') /\ Heard(State(n))'
    <3>1. SUFFICES ASSUME Loaded(n)
                   PROVE  State(n) # None /\ Decides(State(n), orders') /\ Heard(State(n))'
      OBVIOUS
    <3>2. State(n) # None /\ Decides(State(n), orders) /\ Heard(State(n))
      BY <2>1, <3>1 DEF Begun
    <3>3. State(n).resolver \in Messages \cup {None}
      BY <1>4, <3>2 DEF IInv, TypeOK, MemoryType, DocumentType, State
    <3> QED
      BY <1>1, <3>2, <3>3, DecidesKept DEF Heard, HeardStay
  <2>4. mem[n].candidate \in 1..Len(orders) => mem[n].candidate \in 1..Len(orders')
    BY Typed DEF IInv, OrdersKept
  <2> QED
    BY <1>1, <2>1, <2>2, <2>3, <2>4 DEF Begun
<1> QED
  BY <1>2, <1>3, <1>4 DEF Turn

LEMMA RestTurn ==
  ASSUME NEW n, pc'[n] \in Resting, mem'[n] = None
  PROVE  Turn(n)'
<1>1. pc'[n] \notin Finalizing \cup Closing
  BY DEF Resting, Finalizing, Closing, Placing
<1> QED
  BY <1>1 DEF Turn, Ready

(* A step of one turn. *)
LEMMA StepHolds ==
  ASSUME IInv, NEW m \in Messages, Attempting(Place, MemoryType)', OthersStay(m),
         DocumentsKept, HeardStay, doc' # None => Decides(doc, orders)' /\ Heard(doc)',
         Turn(m)', mem'[m] = None <=> pc'[m] \in Resting \cup {"insertCustomer", "readCustomer"},
         pc'[m] \notin {"done", "failed"} => tries'[m] < MaxAttempts
  PROVE  IInv'
<1>1. \A n \in Messages \ {m} : Turn(n)'
  BY TurnKept DEF OthersStay, DocumentsKept
<1>2. TypeOK'
  BY DEF IInv, TypeOK, DocumentsKept, Attempting, OthersStay
<1>3. Budget'
  BY DEF IInv, Budget, OthersStay
<1> QED
  BY <1>1, <1>2, <1>3 DEF IInv, DocumentsKept

(* The documents of the customer stay as they are. *)
LEMMA SameDocuments ==
  ASSUME IInv, UNCHANGED documents, updates' \in 0..MaxUpdates, faults' \in 0..MaxFaults,
         crashes' \in 0..MaxCrashes, tries' \in [Messages -> 0..MaxAttempts]
  PROVE  OrdersKept /\ CustomerKept /\ FinalizerTypeOK' /\ OrdersAreComplete'
<1>1. orders' = orders /\ customer' = customer /\ Len(orders) \in Nat
  BY Typed DEF documents, IInv
<1>2. OrdersKept /\ CustomerKept
  BY <1>1 DEF OrdersKept, CustomerKept
<1>3. FinalizerTypeOK'
  BY <1>1 DEF IInv, TypeOK, FinalizerTypeOK
<1>4. OrdersAreComplete'
  BY <1>1 DEF IInv, OrdersAreComplete
<1> QED
  BY <1>2, <1>3, <1>4

LEMMA BoundsSame ==
  ASSUME IInv, UNCHANGED bounds
  PROVE  /\ updates' \in 0..MaxUpdates /\ faults' \in 0..MaxFaults /\ crashes' \in 0..MaxCrashes
         /\ updates' = updates /\ faults' = faults /\ crashes' = crashes
BY DEF IInv, TypeOK, FinalizerTypeOK, bounds

(* So does the conversation. *)
LEMMA SameConversation ==
  ASSUME IInv, UNCHANGED conversation, overlapped' \in BOOLEAN, OrdersKept, HeardStay
  PROVE  /\ doc' \in DocumentType \cup {None} /\ opened' \in Nat /\ overlapped' \in BOOLEAN
         /\ doc' # None => Decides(doc, orders)' /\ Heard(doc)'
<1>1. doc' = doc /\ opened' = opened /\ doc \in DocumentType \cup {None}
      /\ opened \in Nat
  BY DEF conversation, IInv, TypeOK
<1>2. doc # None => doc.resolver \in Messages \cup {None} /\ Decides(doc, orders) /\ Heard(doc)
  BY <1>1 DEF DocumentType, IInv
<1>3. doc # None => Heard(doc)'
  BY <1>1, <1>2 DEF Heard, HeardStay
<1>4. doc # None => Decides(doc, orders')
  BY <1>2, DecidesKept
<1> QED
  BY <1>1, <1>3, <1>4 DEF Decides, Heard

(* A step that leaves all the documents alone. *)
LEMMA QuietStep ==
  ASSUME IInv, NEW m \in Messages, Attempting(Place, MemoryType)', OthersStay(m),
         UNCHANGED documents, UNCHANGED conversation, overlapped' \in BOOLEAN,
         updates' \in 0..MaxUpdates, faults' \in 0..MaxFaults, crashes' \in 0..MaxCrashes,
         HeardStay, Turn(m)',
         mem'[m] = None <=> pc'[m] \in Resting \cup {"insertCustomer", "readCustomer"},
         pc'[m] \notin {"done", "failed"} => tries'[m] < MaxAttempts
  PROVE  IInv'
<1>1. OrdersKept /\ CustomerKept /\ FinalizerTypeOK' /\ OrdersAreComplete'
  BY SameDocuments DEF Attempting
<1> QED
  BY <1>1, SameConversation, StepHolds DEF DocumentsKept

(* A call fails. *)
LEMMA RejectHolds ==
  ASSUME IInv, NEW m \in Messages, Reject(m), tries[m] < MaxAttempts, pc[m] \notin {"done", "failed"},
         UNCHANGED documents, UNCHANGED conversation, UNCHANGED overlapped,
         updates' \in 0..MaxUpdates, faults' \in 0..MaxFaults, crashes' = crashes
  PROVE  IInv'
<1>1. /\ Attempting(Place, MemoryType)' /\ Ends(m) /\ tries'[m] = tries[m] + 1
      /\ pc'[m] \in {"queued", "failed"}
      /\ pc'[m] = "queued" => tries'[m] < MaxAttempts
  BY Typed, RejectStep DEF IInv
<1>2. tries'[m] > 0
  BY <1>1, Typed DEF IInv
<1>3. HeardStay
  BY <1>1, <1>2, HeardKept DEF Ends
<1>4. crashes' \in 0..MaxCrashes /\ overlapped' \in BOOLEAN
  BY DEF IInv, TypeOK, FinalizerTypeOK
<1> QED
  BY <1>1, <1>3, <1>4, RestTurn, QuietStep DEF Ends

----------------------------------------------------------------------------
(* The start of a turn. *)

LEMMA FindHolds ==
  ASSUME IInv, NEW m \in Messages, FindCustomer(m)
  PROVE  IInv'
<1>1. /\ pc[m] = "queued" /\ UNCHANGED documents /\ mem' = mem /\ tries' = tries
      /\ UNCHANGED bounds /\ UNCHANGED conversation
      /\ Go(m, "readCustomer") \/ Go(m, "insertCustomer")
  BY DEF FindCustomer
<1>2. overlapped' \in BOOLEAN
  BY DEF FindCustomer
<1>3. /\ Attempting(Place, MemoryType)' /\ OthersStay(m)
      /\ pc'[m] \in {"readCustomer", "insertCustomer"} /\ mem'[m] = mem[m] /\ tries'[m] = tries[m]
  <2>1. "readCustomer" \in Place /\ "insertCustomer" \in Place
    BY DEF Place
  <2> QED
    BY <1>1, <2>1, Typed, GoesOn DEF IInv
<1>4. mem[m] = None /\ tries[m] < MaxAttempts
  BY <1>1 DEF IInv, TypeOK, Budget, Resting
<1>5. Turn(m)'
  BY <1>3, <1>4 DEF Turn, Ready, Finalizing, Closing, Placing
<1>6. HeardStay
  BY <1>1, <1>3, BoundsSame, HeardKept
<1> QED
  BY <1>1, <1>2, <1>3, <1>4, <1>5, <1>6, BoundsSame, QuietStep

LEMMA InsertHolds ==
  ASSUME IInv, NEW m \in Messages, InsertCustomer(m)
  PROVE  IInv'
<1>1. /\ pc[m] = "insertCustomer" /\ orders' = orders /\ UNCHANGED bounds
      /\ UNCHANGED conversation /\ overlapped' = overlapped
  BY DEF InsertCustomer, AddCustomer
<1>2. mem[m] = None /\ tries[m] < MaxAttempts
  BY <1>1 DEF IInv, TypeOK, Budget
<1>3. CASE customer.exists
  <2>1. Reject(m) /\ UNCHANGED documents
    BY <1>1, <1>3 DEF InsertCustomer, AddCustomer, documents
  <2> QED
    BY <1>1, <1>2, <2>1, BoundsSame, RejectHolds
<1>4. CASE ~customer.exists
  <2>1. /\ customer' = [customer EXCEPT !.exists = TRUE]
        /\ Go(m, "readCustomer") /\ mem' = mem /\ tries' = tries
    BY <1>4 DEF InsertCustomer, AddCustomer
  <2>2. /\ Attempting(Place, MemoryType)' /\ OthersStay(m)
        /\ pc'[m] = "readCustomer" /\ mem'[m] = mem[m] /\ tries'[m] = tries[m]
    <3>1. "readCustomer" \in Place
      BY DEF Place
    <3> QED
      BY <2>1, <3>1, Typed, GoesOn DEF IInv
  <2>3. customer' \in CustomerType /\ \A f \in Details : customer'[f] = customer[f]
    BY <2>1 DEF IInv, TypeOK, FinalizerTypeOK, CustomerType, Details
  <2>4. OrdersKept /\ CustomerKept /\ Len(orders') = Len(orders)
    BY <1>1, <2>3, Typed DEF OrdersKept, CustomerKept, IInv
  <2>5. FinalizerTypeOK' /\ OrdersAreComplete'
    BY <1>1, <2>1, <2>3, <2>4, CompleteKept DEF IInv, TypeOK, FinalizerTypeOK, bounds
  <2>6. Turn(m)'
    BY <1>2, <2>2 DEF Turn, Ready, Finalizing, Closing, Placing
  <2>7. HeardStay
    BY <1>1, <2>2, BoundsSame, HeardKept
  <2>8. overlapped' \in BOOLEAN
    BY <1>1 DEF IInv, TypeOK
  <2> QED
    BY <1>1, <1>2, <2>2, <2>4, <2>5, <2>6, <2>7, <2>8, SameConversation, StepHolds
       DEF DocumentsKept
<1> QED
  BY <1>3, <1>4

(* The turn has memory, but not yet of a conversation. *)
LEMMA ReadHolds ==
  ASSUME IInv, NEW m \in Messages, ReadCustomer(m)
  PROVE  IInv'
<1> DEFINE x == [state |-> None, customer |-> customer, candidate |-> None,
                 decided |-> FALSE, round |-> 0]
<1>1. /\ pc[m] = "readCustomer" /\ UNCHANGED documents /\ tries' = tries
      /\ UNCHANGED bounds /\ UNCHANGED conversation /\ overlapped' = overlapped
      /\ Go(m, "openState") /\ mem' = [mem EXCEPT ![m] = x]
  BY DEF ReadCustomer
<1>2. x \in MemoryType /\ x.candidate = None /\ x.state = None /\ x.round < MaxIterations
      /\ x.customer = customer
  BY AgentAssumption DEF IInv, TypeOK, FinalizerTypeOK, MemoryType
<1>3. x # None
  BY <1>2, AgentAssumption
<1> HIDE DEF x
<1>4. /\ Attempting(Place, MemoryType)' /\ OthersStay(m) /\ mem'[m] = x /\ pc'[m] = "openState"
      /\ tries'[m] = tries[m]
  <2>1. "openState" \in Place
    BY DEF Place
  <2> QED
    BY <1>1, <1>2, <2>1, Typed DEF IInv, Attempting, Go, OthersStay
<1>5. mem[m] = None /\ tries[m] < MaxAttempts
  BY <1>1 DEF IInv, TypeOK, Budget
<1>6. Turn(m)'
  <2>1. customer' = customer
    BY <1>1 DEF documents
  <2>2. ~Loaded(m)' /\ pc'[m] \notin Finalizing \cup Closing \cup {"findOpenOrder"}
    BY <1>4 DEF Loaded, Finalizing, Closing, Placing
  <2> QED
    BY <1>2, <1>4, <2>1, <2>2 DEF Turn, Ready, Begun
<1>7. HeardStay
  BY <1>1, <1>4, <1>5, BoundsSame, HeardKept
<1>8. overlapped' \in BOOLEAN
  BY <1>1 DEF IInv, TypeOK
<1> QED
  BY <1>1, <1>3, <1>4, <1>5, <1>6, <1>7, <1>8, BoundsSame, QuietStep DEF Resting

(* What holds of the memory of a turn. *)
LEMMA Begins ==
  ASSUME IInv, NEW m \in Messages,
         pc[m] \notin Resting \cup {"insertCustomer", "readCustomer"}
  PROVE  /\ mem[m] \in MemoryType /\ mem[m] # None /\ Begun(m) /\ Turn(m)
         /\ tries[m] < MaxAttempts
BY DEF IInv, TypeOK, Budget, Turn, Resting

(* What OpenState makes of the memory. *)
Opens(m, d) ==
  mem' = [mem EXCEPT ![m].state = d, ![m].decided = d.decision # None]

LEMMA OpensCopy ==
  ASSUME NEW m \in Messages, Attempting(Place, MemoryType), mem[m] \in MemoryType,
         NEW d \in DocumentType, Opens(m, d)
  PROVE  /\ mem'[m] \in MemoryType
         /\ mem'[m].state = d /\ (mem'[m].decided <=> d.decision # None)
         /\ mem'[m].customer = mem[m].customer /\ mem'[m].candidate = mem[m].candidate
         /\ mem'[m].round = mem[m].round
         /\ mem' \in [Messages -> MemoryType \cup {None}]
         /\ \A n \in Messages \ {m} : mem'[n] = mem[n]
<1> DEFINE y == mem[m]
           b == d.decision # None
           z == [y EXCEPT !.state = d]
           x == [z EXCEPT !.decided = b]
<1>1. mem' = [mem EXCEPT ![m] = x]
  BY DEF Opens, Attempting
<1>2. b \in BOOLEAN
  OBVIOUS
<1>3. z \in MemoryType /\ z.state = d /\ z.customer = y.customer /\ z.candidate = y.candidate
      /\ z.round = y.round
  BY DEF MemoryType
<1> HIDE DEF y, z, b
<1>4. /\ x \in MemoryType /\ x.state = d /\ x.decided = b /\ x.customer = y.customer
      /\ x.candidate = y.candidate /\ x.round = y.round
  BY <1>2, <1>3 DEF MemoryType
<1> HIDE DEF x
<1>5. mem'[m] = x /\ mem' \in [Messages -> MemoryType \cup {None}]
      /\ \A n \in Messages \ {m} : mem'[n] = mem[n]
  BY <1>1, <1>4 DEF Attempting
<1> QED
  BY <1>4, <1>5 DEF y, b

(* The copy is taken; a new conversation is empty. *)
LEMMA OpenHolds ==
  ASSUME IInv, NEW m \in Messages, OpenState(m)
  PROVE  IInv'
<1>1. /\ pc[m] = "openState" /\ UNCHANGED documents /\ tries' = tries /\ UNCHANGED bounds
      /\ overlapped' = overlapped /\ orders' = orders /\ customer' = customer
      /\ doc' = IF doc = None THEN FreshDocument(opened + 1) ELSE doc
      /\ opened' \in {opened, opened + 1}
      /\ Opens(m, doc')
      /\ Go(m, IF doc'.pending = None THEN "findOpenOrder" ELSE "ask")
  BY DEF OpenState, documents, Opens
<1>2. doc \in DocumentType \cup {None} /\ opened \in Nat
  BY DEF IInv, TypeOK
<1>3. opened' \in Nat
  BY <1>1, <1>2
<1>4. \E d \in DocumentType : doc' = d /\ Decides(d, orders) /\ Heard(d)
  <2>1. CASE doc = None
    <3>1. FreshDocument(opened + 1) \in DocumentType
      BY <1>2 DEF FreshDocument, DocumentType
    <3> QED
      BY <1>1, <2>1, <3>1 DEF FreshDocument, Decides, Heard
  <2>2. CASE doc # None
    BY <1>1, <1>2, <2>2 DEF IInv
  <2> QED
    BY <2>1, <2>2
<1>5. PICK d \in DocumentType : doc' = d /\ Decides(d, orders) /\ Heard(d)
  BY <1>4
<1>19. d # None
  BY AgentAssumption
<1>6. mem[m] \in MemoryType /\ mem[m] # None /\ Begun(m) /\ tries[m] < MaxAttempts
  BY <1>1, Begins DEF Resting
<1>7. /\ mem'[m] \in MemoryType
      /\ mem'[m].state = d /\ (mem'[m].decided <=> d.decision # None)
      /\ mem'[m].customer = mem[m].customer /\ mem'[m].candidate = mem[m].candidate
      /\ mem'[m].round = mem[m].round
      /\ mem' \in [Messages -> MemoryType \cup {None}]
      /\ \A n \in Messages \ {m} : mem'[n] = mem[n]
  BY <1>1, <1>5, <1>6, Typed, OpensCopy DEF IInv
<1>8. mem'[m] # None
  BY <1>7, AgentAssumption
<1>9. /\ Attempting(Place, MemoryType)' /\ OthersStay(m)
      /\ pc'[m] = IF d.pending = None THEN "findOpenOrder" ELSE "ask"
  <2>1. "findOpenOrder" \in Place /\ "ask" \in Place
    BY DEF Place
  <2> QED
    BY <1>1, <1>5, <1>7, <2>1, Typed DEF IInv, Attempting, Go, OthersStay
<1>10. HeardStay
  <2>1. mem[m].candidate # None => mem'[m] # None /\ mem'[m].candidate # None
    BY <1>7, <1>8
  <2> QED
    BY <1>1, <1>9, <2>1, BoundsSame, HeardKept
<1>11. Heard(d)'
  <2>1. d.resolver \in Messages \cup {None}
    BY DEF DocumentType
  <2> QED
    BY <1>5, <1>10, <2>1 DEF Heard, HeardStay
<1>12. Heard(doc)' /\ Decides(doc, orders)'
  BY <1>1, <1>5, <1>11 DEF Heard, Decides
<1>13. Turn(m)'
  <2>1. pc'[m] \in {"findOpenOrder", "ask"} /\ pc'[m] \notin Finalizing \cup Closing
    BY <1>9 DEF Finalizing, Closing, Placing
  <2>2. State(m)' = d /\ d # None
    BY <1>7, <1>19 DEF State
  <2>3. Decides(State(m), orders)' /\ Heard(State(m))'
    BY <1>1, <1>5, <1>11, <2>2 DEF Decides, Heard
  <2>4. pc'[m] = "findOpenOrder" => ~mem'[m].decided
    BY <1>5, <1>7, <1>9 DEF Decides
  <2>5. Begun(m)'
    BY <1>1, <1>6, <1>7, <2>1, <2>2, <2>3, <2>4 DEF Begun
  <2> QED
    BY <2>1, <2>5 DEF Turn, Ready
<1>14. OrdersKept /\ CustomerKept /\ FinalizerTypeOK' /\ OrdersAreComplete'
  BY <1>1, <1>9, BoundsSame, SameDocuments DEF Attempting
<1>15. overlapped' \in BOOLEAN
  BY <1>1 DEF IInv, TypeOK
<1>16. mem'[m] = None <=> pc'[m] \in Resting \cup {"insertCustomer", "readCustomer"}
  BY <1>8, <1>9 DEF Resting
<1>17. DocumentsKept
  BY <1>3, <1>5, <1>14, <1>15 DEF DocumentsKept
<1>18. tries'[m] < MaxAttempts
  BY <1>1, <1>6
<1> QED
  BY <1>9, <1>10, <1>12, <1>13, <1>16, <1>17, <1>18, StepHolds

(* A candidate is an order, and the turn is not allowed to finalize. *)
LEMMA CandidateHolds ==
  ASSUME IInv, NEW m \in Messages, FindOpenOrder(m)
  PROVE  IInv'
<1>1. /\ pc[m] = "findOpenOrder" /\ UNCHANGED documents /\ tries' = tries /\ UNCHANGED bounds
      /\ overlapped' = overlapped /\ UNCHANGED conversation /\ orders' = orders
      /\ customer' = customer /\ Go(m, "ask")
      /\ \/ mem' = mem
         \/ \E o \in 1..Len(orders) : mem' = [mem EXCEPT ![m].candidate = o]
  BY DEF FindOpenOrder, documents
<1>2. mem[m] \in MemoryType /\ mem[m] # None /\ Begun(m) /\ tries[m] < MaxAttempts
  BY <1>1, Begins DEF Resting
<1>3. mem[m].candidate = None /\ ~mem[m].decided /\ State(m) # None
  BY <1>1, <1>2 DEF Begun, Loaded, Resting
<1>4. PICK c \in {None} \cup 1..Len(orders) :
        mem' = [mem EXCEPT ![m] = [mem[m] EXCEPT !.candidate = c]]
  <2>1. CASE mem' = mem
    <3>1. mem[m] = [mem[m] EXCEPT !.candidate = None]
      BY <1>2, <1>3 DEF MemoryType
    <3>2. mem' = [mem EXCEPT ![m] = mem[m]]
      BY <2>1, Typed DEF IInv, Attempting
    <3> QED
      BY <3>1, <3>2
  <2>2. CASE \E o \in 1..Len(orders) : mem' = [mem EXCEPT ![m].candidate = o]
    BY <2>2
  <2> QED
    BY <1>1, <2>1, <2>2
<1> DEFINE x == [mem[m] EXCEPT !.candidate = c]
<1>5. /\ x \in MemoryType /\ x.state = mem[m].state /\ x.customer = mem[m].customer
      /\ x.candidate = c /\ x.decided = mem[m].decided /\ x.round = mem[m].round
  BY <1>2 DEF MemoryType
<1>6. x # None
  BY <1>5, AgentAssumption
<1> HIDE DEF x
<1>7. /\ Attempting(Place, MemoryType)' /\ OthersStay(m) /\ pc'[m] = "ask" /\ mem'[m] = x
  <2>1. "ask" \in Place
    BY DEF Place
  <2> QED
    BY <1>1, <1>4, <1>5, <2>1, Typed DEF IInv, Attempting, Go, OthersStay, x
<1>8. HeardStay
  BY <1>1, <1>3, <1>7, BoundsSame, HeardKept
<1>9. Turn(m)'
  <2>1. State(m)' = State(m) /\ Loaded(m)
    BY <1>1, <1>5, <1>7 DEF State, Loaded, Resting
  <2>2. State(m).resolver \in Messages \cup {None}
    BY <1>2, <1>3 DEF MemoryType, DocumentType, State
  <2>3. Decides(State(m), orders)' /\ Heard(State(m))'
    BY <1>1, <1>2, <1>8, <2>1, <2>2 DEF Begun, Decides, Heard, HeardStay
  <2>4. Begun(m)'
    BY <1>1, <1>2, <1>3, <1>5, <1>7, <2>1, <2>3 DEF Begun, Finalizing, Closing, Placing
  <2> QED
    BY <1>7, <2>4 DEF Turn, Ready, Finalizing, Closing, Placing
<1>10. overlapped' \in BOOLEAN
  BY <1>1 DEF IInv, TypeOK
<1>11. tries'[m] < MaxAttempts
  BY <1>1, <1>2
<1> QED
  BY <1>1, <1>6, <1>7, <1>8, <1>9, <1>10, <1>11, BoundsSame, QuietStep DEF Resting

----------------------------------------------------------------------------
(* The model. *)

LEMMA NoResponseHolds ==
  ASSUME IInv, NEW m \in Messages, NoResponse(m)
  PROVE  IInv'
<1>1. /\ pc[m] = "ask" /\ UNCHANGED documents /\ Finish(m) /\ UNCHANGED bounds
      /\ overlapped' = overlapped /\ UNCHANGED conversation
  BY DEF NoResponse
<1>2. /\ Attempting(Place, MemoryType)' /\ Ends(m) /\ pc'[m] = "settle" /\ tries' = tries
      /\ tries'[m] < MaxAttempts
  BY <1>1, Typed, FinishStep DEF IInv, Budget
<1>3. HeardStay
  BY <1>1, <1>2, BoundsSame, HeardKept DEF Ends
<1>4. overlapped' \in BOOLEAN
  BY <1>1 DEF IInv, TypeOK
<1> QED
  BY <1>1, <1>2, <1>3, <1>4, BoundsSame, RestTurn, QuietStep DEF Ends

LEMMA AnswerHolds ==
  ASSUME IInv, NEW m \in Messages, AnswerText(m)
  PROVE  IInv'
<1>1. /\ pc[m] = "ask" /\ UNCHANGED documents /\ mem' = mem /\ tries' = tries /\ UNCHANGED bounds
      /\ overlapped' = overlapped /\ UNCHANGED conversation /\ Go(m, "history")
  BY DEF AnswerText
<1>2. mem[m] # None /\ Begun(m) /\ tries[m] < MaxAttempts
  BY <1>1, Begins DEF Resting
<1>3. /\ Attempting(Place, MemoryType)' /\ OthersStay(m) /\ pc'[m] = "history"
      /\ mem'[m] = mem[m]
  <2>1. "history" \in Place
    BY DEF Place
  <2> QED
    BY <1>1, <2>1, Typed, GoesOn DEF IInv
<1>4. HeardStay
  BY <1>1, <1>3, BoundsSame, HeardKept
<1>5. Turn(m)'
  <2>1. State(m)' = State(m) /\ Loaded(m) /\ orders' = orders /\ customer' = customer
    BY <1>1 DEF State, Loaded, Resting, documents
  <2>2. State(m) # None /\ State(m).resolver \in Messages \cup {None}
    BY <1>1, <1>2, <2>1, Begins DEF Begun, MemoryType, DocumentType, State, Resting
  <2>3. Decides(State(m), orders)' /\ Heard(State(m))'
    BY <1>2, <1>4, <2>1, <2>2 DEF Begun, Decides, Heard, HeardStay
  <2>4. Begun(m)'
    BY <1>2, <1>3, <2>1, <2>2, <2>3 DEF Begun, Finalizing, Closing, Placing
  <2> QED
    BY <1>3, <2>4 DEF Turn, Ready, Finalizing, Closing, Placing
<1>6. overlapped' \in BOOLEAN
  BY <1>1 DEF IInv, TypeOK
<1>7. tries'[m] < MaxAttempts /\ mem'[m] # None
  BY <1>1, <1>2
<1> QED
  BY <1>1, <1>3, <1>4, <1>5, <1>6, <1>7, BoundsSame, QuietStep DEF Resting

(* What the tools make of the copy.                                        *)
LEMMA ToldKeeps ==
  ASSUME NEW d \in DocumentType, NEW m \in Messages, NEW facts
  PROVE  /\ Told(d, m, facts) \in DocumentType
         /\ \A s \in Slots : d[s] # None => Told(d, m, facts)[s] # None
         /\ \A f \in {"id", "pending", "decision", "resolver", "history"} :
              Told(d, m, facts)[f] = d[f]
<1> DEFINE t == Told(d, m, facts)
<1>1. m # None
  BY FinalizerAssumption
<1>2. /\ t.id = d.id /\ t.pending = d.pending /\ t.decision = d.decision
      /\ t.resolver = d.resolver /\ t.history = d.history
  BY DEF Told, DocumentType
<1>3. /\ t.name \in {d.name, m} /\ t.phone \in {d.phone, m} /\ t.product \in {d.product, m}
      /\ t.quantity \in {d.quantity, 1} /\ t.address \in {d.address, m}
      /\ t.email \in {d.email, m}
  BY DEF Told, DocumentType
<1>4. t \in DocumentType
  <2> DEFINE name == IF "name" \in facts THEN m ELSE d.name
             phone == IF "phone" \in facts THEN m ELSE d.phone
             product == IF "item" \in facts THEN m ELSE d.product
             quantity == IF "item" \in facts THEN 1 ELSE d.quantity
             address == IF "address" \in facts THEN m ELSE d.address
             email == IF "email" \in facts THEN m ELSE d.email
  <2>1. t = [d EXCEPT !.name = name, !.phone = phone, !.product = product,
                      !.quantity = quantity, !.address = address, !.email = email]
    BY DEF Told
  <2>2. /\ {name, phone, product, address, email} \subseteq Messages \cup {None}
        /\ quantity \in {1, None}
    BY DEF DocumentType
  <2> HIDE DEF t, name, phone, product, quantity, address, email
  <2> QED
    BY <2>1, <2>2 DEF DocumentType
<1> HIDE DEF t
<1>5. 1 # None
  BY FinalizerAssumption
<1>6. \A s \in Slots : d[s] # None => t[s] # None
  BY <1>1, <1>3, <1>5 DEF Slots
<1> QED
  BY <1>2, <1>4, <1>6 DEF t

LEMMA ResolvedKeeps ==
  ASSUME NEW d \in DocumentType, NEW m \in Messages, NEW decision \in {None, "keep", "replace"},
         Decides(d, orders), mem[m].candidate \in {None} \cup 1..Len(orders)
  PROVE  /\ Resolved(d, m, decision) \in DocumentType
         /\ Decides(Resolved(d, m, decision), orders)
         /\ \A f \in Slots \cup {"id", "history"} : Resolved(d, m, decision)[f] = d[f]
         /\ \/ /\ Resolved(d, m, decision).resolver = d.resolver
               /\ Resolved(d, m, decision).pending = d.pending
            \/ /\ mem[m].candidate # None
               /\ Resolved(d, m, decision).resolver = m
               /\ Resolved(d, m, decision).pending = mem[m].candidate
<1> DEFINE o == mem[m].candidate
           r == [d EXCEPT !.pending = o, !.decision = decision, !.resolver = m]
<1>1. CASE o = None \/ decision = None
  BY <1>1 DEF Resolved
<1>2. CASE o # None /\ decision # None
  <2>1. Resolved(d, m, decision) = r
    BY <1>2 DEF Resolved
  <2>2. o \in Nat
    BY <1>2
  <2> HIDE DEF o
  <2>3. /\ r \in DocumentType /\ r.pending = o /\ r.decision = decision /\ r.resolver = m
        /\ \A f \in Slots \cup {"id", "history"} : r[f] = d[f]
    BY <2>2 DEF DocumentType, Slots
  <2> HIDE DEF r
  <2>4. Decides(r, orders)
    BY <1>2, <2>3 DEF Decides, o
  <2> QED
    BY <1>2, <2>1, <2>3, <2>4 DEF o
<1> QED
  BY <1>1, <1>2

(* The copy changes, and nothing else of the memory. *)
ChangesCopy(m, d) == mem' = [mem EXCEPT ![m].state = d]

LEMMA CopyChanges ==
  ASSUME IInv, NEW m \in Messages, mem[m] \in MemoryType, NEW d \in DocumentType,
         ChangesCopy(m, d)
  PROVE  /\ mem'[m] \in MemoryType /\ mem'[m] # None
         /\ mem'[m].state = d /\ mem'[m].decided = mem[m].decided
         /\ mem'[m].customer = mem[m].customer /\ mem'[m].candidate = mem[m].candidate
         /\ mem'[m].round = mem[m].round
         /\ mem' \in [Messages -> MemoryType \cup {None}]
         /\ \A n \in Messages \ {m} : mem'[n] = mem[n]
<1> DEFINE y == mem[m]
           x == [y EXCEPT !.state = d]
<1>1. mem' = [mem EXCEPT ![m] = x] /\ Attempting(Place, MemoryType)
  BY Typed DEF ChangesCopy, IInv
<1> HIDE DEF y
<1>2. y \in MemoryType
  BY DEF y
<1>3. /\ x \in MemoryType /\ x.state = d /\ x.decided = y.decided /\ x.customer = y.customer
      /\ x.candidate = y.candidate /\ x.round = y.round
  BY <1>2 DEF MemoryType
<1> HIDE DEF x
<1>4. x # None
  BY <1>3, AgentAssumption
<1>5. mem'[m] = x /\ mem' \in [Messages -> MemoryType \cup {None}]
      /\ \A n \in Messages \ {m} : mem'[n] = mem[n]
  BY <1>1, <1>3 DEF Attempting
<1> QED
  BY <1>3, <1>4, <1>5 DEF y

EndsCall(m, d) ==
  /\ ChangesCopy(m, d)
  /\ Go(m, "persist") \/ (Finalizable(m, d) /\ Go(m, "details"))

(* The tools run.  When they finalize, the draft has all that is missing   *)
(* from the customer's details, and the decision is another message's.     *)
LEMMA CallHolds ==
  ASSUME IInv, NEW m \in Messages, CallTools(m)
  PROVE  IInv'
<1>1. /\ pc[m] = "ask" /\ UNCHANGED documents /\ tries' = tries /\ UNCHANGED bounds
      /\ overlapped' = overlapped /\ UNCHANGED conversation
      /\ orders' = orders /\ customer' = customer
  BY DEF CallTools, documents
<1>2. PICK facts \in Tells[m], decision \in {None, "keep", "replace"} :
        EndsCall(m, Resolved(Told(State(m), m, facts), m, decision))
  BY DEF CallTools, ChangesCopy, EndsCall
<1> DEFINE t == Told(State(m), m, facts)
           d == Resolved(t, m, decision)
<1>8. EndsCall(m, d)
  BY <1>2
<1>3. mem[m] \in MemoryType /\ mem[m] # None /\ Begun(m) /\ tries[m] < MaxAttempts
  BY <1>1, Begins DEF Resting
<1>4. /\ State(m) \in DocumentType /\ Decides(State(m), orders) /\ Heard(State(m))
      /\ mem[m].candidate \in {None} \cup 1..Len(orders)
      /\ mem[m].candidate # None => ~mem[m].decided
      /\ mem[m].round < MaxIterations
  BY <1>1, <1>3 DEF Begun, Loaded, Resting, MemoryType, State
<1>5. /\ t \in DocumentType
      /\ \A f \in {"id", "pending", "decision", "resolver", "history"} : t[f] = State(m)[f]
  BY <1>4, ToldKeeps
<1>6. Decides(t, orders) /\ t.resolver = State(m).resolver
  BY <1>4, <1>5 DEF Decides
<1> HIDE DEF t
<1>7. /\ d \in DocumentType /\ Decides(d, orders)
      /\ d.resolver = State(m).resolver \/ (mem[m].candidate # None /\ d.resolver = m)
  <2>1. /\ d \in DocumentType /\ Decides(d, orders)
        /\ \/ d.resolver = t.resolver /\ d.pending = t.pending
           \/ /\ mem[m].candidate # None /\ d.resolver = m /\ d.pending = mem[m].candidate
    <3> HIDE DEF t
    <3> QED
      BY <1>2, <1>4, <1>5, <1>6, ResolvedKeeps
  <2> HIDE DEF t, d
  <2> QED
    BY <1>6, <2>1
<1> HIDE DEF d
<1>9. /\ mem'[m] \in MemoryType /\ mem'[m] # None
      /\ mem'[m].state = d /\ mem'[m].decided = mem[m].decided
      /\ mem'[m].customer = mem[m].customer /\ mem'[m].candidate = mem[m].candidate
      /\ mem'[m].round = mem[m].round
      /\ mem' \in [Messages -> MemoryType \cup {None}]
      /\ \A n \in Messages \ {m} : mem'[n] = mem[n]
  BY <1>3, <1>7, <1>8, CopyChanges DEF EndsCall
<1>10. /\ Attempting(Place, MemoryType)' /\ OthersStay(m) /\ pc'[m] \in {"persist", "details"}
       /\ pc'[m] = "details" => Finalizable(m, d)
  <2>1. "persist" \in Place /\ "details" \in Place
    BY DEF Place, Finalizing
  <2> QED
    BY <1>1, <1>8, <1>9, <2>1, Typed DEF IInv, Attempting, EndsCall, Go, OthersStay
<1>11. HeardStay
  BY <1>1, <1>3, <1>9, <1>10, BoundsSame, HeardKept
<1>12. State(m)' = d /\ d # None
  BY <1>7, <1>9, AgentAssumption DEF State
<1>13. Heard(State(m))'
  <2>1. CASE d.resolver = State(m).resolver
    <3>1. d.resolver \in Messages \cup {None}
      BY <1>7 DEF DocumentType
    <3> QED
      BY <1>4, <1>11, <1>12, <2>1, <3>1 DEF Heard, HeardStay
  <2>2. CASE mem[m].candidate # None /\ d.resolver = m
    <3>1. HasResolved(m)'
      BY <1>9, <2>2 DEF HasResolved
    <3> QED
      BY <1>12, <2>2, <3>1 DEF Heard
  <2> QED
    BY <1>7, <2>1, <2>2
<1>14. pc'[m] = "details" =>
         /\ mem[m].candidate = None
         /\ \A f \in {"name", "phone", "address"} : d[f] # None \/ mem[m].customer[f] # None
  BY <1>4, <1>10 DEF Finalizable, Missing, Slots
<1>15. Begun(m)'
  <2>1. Decides(State(m), orders)'
    BY <1>1, <1>7, <1>12 DEF Decides
  <2>2. pc'[m] \notin Closing \cup {"openState", "findOpenOrder"}
    BY <1>10 DEF Closing, Placing
  <2>3. pc'[m] \in Finalizing => pc'[m] = "details"
    BY <1>10 DEF Finalizing
  <2> QED
    BY <1>1, <1>3, <1>4, <1>9, <1>12, <1>13, <1>14, <2>1, <2>2, <2>3 DEF Begun
<1>16. Ready(m)'
  <2>1. SUFFICES ASSUME pc'[m] = "details"
                 PROVE  Whole(m)'
    BY <1>10 DEF Ready, Finalizing
  <2>2. IsDraft(d)
    BY <1>7 DEF IsDraft, DocumentType, Details
  <2>3. mem[m].customer \in CustomerType
    BY <1>3 DEF MemoryType
  <2>4. mem[m].customer.name # None => customer.name # None
    BY <1>3 DEF Begun, Details
  <2> QED
    BY <1>1, <1>9, <1>12, <1>14, <2>1, <2>2, <2>3, <2>4 DEF Whole
<1>17. Turn(m)'
  <2>1. pc'[m] \notin Closing
    BY <1>10 DEF Closing, Placing
  <2> QED
    BY <1>15, <1>16, <2>1 DEF Turn
<1>18. overlapped' \in BOOLEAN
  BY <1>1 DEF IInv, TypeOK
<1>19. tries'[m] < MaxAttempts
  BY <1>1, <1>3
<1> QED
  BY <1>1, <1>9, <1>10, <1>11, <1>17, <1>18, <1>19, BoundsSame, QuietStep DEF Resting

----------------------------------------------------------------------------
(* What is written back. *)

LEMMA PersistedKeeps ==
  ASSUME doc \in DocumentType, NEW m, State(m) \in DocumentType
  PROVE  /\ Persisted(m) \in DocumentType
         /\ Persisted(m).id = doc.id
         /\ \A s \in Slots : Persisted(m)[s] = State(m)[s]
         /\ Persisted(m).pending = Given(State(m).pending, doc.pending)
         /\ Persisted(m).decision = Given(State(m).decision, doc.decision)
         /\ Persisted(m).resolver = Given(State(m).resolver, doc.resolver)
<1> DEFINE d == State(m)
           pending == Given(d.pending, doc.pending)
           decision == Given(d.decision, doc.decision)
           resolver == Given(d.resolver, doc.resolver)
           p == Persisted(m)
<1>1. p = [doc EXCEPT !.name = d.name, !.phone = d.phone, !.product = d.product,
                      !.quantity = d.quantity, !.address = d.address, !.email = d.email,
                      !.pending = pending, !.decision = decision, !.resolver = resolver]
  BY DEF Persisted
<1>2. pending \in Nat \cup {None} /\ decision \in {None, "keep", "replace"}
      /\ resolver \in Messages \cup {None}
  BY DEF DocumentType, Given
<1> HIDE DEF p, pending, decision, resolver, d
<1>3. d \in DocumentType
  BY DEF d
<1>4. /\ p.id = doc.id /\ p.name = d.name /\ p.phone = d.phone /\ p.product = d.product
      /\ p.quantity = d.quantity /\ p.address = d.address /\ p.email = d.email
      /\ p.pending = pending /\ p.decision = decision /\ p.resolver = resolver
      /\ p.history = doc.history
  BY <1>1 DEF DocumentType
<1>5. p \in DocumentType
  BY <1>1, <1>2, <1>3 DEF DocumentType
<1>6. \A s \in Slots : p[s] = d[s]
  BY <1>4 DEF Slots
<1> QED
  BY <1>4, <1>5, <1>6 DEF p, pending, decision, resolver, d

(* A decision on record stays there, and comes with its pending order.     *)
LEMMA PersistHolds ==
  ASSUME IInv, NEW m \in Messages, PersistState(m)
  PROVE  IInv'
<1> DEFINE n == mem[m].round + 1
           x == [mem[m] EXCEPT !.round = n]
<1>1. /\ pc[m] = "persist" /\ UNCHANGED documents /\ tries' = tries /\ UNCHANGED bounds
      /\ overlapped' = overlapped /\ opened' = opened /\ orders' = orders /\ customer' = customer
      /\ doc' = IF doc = None THEN None ELSE Persisted(m)
      /\ mem' = [mem EXCEPT ![m] = x]
      /\ Go(m, IF mem'[m].round < MaxIterations THEN "ask" ELSE "history")
  BY DEF PersistState, documents
<1>2. mem[m] \in MemoryType /\ mem[m] # None /\ Begun(m) /\ tries[m] < MaxAttempts
  BY <1>1, Begins DEF Resting
<1>3. /\ State(m) \in DocumentType /\ Decides(State(m), orders) /\ Heard(State(m))
      /\ mem[m].round < MaxIterations /\ mem[m].round \in 0..MaxIterations
  BY <1>1, <1>2 DEF Begun, Loaded, Resting, MemoryType, State
<1>4. n \in 0..MaxIterations
  BY <1>3, AgentAssumption
<1> HIDE DEF n
<1>5. /\ x \in MemoryType /\ x.state = mem[m].state /\ x.customer = mem[m].customer
      /\ x.candidate = mem[m].candidate /\ x.decided = mem[m].decided /\ x.round = n
  BY <1>2, <1>4 DEF MemoryType
<1>6. x # None
  BY <1>5, AgentAssumption
<1> HIDE DEF x
<1>7. /\ Attempting(Place, MemoryType)' /\ OthersStay(m) /\ mem'[m] = x
      /\ pc'[m] = IF n < MaxIterations THEN "ask" ELSE "history"
  <2>1. "ask" \in Place /\ "history" \in Place
    BY DEF Place
  <2>2. mem'[m] = x /\ mem' \in [Messages -> MemoryType \cup {None}]
        /\ \A k \in Messages \ {m} : mem'[k] = mem[k]
    BY <1>1, <1>5, Typed DEF IInv, Attempting
  <2> QED
    BY <1>1, <1>5, <2>1, <2>2, Typed DEF IInv, Attempting, Go, OthersStay
<1>8. HeardStay
  BY <1>1, <1>2, <1>5, <1>6, <1>7, BoundsSame, HeardKept
<1>9. State(m)' = State(m) /\ Decides(State(m), orders') /\ Heard(State(m))'
  <2>1. State(m)' = State(m) /\ Decides(State(m), orders')
    BY <1>1, <1>3, <1>5, <1>7 DEF State
  <2>2. State(m).resolver \in Messages \cup {None}
    BY <1>3 DEF DocumentType
  <2> QED
    BY <1>3, <1>8, <2>1, <2>2 DEF Heard, HeardStay
<1>10. Turn(m)'
  <2>1. pc'[m] \in {"ask", "history"} /\ pc'[m] \notin Finalizing \cup Closing
    BY <1>7 DEF Finalizing, Closing, Placing
  <2>2. pc'[m] = "ask" => n < MaxIterations
    BY <1>7
  <2>3. State(m)' # None /\ Decides(State(m), orders)'
    BY <1>3, <1>9, AgentAssumption DEF Decides
  <2>4. Begun(m)'
    BY <1>1, <1>2, <1>5, <1>7, <1>9, <2>1, <2>2, <2>3 DEF Begun
  <2> QED
    BY <2>1, <2>4 DEF Turn, Ready
<1>11. doc' \in DocumentType \cup {None} /\ (doc' # None => Decides(doc, orders)' /\ Heard(doc)')
  <2>1. CASE doc = None
    BY <1>1, <2>1
  <2>2. CASE doc # None
    <3> DEFINE p == Persisted(m)
    <3>1. doc \in DocumentType /\ Decides(doc, orders) /\ Heard(doc) /\ doc' = p
      BY <1>1, <2>2 DEF IInv, TypeOK
    <3>2. /\ p \in DocumentType
          /\ p.pending = Given(State(m).pending, doc.pending)
          /\ p.decision = Given(State(m).decision, doc.decision)
          /\ p.resolver = Given(State(m).resolver, doc.resolver)
      BY <1>3, <3>1, PersistedKeeps
    <3> HIDE DEF p
    <3>3. Decides(doc, orders)'
      BY <1>1, <1>3, <3>1, <3>2 DEF Decides, Given
    <3>4. /\ State(m).resolver # None => HasResolved(State(m).resolver)
          /\ doc.resolver # None => HasResolved(doc.resolver)
      BY <1>3, <3>1 DEF Heard
    <3>5. State(m).resolver \in Messages \cup {None} /\ doc.resolver \in Messages \cup {None}
      BY <1>3, <3>1 DEF DocumentType
    <3>6. Heard(doc)'
      BY <1>8, <3>1, <3>2, <3>4, <3>5 DEF Heard, HeardStay, Given
    <3> QED
      BY <3>1, <3>2, <3>3, <3>6
  <2> QED
    BY <2>1, <2>2
<1>12. OrdersKept /\ CustomerKept /\ FinalizerTypeOK' /\ OrdersAreComplete'
  BY <1>1, <1>7, BoundsSame, SameDocuments DEF Attempting
<1>13. overlapped' \in BOOLEAN /\ opened' \in Nat /\ tries'[m] < MaxAttempts
  BY <1>1, <1>2 DEF IInv, TypeOK
<1>14. mem'[m] = None <=> pc'[m] \in Resting \cup {"insertCustomer", "readCustomer"}
  BY <1>6, <1>7 DEF Resting
<1> QED
  BY <1>7, <1>8, <1>10, <1>11, <1>12, <1>13, <1>14, StepHolds DEF DocumentsKept

(* The history is no part of what is required of a conversation. *)
LEMMA RememberedKeeps ==
  ASSUME IInv, NEW m \in Messages, State(m) \in DocumentType
  PROVE  /\ Remembered(m) \in DocumentType \cup {None}
         /\ Remembered(m) # None <=> doc # None
         /\ doc # None =>
              \A f \in Slots \cup {"id", "pending", "decision", "resolver"} :
                Remembered(m)[f] = doc[f]
<1>1. CASE doc = None
  BY <1>1 DEF Remembered
<1>2. CASE doc # None
  <2> DEFINE h == Append(State(m).history, m)
             r == [doc EXCEPT !.history = h]
  <2>1. doc \in DocumentType /\ h \in Seq(Messages) /\ Remembered(m) = r
    BY <1>2 DEF IInv, TypeOK, DocumentType, Remembered
  <2> HIDE DEF h
  <2>2. /\ r \in DocumentType
        /\ \A f \in Slots \cup {"id", "pending", "decision", "resolver"} : r[f] = doc[f]
    BY <2>1 DEF DocumentType, Slots
  <2> HIDE DEF r
  <2> QED
    BY <1>2, <2>1, <2>2, AgentAssumption
<1> QED
  BY <1>1, <1>2

(* What it writes. *)
LEMMA HistoryWrites ==
  ASSUME IInv, NEW m \in Messages, State(m) \in DocumentType, doc' = Remembered(m),
         orders' = orders, HeardStay
  PROVE  doc' \in DocumentType \cup {None} /\ (doc' # None => Decides(doc, orders)' /\ Heard(doc)')
<1> DEFINE r == Remembered(m)
<1>1. /\ r \in DocumentType \cup {None}
      /\ r # None => doc # None /\ r.pending = doc.pending /\ r.decision = doc.decision
                     /\ r.resolver = doc.resolver
  BY RememberedKeeps
<1>2. doc' = r
  OBVIOUS
<1> HIDE DEF r
<1>3. SUFFICES ASSUME r # None
               PROVE  Decides(doc, orders)' /\ Heard(doc)'
  BY <1>1, <1>2
<1>4. Decides(doc, orders) /\ Heard(doc) /\ doc.resolver \in Messages \cup {None}
  BY <1>1, <1>3 DEF IInv, TypeOK, DocumentType
<1> QED
  BY <1>1, <1>2, <1>3, <1>4 DEF Decides, Heard, HeardStay

(* A turn ends. *)
LEMMA EndHolds ==
  ASSUME IInv, NEW m \in Messages, AppendHistory(m) \/ DeleteState(m)
  PROVE  IInv'
<1>1. /\ pc[m] \in {"history", "close"} /\ UNCHANGED documents /\ Finish(m) /\ UNCHANGED bounds
      /\ overlapped' = overlapped /\ opened' = opened /\ orders' = orders
      /\ doc' = Remembered(m) \/ doc' = None
  BY DEF AppendHistory, DeleteState, documents
<1>2. /\ Attempting(Place, MemoryType)' /\ Ends(m) /\ pc'[m] = "settle" /\ tries' = tries
      /\ tries'[m] < MaxAttempts
  BY <1>1, Typed, FinishStep DEF IInv, Budget
<1>3. HeardStay
  BY <1>1, <1>2, BoundsSame, HeardKept DEF Ends
<1>4. State(m) \in DocumentType
  BY <1>1, Begins DEF Begun, Loaded, Resting, MemoryType, State
<1>5. doc' \in DocumentType \cup {None} /\ (doc' # None => Decides(doc, orders)' /\ Heard(doc)')
  BY <1>1, <1>3, <1>4, HistoryWrites
<1>6. OrdersKept /\ CustomerKept /\ FinalizerTypeOK' /\ OrdersAreComplete'
  BY <1>1, <1>2, BoundsSame, SameDocuments DEF Attempting
<1>7. overlapped' \in BOOLEAN /\ opened' \in Nat
  BY <1>1 DEF IInv, TypeOK
<1> QED
  BY <1>2, <1>3, <1>5, <1>6, <1>7, RestTurn, StepHolds DEF DocumentsKept, Ends

LEMMA CloseHolds ==
  ASSUME IInv, NEW m \in Messages, CloseHistory(m)
  PROVE  IInv'
<1>1. /\ pc[m] = "finalized" /\ UNCHANGED documents /\ mem' = mem /\ tries' = tries
      /\ UNCHANGED bounds /\ overlapped' = overlapped /\ opened' = opened /\ orders' = orders
      /\ customer' = customer /\ doc' = Remembered(m) /\ Go(m, "close")
  BY DEF CloseHistory, documents
<1>2. mem[m] \in MemoryType /\ mem[m] # None /\ Begun(m) /\ Turn(m) /\ tries[m] < MaxAttempts
  BY <1>1, Begins DEF Resting
<1>3. /\ Attempting(Place, MemoryType)' /\ OthersStay(m) /\ pc'[m] = "close" /\ mem'[m] = mem[m]
  <2>1. "close" \in Place
    BY DEF Place
  <2> QED
    BY <1>1, <2>1, Typed, GoesOn DEF IInv
<1>4. HeardStay
  BY <1>1, <1>3, BoundsSame, HeardKept
<1>5. /\ State(m) \in DocumentType /\ State(m) # None /\ Decides(State(m), orders)
      /\ Heard(State(m)) /\ mem[m].candidate = None /\ Placed(State(m).id)
  BY <1>1, <1>2 DEF Begun, Loaded, Resting, MemoryType, State, Turn, Closing, Placing
<1>6. doc' \in DocumentType \cup {None} /\ (doc' # None => Decides(doc, orders)' /\ Heard(doc)')
  BY <1>1, <1>4, <1>5, HistoryWrites
<1>7. Turn(m)'
  <2>1. State(m)' = State(m) /\ Decides(State(m), orders)' /\ Placed(State(m).id)'
    BY <1>1, <1>5 DEF State, Decides, Placed
  <2>2. State(m).resolver \in Messages \cup {None}
    BY <1>5 DEF DocumentType
  <2>3. Heard(State(m))'
    BY <1>4, <1>5, <2>1, <2>2 DEF Heard, HeardStay
  <2>4. Begun(m)'
    BY <1>1, <1>2, <1>3, <1>5, <2>1, <2>3 DEF Begun
  <2> QED
    BY <1>3, <2>1, <2>4 DEF Turn, Ready, Finalizing
<1>8. OrdersKept /\ CustomerKept /\ FinalizerTypeOK' /\ OrdersAreComplete'
  BY <1>1, <1>3, BoundsSame, SameDocuments DEF Attempting
<1>9. overlapped' \in BOOLEAN /\ opened' \in Nat /\ tries'[m] < MaxAttempts /\ mem'[m] # None
  BY <1>1, <1>2 DEF IInv, TypeOK
<1> QED
  BY <1>3, <1>4, <1>6, <1>7, <1>8, <1>9, StepHolds DEF DocumentsKept, Resting

----------------------------------------------------------------------------
(* finalizeOrder, and what goes wrong. *)

LEMMA FinalizerHolds ==
  ASSUME IInv, NEW m \in Messages, FinalizerStep(m), UNCHANGED <<conversation, overlapped>>
  PROVE  IInv'
<1>1. /\ Attempting(Place, MemoryType) /\ FinalizerTypeOK /\ Resting \subseteq Place
      /\ Resting \cup Finalizing \cup {"finalized"} \subseteq Place
  BY Typed DEF IInv
<1>2. \A n \in Messages : Ready(n)
  BY DEF IInv, Turn
<1>3. pc[m] \in Finalizing
  BY DEF FinalizerStep, UpdateCustomerDetails, CancelRead, CancelSave, CancelLog,
         CreateOrder, IncrementOrderCount, Notify, Finalizing
<1>4. tries[m] < MaxAttempts /\ mem[m] # None /\ Begun(m) /\ Turn(m) /\ Whole(m)
      /\ State(m) \in DocumentType /\ Loaded(m)
  BY <1>2, <1>3, Begins DEF Finalizing, Resting, Ready, Begun, Loaded, MemoryType, State
<1>5. FinalizerTypeOK' /\ OrdersAreComplete' /\ Ready(m)'
  BY <1>1, <1>2, <1>4, FinalizerSound DEF IInv
<1>6. /\ Attempting(Place, MemoryType)'
      /\ \/ pc[m] = "create" /\ ~OrderValidates(NewOrder(m)) /\ Reject(m)
         \/ /\ pc'[m] \in After(pc[m]) /\ mem' = mem /\ tries' = tries
            /\ OthersStay(m) /\ (pc[m] = "create" => OrderValidates(NewOrder(m)))
  BY <1>1, <1>4, FinalizerGoes
<1>7. /\ UNCHANGED bounds /\ OrdersKept /\ CustomerKept
      /\ \/ orders' = orders
         \/ /\ OrderValidates(NewOrder(m)) /\ NewOrder(m) \in OrderType
            /\ orders' = Append(orders, NewOrder(m))
         \/ pc[m] = "cancelSave"
      /\ pc[m] = "create" /\ OrderValidates(NewOrder(m)) =>
            NewOrder(m) \in OrderType /\ orders' = Append(orders, NewOrder(m))
  BY <1>1, <1>2, FinalizerWrites
<1>8. crashes' = crashes /\ UNCHANGED conversation /\ overlapped' \in BOOLEAN
  BY <1>7, BoundsSame DEF IInv, TypeOK
<1>9. CASE pc[m] = "create" /\ ~OrderValidates(NewOrder(m)) /\ Reject(m)
  <2>1. Ends(m) /\ (pc'[m] = "queued" => tries'[m] < MaxAttempts) /\ tries'[m] = tries[m] + 1
        /\ pc'[m] \in {"queued", "failed"}
    BY <1>1, <1>4, <1>9, RejectStep
  <2>2. tries'[m] > 0
    BY <2>1, Typed DEF IInv
  <2>3. HeardStay
    BY <1>8, <1>9, <2>1, <2>2, HeardKept DEF Ends
  <2>4. /\ doc' \in DocumentType \cup {None} /\ opened' \in Nat /\ overlapped' \in BOOLEAN
        /\ doc' # None => Decides(doc, orders)' /\ Heard(doc)'
    BY <1>7, <1>8, <2>3, SameConversation
  <2> QED
    BY <1>5, <1>6, <1>7, <2>1, <2>3, <2>4, RestTurn, StepHolds DEF DocumentsKept, Ends
<1>10. CASE /\ pc'[m] \in After(pc[m]) /\ mem' = mem /\ tries' = tries
            /\ OthersStay(m) /\ (pc[m] = "create" => OrderValidates(NewOrder(m)))
  <2>1. /\ pc'[m] \in Finalizing \cup {"finalized"} /\ Loaded(m)'
        /\ pc'[m] \notin Resting \cup {"insertCustomer", "readCustomer", "openState",
                                      "findOpenOrder", "ask", "persist", "close"}
        /\ pc'[m] \in Closing => pc[m] \in Closing \cup {"create"}
    BY <1>3, <1>10 DEF After, Finalizing, Placing, Closing, Loaded, Resting
  <2>2. HeardStay
    BY <1>3, <1>8, <1>10, HeardKept DEF Finalizing
  <2>3. /\ doc' \in DocumentType \cup {None} /\ opened' \in Nat /\ overlapped' \in BOOLEAN
        /\ doc' # None => Decides(doc, orders)' /\ Heard(doc)'
    BY <1>7, <1>8, <2>2, SameConversation
  <2>4. State(m)' = State(m) /\ State(m) # None /\ Heard(State(m)) /\ Decides(State(m), orders)
        /\ State(m).resolver \in Messages \cup {None} /\ mem[m].candidate = None
    BY <1>3, <1>4, <1>10 DEF State, Begun, DocumentType
  <2>5. Decides(State(m), orders') /\ Heard(State(m))'
    BY <1>7, <2>2, <2>4, DecidesKept DEF Heard, HeardStay
  <2>6. Begun(m)'
    <3>1. \A f \in Details : mem[m].customer[f] # None => customer'[f] # None
      BY <1>4, <1>7 DEF Begun, CustomerKept
    <3> QED
      BY <1>10, <2>1, <2>4, <2>5, <3>1 DEF Begun
  <2>7. pc'[m] \in Closing => Placed(State(m).id)'
    <3>1. CASE pc[m] \in Closing
      BY <1>4, <1>7, <2>4, <3>1 DEF Turn, Placed, OrdersKept, Lasting
    <3>2. CASE pc[m] = "create"
      <4>1. orders' = Append(orders, NewOrder(m)) /\ OrderValidates(NewOrder(m))
            /\ NewOrder(m) \in OrderType
        BY <1>7, <1>10, <3>2
      <4>2. NewOrder(m).conversation = State(m).id
        BY <1>4, <4>1, NewOrderType
      <4>3. Len(orders') = Len(orders) + 1 /\ orders'[Len(orders) + 1] = NewOrder(m)
            /\ Len(orders) + 1 \in 1..Len(orders')
        BY <4>1, Typed DEF IInv
      <4> QED
        BY <2>4, <4>2, <4>3 DEF Placed
    <3> QED
      BY <2>1, <3>1, <3>2
  <2>8. Turn(m)'
    BY <1>5, <2>6, <2>7 DEF Turn
  <2>9. mem'[m] # None /\ tries'[m] < MaxAttempts
    BY <1>4, <1>10
  <2> QED
    BY <1>5, <1>6, <1>7, <1>10, <2>1, <2>2, <2>3, <2>8, <2>9, StepHolds DEF DocumentsKept
<1> QED
  BY <1>6, <1>9, <1>10

LEMMA FaultHolds ==
  ASSUME IInv, NEW m \in Messages, CallFails(m), UNCHANGED <<conversation, overlapped>>
  PROVE  IInv'
<1>1. /\ m \in Busy /\ faults < MaxFaults /\ faults' = faults + 1 /\ Reject(m)
      /\ UNCHANGED documents /\ updates' = updates /\ crashes' = crashes
  BY DEF CallFails, Fault
<1>2. pc[m] \notin {"done", "failed"} /\ tries[m] < MaxAttempts
  BY <1>1 DEF Busy, IInv, Budget
<1>3. updates' \in 0..MaxUpdates /\ faults' \in 0..MaxFaults
  BY <1>1, FinalizerAssumption DEF IInv, TypeOK, FinalizerTypeOK
<1> QED
  BY <1>1, <1>2, <1>3, RejectHolds

(* The end of a job is not the conversation's. *)
LEMMA SettleHolds ==
  ASSUME IInv, NEW m \in Messages, Settle(m), UNCHANGED <<conversation, overlapped>>
  PROVE  IInv'
<1>1. /\ Attempting(Place, MemoryType)' /\ pc[m] = "settle" /\ pc'[m] = "done"
      /\ \A n \in Messages \ {m} : pc'[n] = pc[n]
      /\ mem' = mem /\ tries' = tries /\ UNCHANGED documents /\ UNCHANGED bounds
  BY Typed, SettleStep DEF IInv
<1>2. OthersStay(m) /\ mem[m] = None /\ overlapped' \in BOOLEAN
  BY <1>1 DEF OthersStay, IInv, TypeOK, Resting
<1>3. HeardStay
  BY <1>1, <1>2, BoundsSame, HeardKept
<1> QED
  BY <1>1, <1>2, <1>3, BoundsSame, RestTurn, QuietStep DEF Resting

LEMMA CrashHolds ==
  ASSUME IInv, Crash, UNCHANGED <<conversation, overlapped>>
  PROVE  IInv'
<1>1. /\ Attempting(Place, MemoryType)'
      /\ \A n \in Messages :
           /\ mem'[n] = None
           /\ pc'[n] = IF n \in Busy THEN "queued" ELSE pc[n]
  BY Typed, CrashStep DEF IInv
<1>2. /\ UNCHANGED documents /\ tries' = tries /\ updates' = updates /\ faults' = faults
      /\ crashes' = crashes + 1 /\ crashes < MaxCrashes
  BY DEF Crash
<1>3. updates' \in 0..MaxUpdates /\ faults' \in 0..MaxFaults /\ crashes' \in 0..MaxCrashes
      /\ crashes' > 0
  BY <1>2, FinalizerAssumption DEF IInv, TypeOK, FinalizerTypeOK
<1>4. HeardStay
  BY <1>3 DEF HeardStay, HasResolved
<1>5. OrdersKept /\ CustomerKept /\ FinalizerTypeOK' /\ OrdersAreComplete'
  BY <1>1, <1>2, <1>3, SameDocuments DEF Attempting
<1>6. overlapped' \in BOOLEAN
  BY DEF IInv, TypeOK
<1>7. /\ doc' \in DocumentType \cup {None} /\ opened' \in Nat
      /\ doc' # None => Decides(doc, orders)' /\ Heard(doc)'
  BY <1>4, <1>5, <1>6, SameConversation
<1>8. \A n \in Messages : pc'[n] \in Resting
  BY <1>1 DEF Busy, Resting
<1>9. \A n \in Messages : Turn(n)'
  BY <1>1, <1>8, RestTurn
<1>10. TypeOK'
  BY <1>1, <1>5, <1>6, <1>7, <1>8 DEF TypeOK, Attempting
<1>11. Budget'
  BY <1>1, <1>2 DEF IInv, Budget, Busy
<1> QED
  BY <1>5, <1>7, <1>9, <1>10, <1>11 DEF IInv

LEMMA StaffHolds ==
  ASSUME IInv, StaffStep, UNCHANGED <<conversation, overlapped>>
  PROVE  IInv'
<1>1. /\ FinalizerTypeOK' /\ OrdersKept /\ CustomerKept /\ Len(orders') = Len(orders)
      /\ customer' = customer /\ pc' = pc /\ mem' = mem /\ tries' = tries /\ crashes' = crashes
  BY StaffWrites DEF IInv, TypeOK, attempts
<1>2. HeardStay
  BY <1>1 DEF HeardStay, HasResolved
<1>3. overlapped' \in BOOLEAN
  BY DEF IInv, TypeOK
<1>4. /\ doc' \in DocumentType \cup {None} /\ opened' \in Nat
      /\ doc' # None => Decides(doc, orders)' /\ Heard(doc)'
  BY <1>1, <1>2, <1>3, SameConversation
<1>5. OrdersAreComplete'
  BY <1>1, CompleteKept DEF IInv, TypeOK
<1>6. \A n \in Messages : Turn(n)'
  BY <1>1, <1>2, TurnKept
<1>7. TypeOK'
  BY <1>1, <1>3, <1>4 DEF IInv, TypeOK
<1>8. Budget'
  BY <1>1 DEF IInv, Budget
<1> QED
  BY <1>4, <1>5, <1>6, <1>7, <1>8 DEF IInv

LEMMA InitHolds ==
  ASSUME Init
  PROVE  IInv
<1> USE FinalizerAssumption
<1>1. /\ pc = [m \in Messages |-> "queued"] /\ mem = [m \in Messages |-> None]
      /\ tries = [m \in Messages |-> 0] /\ updates = 0 /\ faults = 0 /\ crashes = 0
      /\ doc = None /\ opened = 0 /\ overlapped = FALSE
  BY DEF Init, InitFinalizer
<1>2. PICK known \in Acquaintance : Met(known)
  BY DEF Init, InitFinalizer
<1>3. EarlierOrder \in OrderType
  BY DEF EarlierOrder, OrderType, Status, Open
<1>4. /\ customer \in CustomerType /\ orders \in Seq(OrderType)
      /\ \A o \in 1..Len(orders) : orders[o] = EarlierOrder /\ customer.name # None
  <2>1. customer \in CustomerType
    BY <1>2 DEF Met, CustomerType
  <2>2. CASE orders = <<>>
    BY <2>1, <2>2
  <2>3. CASE {"name", "phone", "address"} \subseteq known /\ orders = <<EarlierOrder>>
    <3>1. customer.name = Earlier
      BY <1>2, <2>3 DEF Met
    <3>2. Len(orders) = 1 /\ orders[1] = EarlierOrder
      BY <2>3
    <3> QED
      BY <1>3, <2>1, <2>3, <3>1, <3>2
  <2> QED
    BY <1>2, <2>2, <2>3 DEF Met
<1>5. TypeOK
  <2>1. FinalizerTypeOK
    BY <1>1, <1>4 DEF FinalizerTypeOK
  <2>2. pc \in [Messages -> Place] /\ mem \in [Messages -> MemoryType \cup {None}]
    BY <1>1 DEF Place, Resting
  <2>3. overlapped \in BOOLEAN
    BY <1>1
  <2>4. \A m \in Messages : mem[m] = None /\ pc[m] \in Resting
    BY <1>1 DEF Resting
  <2> QED
    BY <1>1, <2>1, <2>2, <2>3, <2>4 DEF TypeOK
<1>6. Budget
  BY <1>1 DEF Budget
<1>7. OrdersAreComplete
  BY <1>4 DEF OrdersAreComplete, EarlierOrder
<1>8. \A m \in Messages : Turn(m)
  BY <1>1 DEF Turn, Ready, Finalizing, Closing, Placing
<1> QED
  BY <1>1, <1>5, <1>6, <1>7, <1>8 DEF IInv

LEMMA Inductive ==
  ASSUME IInv, [Next]_vars
  PROVE  IInv'
<1>1. CASE UNCHANGED vars
  <2>1. \A n \in Messages : Turn(n)' <=> Turn(n)
    BY <1>1 DEF vars, Turn, Begun, Ready, Loaded, Whole, Placed, State, Decides, Heard, HasResolved
  <2>2. (TypeOK' <=> TypeOK) /\ (Budget' <=> Budget) /\ (OrdersAreComplete' <=> OrdersAreComplete)
    BY <1>1 DEF vars, TypeOK, FinalizerTypeOK, Budget, OrdersAreComplete
  <2>3. doc' # None => Decides(doc, orders)' /\ Heard(doc)'
    BY <1>1 DEF vars, IInv, Decides, Heard, HasResolved
  <2> QED
    BY <2>1, <2>2, <2>3 DEF IInv
<1>2. ASSUME NEW m \in Messages, AgentStep(m)
      PROVE  IInv'
  BY <1>2, FindHolds, InsertHolds, ReadHolds, OpenHolds, CandidateHolds, NoResponseHolds,
     AnswerHolds, CallHolds, PersistHolds, EndHolds, CloseHolds DEF AgentStep
<1>3. ASSUME NEW m \in Messages,
             (FinalizerStep(m) \/ Settle(m) \/ CallFails(m)) /\ UNCHANGED <<conversation, overlapped>>
      PROVE  IInv'
  BY <1>3, FinalizerHolds, SettleHolds, FaultHolds
<1>4. CASE (Crash \/ StaffStep) /\ UNCHANGED <<conversation, overlapped>>
  BY <1>4, CrashHolds, StaffHolds
<1> QED
  BY <1>1, <1>2, <1>3, <1>4 DEF Next

(* The invariant of the agent, at any number of turns at once and with any *)
(* failures: of grokAgentBot.service.ts, grokTools.ts and orderFinalizer.ts. *)
THEOREM Invariance == Spec => []IInv
<1>1. Init => IInv
  BY InitHolds
<1>2. IInv /\ [Next]_vars => IInv'
  BY Inductive
<1> QED
  BY <1>1, <1>2, PTL DEF Spec

(* Every variable of the agent keeps its type, the copy of a turn is whole  *)
(* when it is written back, and the model is asked at most MaxIterations   *)
(* times.                                                                  *)
THEOREM TypeCorrect == Spec => []TypeOK
<1>1. IInv => TypeOK
  BY DEF IInv
<1> QED
  BY <1>1, Invariance, PTL

(* Every order the agent places has a name, a phone and an address to go   *)
(* to, whatever the model calls and when (missingRequiredFields).          *)
THEOREM Completeness == Spec => []OrdersAreComplete
<1>1. IInv => OrdersAreComplete
  BY DEF IInv
<1> QED
  BY <1>1, Invariance, PTL

(* No order is placed over a pending one but by a decision, and not in the *)
(* turn that took the decision (grokTools.ts:208-241).                     *)
THEOREM Decision == Spec => []DecisionIsTheCustomers
<1>1. IInv => PendingIsDecided
  <2>1. IInv /\ doc # None => (doc.pending = None <=> doc.decision = None)
    BY DEF IInv, Decides
  <2>2. ASSUME IInv, NEW m \in Messages, mem[m] # None, State(m) # None
        PROVE  State(m).pending = None <=> State(m).decision = None
    <3>1. Begun(m) /\ pc[m] \notin Resting \cup {"insertCustomer", "readCustomer"}
      BY <2>2 DEF IInv, Turn, TypeOK
    <3>2. Loaded(m)
      BY <2>2, <3>1 DEF Begun, Loaded, State
    <3> QED
      BY <3>1, <3>2 DEF Begun, Decides
  <2> QED
    BY <2>1, <2>2 DEF PendingIsDecided
<1>2. IInv => DecisionHadARoundTrip
  <2>1. SUFFICES ASSUME IInv, NEW m \in Messages, pc[m] = "details", tries[m] = 0, crashes = 0
                 PROVE  State(m).resolver # m
    BY DEF DecisionHadARoundTrip
  <2>2. Begun(m) /\ Loaded(m) /\ m # None
    BY <2>1, Begins, FinalizerAssumption DEF Loaded, Resting
  <2>3. mem[m].candidate = None /\ Heard(State(m))
    BY <2>1, <2>2 DEF Begun, Finalizing
  <2>4. ~HasResolved(m)
    BY <2>1, <2>3 DEF HasResolved
  <2> QED
    BY <2>2, <2>3, <2>4 DEF Heard
<1>3. IInv => DecisionIsTheCustomers
  BY <1>1, <1>2 DEF DecisionIsTheCustomers
<1> QED
  BY <1>3, Invariance, PTL

----------------------------------------------------------------------------
(* Turns that do not overlap. *)

LEMMA RestAlone ==
  ASSUME NEW n, pc'[n] \in Resting \cup {"insertCustomer", "readCustomer", "openState"}
  PROVE  AloneAt(n)'
<1>1. /\ ~Loaded(n)'
      /\ pc'[n] \notin {"ask", "persist", "details", "cancelRead", "cancelSave", "cancelLog",
                        "create"}
  BY DEF Loaded, Resting
<1> QED
  BY <1>1 DEF AloneAt

LEMMA OthersRest ==
  ASSUME NEW m \in Messages, OthersStay(m), \A n \in Running : n = m
  PROVE  /\ \A n \in Messages \ {m} :
              pc[n] \in Resting /\ pc'[n] \in Resting /\ AloneAt(n)'
         /\ \A n \in Running' : n = m
<1>1. \A n \in Messages \ {m} : pc[n] \in Resting /\ pc'[n] \in Resting
  BY DEF OthersStay, Running
<1> QED
  BY <1>1, RestAlone DEF Running

(* A step of the only turn that leaves the orders alone: the conversation  *)
(* stays the one it is, or has its order.                                  *)
LEMMA TurnAlone ==
  ASSUME IInv, Alone, ~overlapped, NEW m \in Messages, OthersStay(m),
         \A n \in Running : n = m, orders' = orders, UNCHANGED bounds,
         pc[m] \in Closing => pc'[m] \in Closing \/ doc' = None,
         doc # None => (doc' # None /\ doc'.id = doc.id) \/ Placed(doc.id),
         Calm /\ doc' # None /\ doc'.pending # None =>
           \/ orders[doc'.pending].status \in Open
           \/ doc # None /\ doc'.pending = doc.pending,
         AloneAt(m)'
  PROVE  Alone'
<1>1. updates' = updates /\ faults' = faults /\ crashes' = crashes
  BY DEF bounds
<1>2. /\ \A n \in Messages \ {m} : pc[n] \in Resting /\ pc'[n] \in Resting /\ AloneAt(n)'
      /\ \A n \in Running' : n = m
  BY OthersRest
<1>3. CancelledIsCovered'
  <2>1. CancelledIsCovered
    BY DEF Alone
  <2> QED
    BY <2>1 DEF CancelledIsCovered, Placed
<1>4. Room'
  <2>1. (\A n \in Messages : pc'[n] \notin Closing) =>
          doc' = None \/ \A n \in Messages : pc[n] \notin Closing
    BY <1>2 DEF Resting, Closing, Placing
  <2>2. OpenOrdersAccounted' <=> OpenOrdersAccounted
    BY <1>1 DEF OpenOrdersAccounted
  <2> QED
    BY <1>1, <2>1, <2>2, OpenSame DEF Alone, Room, Calm
<1> QED
  BY <1>2, <1>3, <1>4 DEF Alone

(* A call fails; if the order was placed, that is one fault more. *)
LEMMA RejectAlone ==
  ASSUME IInv, Alone, ~overlapped, NEW m \in Messages, m \in Running, Reject(m),
         tries[m] < MaxAttempts, orders' = orders, doc' = doc, overlapped' = overlapped,
         updates' = updates, crashes' = crashes,
         faults' \in {faults, faults + 1}, pc[m] \in Closing => faults' = faults + 1
  PROVE  Alone'
<1>1. Ends(m) /\ OthersStay(m)
  BY Typed, RejectStep DEF IInv, Ends
<1>2. \A n \in Running : n = m
  BY DEF Alone
<1>3. /\ \A n \in Messages \ {m} : pc[n] \in Resting /\ pc'[n] \in Resting /\ AloneAt(n)'
      /\ \A n \in Running' : n = m
      /\ AloneAt(m)'
  BY <1>1, <1>2, OthersRest, RestAlone DEF Ends
<1>4. CancelledIsCovered'
  <2>1. CancelledIsCovered
    BY DEF Alone
  <2> QED
    BY <2>1 DEF CancelledIsCovered
<1>5. Room'
  <2>1. SUFFICES ASSUME Calm
                 PROVE  Room'
    BY DEF Room, Calm
  <2>2. Cardinality(OpenOrders) \in Nat /\ Cardinality(KeptOrders) \in Nat /\ faults \in Nat
    BY OpenFinite DEF IInv, TypeOK, FinalizerTypeOK
  <2>3. Cardinality(OpenOrders) <= 1 + Cardinality(KeptOrders) + faults
    BY <2>1, Accounted DEF Alone, Room
  <2>4. OpenOrders' = OpenOrders /\ KeptOrders' = KeptOrders
    BY OpenSame
  <2>5. OpenOrdersAccounted' <=>
          Cardinality(OpenOrders') <= 1 + Cardinality(KeptOrders') + faults'
    BY DEF OpenOrdersAccounted, OpenOrders, KeptOrders
  <2>6. OpenOrdersAccounted'
    BY <2>2, <2>3, <2>4, <2>5
  <2>7. CASE pc[m] \in Closing
    BY <2>2, <2>3, <2>4, <2>6, <2>7 DEF Room
  <2>8. CASE pc[m] \notin Closing
    <3>1. \A n \in Messages : pc[n] \notin Closing
      BY <1>3, <2>8 DEF Resting, Closing, Placing
    <3> QED
      BY <2>1, <2>2, <2>4, <2>6, <3>1 DEF Alone, Room
  <2> QED
    BY <2>7, <2>8
<1> QED
  BY <1>3, <1>4, <1>5 DEF Alone

(* Nor does the end of a job, or its failure, concern the turn that runs.  *)
LEMMA AsideAlone ==
  ASSUME IInv, Alone, ~overlapped, NEW m \in Messages, pc[m] = "settle", pc'[m] \in Resting,
         \A n \in Messages \ {m} : pc'[n] = pc[n] /\ mem'[n] = mem[n],
         orders' = orders, doc' = doc, updates' = updates, crashes' = crashes,
         faults' \in {faults, faults + 1}
  PROVE  Alone'
<1>1. /\ Running' = Running
      /\ \A n \in Messages : pc'[n] \in Closing <=> pc[n] \in Closing
  BY DEF Running, Resting, Closing, Placing
<1>2. ASSUME NEW n \in Messages
      PROVE  AloneAt(n)'
  <2>1. CASE n = m
    BY <2>1, RestAlone
  <2>2. CASE n # m
    <3>1. /\ State(n)' = State(n) /\ (Loaded(n)' <=> Loaded(n))
          /\ (Replaces(n)' <=> Replaces(n)) /\ (Calm' <=> Calm) /\ OpenOrders' = OpenOrders
      BY <2>2, OpenSame DEF State, Loaded, Replaces, Calm
    <3> QED
      BY <2>2, <3>1 DEF Alone, AloneAt
  <2> QED
    BY <2>1, <2>2
<1>3. CancelledIsCovered'
  <2>1. CancelledIsCovered
    BY DEF Alone
  <2> QED
    BY <2>1 DEF CancelledIsCovered
<1>4. Room'
  <2>1. SUFFICES ASSUME Calm
                 PROVE  Room'
    BY DEF Room, Calm
  <2>2. Cardinality(OpenOrders) \in Nat /\ Cardinality(KeptOrders) \in Nat /\ faults \in Nat
    BY OpenFinite DEF IInv, TypeOK, FinalizerTypeOK
  <2>3. Cardinality(OpenOrders) <= 1 + Cardinality(KeptOrders) + faults
    BY <2>1, Accounted DEF Alone, Room
  <2>4. OpenOrders' = OpenOrders /\ KeptOrders' = KeptOrders
    BY OpenSame
  <2>5. OpenOrdersAccounted' <=>
          Cardinality(OpenOrders') <= 1 + Cardinality(KeptOrders') + faults'
    BY DEF OpenOrdersAccounted, OpenOrders, KeptOrders
  <2>6. OpenOrdersAccounted'
    BY <2>2, <2>3, <2>4, <2>5
  <2> QED
    BY <1>1, <2>1, <2>2, <2>4, <2>6 DEF Alone, Room
<1> QED
  BY <1>1, <1>2, <1>3, <1>4 DEF Alone

(* Before the copy is taken. *)
LEMMA EarlyAlone ==
  ASSUME IInv, Alone, NEW m \in Messages,
         FindCustomer(m) \/ InsertCustomer(m) \/ ReadCustomer(m), ~overlapped'
  PROVE  Alone'
<1>1. /\ ~overlapped /\ orders' = orders /\ UNCHANGED bounds /\ doc' = doc
      /\ pc[m] \in {"queued", "insertCustomer", "readCustomer"}
  <2>1. FindCustomer(m) => overlapped' = (overlapped \/ Running # {})
    BY DEF FindCustomer
  <2>2. InsertCustomer(m) \/ ReadCustomer(m) => overlapped' = overlapped
    BY DEF InsertCustomer, ReadCustomer
  <2>3. ~overlapped
    BY <2>1, <2>2, Zenon
  <2> QED
    BY <2>3 DEF FindCustomer, InsertCustomer, AddCustomer, ReadCustomer, documents, conversation
<1>2. tries[m] < MaxAttempts /\ pc[m] \notin Closing
  BY <1>1 DEF IInv, Budget, Closing, Placing
<1>3. CASE FindCustomer(m)
  <2>1. Running = {} /\ mem' = mem /\ tries' = tries
        /\ (Go(m, "readCustomer") \/ Go(m, "insertCustomer"))
    <3>1. overlapped' = (overlapped \/ Running # {})
      BY <1>3 DEF FindCustomer
    <3>2. Running = {}
      BY <3>1, Zenon
    <3> QED
      BY <1>3, <3>2 DEF FindCustomer
  <2>2. OthersStay(m) /\ pc'[m] \in {"readCustomer", "insertCustomer"}
    BY <2>1, Typed DEF IInv, Attempting, Go, OthersStay
  <2> QED
    BY <1>1, <1>2, <2>1, <2>2, RestAlone, TurnAlone
<1>4. CASE InsertCustomer(m)
  <2>1. m \in Running /\ \A n \in Running : n = m
    BY <1>1, <1>4 DEF InsertCustomer, AddCustomer, Running, Resting, Alone
  <2>2. CASE Reject(m)
    BY <1>1, <1>2, <1>4, <2>1, <2>2, RejectAlone DEF InsertCustomer, bounds
  <2>3. CASE Go(m, "readCustomer") /\ mem' = mem /\ tries' = tries
    <3>1. OthersStay(m) /\ pc'[m] = "readCustomer"
      BY <2>3, Typed DEF IInv, Attempting, Go, OthersStay
    <3> QED
      BY <1>1, <1>2, <2>1, <3>1, RestAlone, TurnAlone
  <2> QED
    BY <1>4, <2>2, <2>3 DEF InsertCustomer, AddCustomer
<1>5. CASE ReadCustomer(m)
  <2>1. m \in Running /\ \A n \in Running : n = m
    BY <1>1, <1>5 DEF ReadCustomer, Running, Resting, Alone
  <2>2. OthersStay(m) /\ pc'[m] = "openState"
    BY <1>5, Typed DEF ReadCustomer, IInv, Attempting, Go, OthersStay
  <2> QED
    BY <1>1, <1>2, <2>1, <2>2, RestAlone, TurnAlone
<1> QED
  BY <1>3, <1>4, <1>5

(* The turn starts from the conversation there is. *)
LEMMA OpenAlone ==
  ASSUME IInv, Alone, NEW m \in Messages, OpenState(m), ~overlapped
  PROVE  Alone'
<1>1. /\ pc[m] = "openState" /\ orders' = orders /\ UNCHANGED bounds /\ tries' = tries
      /\ doc' = IF doc = None THEN FreshDocument(opened + 1) ELSE doc
      /\ Opens(m, doc')
      /\ Go(m, IF doc'.pending = None THEN "findOpenOrder" ELSE "ask")
  BY DEF OpenState, documents, Opens
<1>2. doc \in DocumentType \cup {None} /\ opened \in Nat
  BY DEF IInv, TypeOK
<1>3. \E d \in DocumentType : doc' = d
  <2>1. FreshDocument(opened + 1) \in DocumentType
    BY <1>2 DEF FreshDocument, DocumentType
  <2> QED
    BY <1>1, <1>2, <2>1
<1>4. PICK d \in DocumentType : doc' = d
  BY <1>3
<1>5. d # None /\ mem[m] \in MemoryType /\ mem[m].candidate = None
  BY <1>1, Begins, AgentAssumption DEF Begun, Resting
<1>6. mem'[m].state = d /\ mem'[m].candidate = None /\ \A n \in Messages \ {m} : mem'[n] = mem[n]
  BY <1>1, <1>4, <1>5, Typed, OpensCopy DEF IInv
<1>7. OthersStay(m) /\ pc'[m] = IF d.pending = None THEN "findOpenOrder" ELSE "ask"
  BY <1>1, <1>4, <1>6, Typed DEF IInv, Attempting, Go, OthersStay
<1>8. State(m)' = d
  BY <1>6 DEF State
<1>9. AloneAt(m)'
  BY <1>4, <1>5, <1>6, <1>7, <1>8 DEF AloneAt
<1>10. \A n \in Running : n = m
  BY <1>1 DEF Running, Resting, Alone
<1>11. doc # None => doc' = doc
  BY <1>1
<1>12. doc = None => d.pending = None
  BY <1>1, <1>4 DEF FreshDocument
<1>13. pc[m] \notin Closing
  BY <1>1 DEF Closing, Placing
<1> QED
  BY <1>1, <1>4, <1>5, <1>7, <1>9, <1>10, <1>11, <1>12, <1>13, TurnAlone

LEMMA CandidateAlone ==
  ASSUME IInv, Alone, NEW m \in Messages, FindOpenOrder(m), ~overlapped
  PROVE  Alone'
<1>1. /\ pc[m] = "findOpenOrder" /\ orders' = orders /\ UNCHANGED bounds /\ tries' = tries
      /\ doc' = doc /\ Go(m, "ask")
      /\ OpenOrders = {} => mem' = mem
      /\ OpenOrders # {} => \E o \in OpenOrders : mem' = [mem EXCEPT ![m].candidate = o]
  BY DEF FindOpenOrder, documents, conversation, OpenOrders
<1>2. mem[m] \in MemoryType /\ mem[m].candidate = None /\ Loaded(m)
  BY <1>1, Begins DEF Begun, Resting, Loaded
<1>3. PICK c \in {None} \cup OpenOrders :
        /\ mem' = [mem EXCEPT ![m] = [mem[m] EXCEPT !.candidate = c]]
        /\ c = None => OpenOrders = {}
  <2>1. CASE OpenOrders = {}
    <3>1. mem[m] = [mem[m] EXCEPT !.candidate = None]
      BY <1>2 DEF MemoryType
    <3>2. mem' = [mem EXCEPT ![m] = mem[m]]
      BY <1>1, <2>1, Typed DEF IInv, Attempting
    <3> QED
      BY <2>1, <3>1, <3>2
  <2>2. CASE OpenOrders # {}
    <3>1. PICK o \in OpenOrders : mem' = [mem EXCEPT ![m].candidate = o]
      BY <1>1, <2>2
    <3>2. o # None
      BY FinalizerAssumption DEF OpenOrders
    <3> QED
      BY <3>1, <3>2
  <2> QED
    BY <2>1, <2>2
<1> DEFINE x == [mem[m] EXCEPT !.candidate = c]
<1>4. x.state = mem[m].state /\ x.candidate = c
  BY <1>2 DEF MemoryType
<1> HIDE DEF x
<1>5. OthersStay(m) /\ pc'[m] = "ask" /\ mem'[m] = x
  BY <1>1, <1>3, Typed DEF IInv, Attempting, Go, OthersStay, x
<1>6. State(m)' = State(m) /\ Loaded(m)' /\ OpenOrders' = OpenOrders
  BY <1>1, <1>4, <1>5, OpenSame DEF State, Loaded, Resting
<1>7. c # None => orders[c].status \in Open
  BY DEF OpenOrders
<1>8. AloneAt(m)'
  BY <1>1, <1>2, <1>3, <1>4, <1>5, <1>6, <1>7 DEF Alone, AloneAt, Calm, bounds
<1>9. \A n \in Running : n = m
  BY <1>1 DEF Running, Resting, Alone
<1>10. pc[m] \notin Closing
  BY <1>1 DEF Closing, Placing
<1> QED
  BY <1>1, <1>5, <1>8, <1>9, <1>10, TurnAlone

LEMMA NoResponseAlone ==
  ASSUME IInv, Alone, NEW m \in Messages, NoResponse(m), ~overlapped
  PROVE  Alone'
<1>1. /\ pc[m] = "ask" /\ orders' = orders /\ UNCHANGED bounds /\ doc' = doc /\ Finish(m)
  BY DEF NoResponse, documents, conversation
<1>2. Ends(m)
  BY <1>1, Typed, FinishStep DEF IInv
<1>3. \A n \in Running : n = m
  BY <1>1 DEF Running, Resting, Alone
<1>4. pc[m] \notin Closing
  BY <1>1 DEF Closing, Placing
<1> QED
  BY <1>1, <1>2, <1>3, <1>4, RestAlone, TurnAlone DEF Ends, Resting

LEMMA AnswerAlone ==
  ASSUME IInv, Alone, NEW m \in Messages, AnswerText(m), ~overlapped
  PROVE  Alone'
<1>1. /\ pc[m] = "ask" /\ orders' = orders /\ UNCHANGED bounds /\ doc' = doc /\ mem' = mem
      /\ tries' = tries /\ Go(m, "history")
  BY DEF AnswerText, documents, conversation
<1>2. OthersStay(m) /\ pc'[m] = "history"
  BY <1>1, Typed DEF IInv, Attempting, Go, OthersStay
<1>3. \A n \in Running : n = m
  BY <1>1 DEF Running, Resting, Alone
<1>4. pc[m] \notin Closing /\ Loaded(m) /\ State(m)' = State(m) /\ (Calm' <=> Calm)
  BY <1>1 DEF Closing, Placing, Loaded, Resting, State, Calm, bounds
<1>5. AloneAt(m)'
  BY <1>1, <1>2, <1>4 DEF Alone, AloneAt
<1> QED
  BY <1>1, <1>2, <1>3, <1>4, <1>5, TurnAlone

(* The copy has all that is on record, and only a candidate, which is      *)
(* open, takes the place of its pending order.                             *)
LEMMA CallAlone ==
  ASSUME IInv, Alone, NEW m \in Messages, CallTools(m), ~overlapped
  PROVE  Alone'
<1>1. /\ pc[m] = "ask" /\ tries' = tries /\ UNCHANGED bounds /\ orders' = orders /\ doc' = doc
      /\ Loaded(m)
  BY DEF CallTools, documents, conversation, Loaded, Resting
<1>2. PICK facts \in Tells[m], decision \in {None, "keep", "replace"} :
        EndsCall(m, Resolved(Told(State(m), m, facts), m, decision))
  BY DEF CallTools, ChangesCopy, EndsCall
<1> DEFINE t == Told(State(m), m, facts)
           d == Resolved(t, m, decision)
<1>3. EndsCall(m, d)
  BY <1>2
<1>4. mem[m] \in MemoryType /\ State(m) \in DocumentType /\ Decides(State(m), orders)
      /\ mem[m].candidate \in {None} \cup 1..Len(orders)
  BY <1>1, Begins DEF Begun, Resting, MemoryType, State
<1>5. /\ t \in DocumentType
      /\ \A s \in Slots : State(m)[s] # None => t[s] # None
      /\ \A f \in {"id", "pending", "decision", "resolver", "history"} : t[f] = State(m)[f]
  BY <1>4, ToldKeeps
<1> HIDE DEF t
<1>6. Decides(t, orders) /\ t.id = State(m).id /\ t.pending = State(m).pending
  BY <1>4, <1>5 DEF Decides
<1>7. /\ d \in DocumentType
      /\ \A f \in Slots \cup {"id", "history"} : d[f] = t[f]
      /\ \/ d.pending = t.pending
         \/ mem[m].candidate # None /\ d.pending = mem[m].candidate
  BY <1>4, <1>5, <1>6, ResolvedKeeps
<1> HIDE DEF d
<1>8. /\ d.id = State(m).id
      /\ \A s \in Slots : State(m)[s] # None => d[s] # None
      /\ \/ d.pending = State(m).pending
         \/ mem[m].candidate # None /\ d.pending = mem[m].candidate
  BY <1>5, <1>6, <1>7
<1>9. /\ mem'[m].state = d /\ mem'[m].candidate = mem[m].candidate
      /\ \A n \in Messages \ {m} : mem'[n] = mem[n]
  BY <1>3, <1>4, <1>7, CopyChanges DEF EndsCall
<1>10. OthersStay(m) /\ pc'[m] \in {"persist", "details"}
  BY <1>1, <1>3, <1>9, Typed DEF IInv, Attempting, EndsCall, Go, OthersStay
<1>11. State(m)' = d /\ (Calm' <=> Calm) /\ OpenOrders' = OpenOrders
  BY <1>1, <1>9, OpenSame DEF State, Calm, bounds
<1>12. AloneAt(m)
  BY DEF Alone
<1>13. AloneAt(m)'
  <2>1. /\ doc' # None /\ doc'.id = d.id
        /\ \A s \in Slots : doc'[s] # None => d[s] # None
        /\ \/ d.pending = doc'.pending
           \/ mem[m].candidate # None /\ d.pending = mem[m].candidate
    BY <1>1, <1>8, <1>12 DEF AloneAt
  <2>2. Calm /\ mem[m].candidate # None => orders[mem[m].candidate].status \in Open
    BY <1>1, <1>12 DEF AloneAt
  <2>3. Calm /\ d.pending = None /\ mem[m].candidate = None => OpenOrders = {}
    BY <1>1, <1>8, <1>12 DEF AloneAt
  <2> QED
    BY <1>1, <1>9, <1>10, <1>11, <2>1, <2>2, <2>3 DEF AloneAt
<1>14. pc[m] \notin Closing /\ \A n \in Running : n = m
  BY <1>1 DEF Closing, Placing, Running, Resting, Alone
<1> QED
  BY <1>1, <1>10, <1>13, <1>14, TurnAlone

(* What is written back is what is on record, and more. *)
LEMMA PersistAlone ==
  ASSUME IInv, Alone, NEW m \in Messages, PersistState(m), ~overlapped
  PROVE  Alone'
<1> DEFINE x == [mem[m] EXCEPT !.round = mem[m].round + 1]
           p == Persisted(m)
<1>1. /\ pc[m] = "persist" /\ tries' = tries /\ UNCHANGED bounds /\ orders' = orders
      /\ doc' = IF doc = None THEN None ELSE p
      /\ mem' = [mem EXCEPT ![m] = x]
      /\ (Go(m, "ask") \/ Go(m, "history")) /\ Loaded(m)
  BY DEF PersistState, documents, Loaded, Resting
<1>2. mem[m] \in MemoryType /\ State(m) \in DocumentType
  BY <1>1, Begins DEF Begun, Resting, MemoryType, State
<1>3. AloneAt(m) /\ doc # None /\ doc \in DocumentType
  BY <1>1 DEF Alone, AloneAt, IInv, TypeOK
<1>4. x.state = mem[m].state /\ x.candidate = mem[m].candidate
  BY <1>2 DEF MemoryType
<1>5. /\ p \in DocumentType /\ p.id = doc.id
      /\ \A s \in Slots : p[s] = State(m)[s]
      /\ p.pending = Given(State(m).pending, doc.pending)
  BY <1>2, <1>3, PersistedKeeps
<1>6. doc' = p /\ p # None
  BY <1>1, <1>3, <1>5, AgentAssumption
<1> HIDE DEF x, p
<1>7. OthersStay(m) /\ pc'[m] \in {"ask", "history"} /\ mem'[m] = x
  BY <1>1, Typed DEF IInv, Attempting, Go, OthersStay
<1>8. State(m)' = State(m) /\ (Calm' <=> Calm) /\ OpenOrders' = OpenOrders
  BY <1>1, <1>4, <1>7, OpenSame DEF State, Calm, bounds
<1>9. AloneAt(m)'
  <2>1. \/ State(m).pending = p.pending
        \/ mem[m].candidate # None /\ State(m).pending = mem[m].candidate
    BY <1>1, <1>3, <1>5 DEF AloneAt, Given
  <2>2. p.id = State(m).id /\ \A s \in Slots : p[s] # None => State(m)[s] # None
    BY <1>1, <1>3, <1>5 DEF AloneAt
  <2>3. /\ Calm /\ mem[m].candidate # None => orders[mem[m].candidate].status \in Open
        /\ Calm /\ State(m).pending = None /\ mem[m].candidate = None => OpenOrders = {}
    BY <1>1, <1>3 DEF AloneAt
  <2> QED
    BY <1>1, <1>4, <1>6, <1>7, <1>8, <2>1, <2>2, <2>3 DEF AloneAt
<1>10. Calm /\ p.pending # None =>
         orders[p.pending].status \in Open \/ p.pending = doc.pending
  BY <1>1, <1>3, <1>5 DEF AloneAt, Given
<1>11. pc[m] \notin Closing /\ \A n \in Running : n = m
  BY <1>1 DEF Closing, Placing, Running, Resting, Alone
<1> QED
  BY <1>1, <1>3, <1>5, <1>6, <1>7, <1>9, <1>10, <1>11, TurnAlone

(* The turn ends, without an order or with the one it has placed. *)
LEMMA EndAlone ==
  ASSUME IInv, Alone, NEW m \in Messages, AppendHistory(m) \/ DeleteState(m), ~overlapped
  PROVE  Alone'
<1>1. /\ pc[m] \in {"history", "close"} /\ orders' = orders /\ UNCHANGED bounds /\ Finish(m)
      /\ \/ pc[m] = "history" /\ doc' = Remembered(m)
         \/ pc[m] = "close" /\ doc' = None
  BY DEF AppendHistory, DeleteState, documents
<1>2. Ends(m)
  BY <1>1, Typed, FinishStep DEF IInv
<1>3. State(m) \in DocumentType /\ Turn(m) /\ Loaded(m) /\ AloneAt(m)
  BY <1>1, Begins DEF Begun, Loaded, Resting, MemoryType, State, Alone
<1>4. doc # None /\ doc.id = State(m).id
  BY <1>3 DEF AloneAt
<1>5. \A n \in Running : n = m
  BY <1>1 DEF Running, Resting, Alone
<1>6. CASE pc[m] = "history" /\ doc' = Remembered(m)
  <2> DEFINE r == Remembered(m)
  <2>1. r # None /\ r.id = doc.id /\ r.pending = doc.pending
    BY <1>3, <1>4, RememberedKeeps
  <2>2. doc' = r /\ pc[m] \notin Closing
    BY <1>6 DEF Closing, Placing
  <2> HIDE DEF r
  <2> QED
    BY <1>1, <1>2, <1>4, <1>5, <2>1, <2>2, RestAlone, TurnAlone DEF Ends, Resting
<1>7. CASE pc[m] = "close" /\ doc' = None
  <2>1. Placed(doc.id)
    BY <1>3, <1>4, <1>7 DEF Turn, Closing
  <2> QED
    BY <1>1, <1>2, <1>5, <1>7, <2>1, RestAlone, TurnAlone DEF Ends, Resting
<1> QED
  BY <1>1, <1>6, <1>7

LEMMA CloseAlone ==
  ASSUME IInv, Alone, NEW m \in Messages, CloseHistory(m), ~overlapped
  PROVE  Alone'
<1> DEFINE r == Remembered(m)
<1>1. /\ pc[m] = "finalized" /\ orders' = orders /\ UNCHANGED bounds /\ mem' = mem
      /\ tries' = tries /\ Go(m, "close") /\ doc' = r
  BY DEF CloseHistory, documents
<1>2. OthersStay(m) /\ pc'[m] = "close"
  BY <1>1, Typed DEF IInv, Attempting, Go, OthersStay
<1>3. State(m) \in DocumentType /\ Loaded(m) /\ AloneAt(m) /\ State(m)' = State(m)
      /\ (Calm' <=> Calm)
  BY <1>1, Begins DEF Begun, Loaded, Resting, MemoryType, State, Alone, Calm, bounds
<1>4. doc # None
  BY <1>3 DEF AloneAt
<1>5. /\ r # None /\ r.id = doc.id /\ r.pending = doc.pending
      /\ \A s \in Slots : r[s] = doc[s]
  BY <1>3, <1>4, RememberedKeeps
<1> HIDE DEF r
<1>6. AloneAt(m)'
  BY <1>1, <1>2, <1>3, <1>5 DEF AloneAt
<1>7. \A n \in Running : n = m
  BY <1>1 DEF Running, Resting, Alone
<1>8. pc'[m] \in Closing
  BY <1>2 DEF Closing
<1> QED
  BY <1>1, <1>2, <1>4, <1>5, <1>6, <1>7, <1>8, TurnAlone

(* A step of finalizeOrder of a turn that runs alone. *)
LEMMA Finalizes ==
  ASSUME IInv, Alone, ~overlapped, NEW m \in Messages, pc[m] \in Finalizing
  PROVE  /\ m \in Running /\ Loaded(m) /\ tries[m] < MaxAttempts /\ AloneAt(m) /\ Whole(m)
         /\ \A n \in Running : n = m
         /\ mem[m].candidate = None /\ doc # None /\ doc.id = State(m).id
         /\ State(m).pending = doc.pending /\ State(m).id \in Nat \ {0}
         /\ State(m).decision \in {None, "keep", "replace"}
         /\ Decides(State(m), orders)
<1>1. m \in Running /\ Loaded(m)
  BY DEF Running, Loaded, Finalizing, Resting
<1>2. /\ tries[m] < MaxAttempts /\ Whole(m) /\ AloneAt(m) /\ mem[m].candidate = None
      /\ Decides(State(m), orders)
  BY <1>1, Begins DEF Begun, Turn, Ready, Alone, Finalizing, Resting
<1>3. \A n \in Running : n = m
  BY <1>1 DEF Alone
<1> QED
  BY <1>1, <1>2, <1>3 DEF AloneAt, Whole, IsDraft

LEMMA PassAlone ==
  ASSUME IInv, Alone, NEW m \in Messages, UNCHANGED conversation, ~overlapped,
         \/ UpdateCustomerDetails(m) \/ CancelRead(m) \/ CancelLog(m)
         \/ IncrementOrderCount(m) \/ Notify(m)
  PROVE  Alone'
<1>1. /\ FinalizerStep(m) /\ pc[m] \in Finalizing /\ orders' = orders /\ UNCHANGED bounds
      /\ pc[m] # "create" /\ doc' = doc
  BY DEF FinalizerStep, UpdateCustomerDetails, CancelRead, CancelLog, IncrementOrderCount, Notify,
         Finalizing, documents, conversation
<1>2. /\ m \in Running /\ Loaded(m) /\ tries[m] < MaxAttempts /\ AloneAt(m)
      /\ \A n \in Running : n = m
      /\ mem[m].candidate = None
  BY <1>1, Finalizes
<1>3. /\ pc'[m] \in After(pc[m]) /\ mem' = mem /\ tries' = tries /\ OthersStay(m)
  <2>1. Attempting(Place, MemoryType) /\ Resting \cup Finalizing \cup {"finalized"} \subseteq Place
    BY Typed DEF IInv
  <2> QED
    BY <1>1, <1>2, <2>1, FinalizerGoes
<1>4. /\ pc'[m] \notin Resting \cup {"ask", "persist", "details"}
      /\ pc[m] \in Closing => pc'[m] \in Closing
  BY <1>1, <1>3 DEF After, Finalizing, Resting, Closing, Placing
<1>5. /\ State(m)' = State(m) /\ (Replaces(m)' <=> Replaces(m))
      /\ OpenOrders' = OpenOrders /\ (Calm' <=> Calm)
  BY <1>1, <1>3, OpenSame DEF State, Replaces, Calm, bounds
<1>6. /\ pc'[m] \in {"cancelRead", "cancelSave", "cancelLog"} => Replaces(m)
      /\ Calm =>
           /\ pc'[m] = "create" /\ State(m).pending = None => OpenOrders = {}
           /\ pc'[m] \in {"cancelLog", "create"} /\ Replaces(m) =>
                orders[State(m).pending].status \notin Open
  <2>1. Attempting(Place, MemoryType) /\ "cancelled" \notin Open
    BY Typed DEF IInv, Open
  <2>2. CASE UpdateCustomerDetails(m)
    <3>1. pc[m] = "details" /\ pc'[m] = IF Replaces(m) THEN "cancelRead" ELSE "create"
      BY <2>1, <2>2 DEF UpdateCustomerDetails, Go, Attempting
    <3> QED
      BY <1>2, <3>1 DEF AloneAt
  <2>3. CASE CancelRead(m)
    <3>1. pc[m] = "cancelRead"
          /\ pc'[m] = IF orders[State(m).pending].status = "cancelled"
                      THEN "cancelLog" ELSE "cancelSave"
      BY <2>1, <2>3 DEF CancelRead, Go, Attempting
    <3> QED
      BY <1>2, <2>1, <3>1 DEF AloneAt
  <2>4. CASE CancelLog(m)
    <3>1. pc[m] = "cancelLog" /\ Replaces(m) /\ pc'[m] = "create"
      BY <1>2, <2>1, <2>4 DEF AloneAt, CancelLog, Go, Attempting
    <3> QED
      BY <1>2, <3>1 DEF AloneAt, Replaces
  <2>5. CASE IncrementOrderCount(m) \/ Notify(m)
    BY <1>3, <2>5 DEF IncrementOrderCount, Notify, After
  <2> QED
    BY <2>2, <2>3, <2>4, <2>5
<1>7. AloneAt(m)'
  BY <1>1, <1>2, <1>3, <1>4, <1>5, <1>6 DEF AloneAt
<1> QED
  BY <1>1, <1>2, <1>3, <1>4, <1>7, TurnAlone

(* Replacing takes the pending order away, for a conversation that is open. *)
LEMMA CancelAlone ==
  ASSUME IInv, Alone, NEW m \in Messages, CancelSave(m), UNCHANGED conversation, ~overlapped
  PROVE  Alone'
<1>1. /\ FinalizerStep(m) /\ pc[m] = "cancelSave" /\ UNCHANGED bounds /\ doc' = doc
      /\ pc[m] \in Finalizing /\ faults' = faults /\ updates' = updates /\ crashes' = crashes
  BY DEF FinalizerStep, CancelSave, conversation, bounds, Finalizing
<1> DEFINE o == State(m).pending
<1>2. /\ m \in Running /\ Loaded(m) /\ tries[m] < MaxAttempts /\ AloneAt(m) /\ Whole(m)
      /\ \A n \in Running : n = m
      /\ mem[m].candidate = None /\ doc # None /\ doc.id = State(m).id
      /\ o = doc.pending /\ State(m).id \in Nat \ {0} /\ Decides(State(m), orders)
  BY <1>1, Finalizes
<1>3. /\ pc'[m] = "cancelLog" /\ mem' = mem /\ tries' = tries /\ OthersStay(m)
  <2>1. Attempting(Place, MemoryType) /\ Resting \cup Finalizing \cup {"finalized"} \subseteq Place
    BY Typed DEF IInv
  <2> QED
    BY <1>1, <1>2, <2>1, FinalizerGoes DEF After
<1>4. /\ Replaces(m) /\ o \in 1..Len(orders) /\ o # None
      /\ Cancels(State(m).pending, State(m).id)
  BY <1>1, <1>2 DEF AloneAt, Replaces, Decides, CancelSave, Cancels
<1>5. /\ orders'[o].status \notin Open
      /\ Cardinality(OpenOrders') =
           Cardinality(OpenOrders) - (IF orders[o].status \in Open THEN 1 ELSE 0)
      /\ Cardinality(KeptOrders') = Cardinality(KeptOrders)
  BY <1>2, <1>4, OneCancelled DEF IInv, TypeOK
<1>6. /\ Len(orders') = Len(orders)
      /\ \A p \in 1..Len(orders) : orders'[p].conversation = orders[p].conversation
      /\ \A p \in 1..Len(orders) :
           orders'[p].cancelledFor \in {orders[p].cancelledFor, State(m).id}
  <2>1. Ready(m) /\ FinalizerTypeOK
    BY DEF IInv, Turn, TypeOK
  <2>2. /\ OrdersKept
        /\ \/ orders' = orders
           \/ /\ Len(orders') = Len(orders)
              /\ \A p \in 1..Len(orders) :
                   orders'[p].cancelledFor \in {orders[p].cancelledFor, State(m).id}
    BY <1>1, <2>1, FinalizerWrites
  <2> QED
    BY <2>2 DEF OrdersKept, Lasting
<1>7. State(m)' = State(m) /\ (Replaces(m)' <=> Replaces(m)) /\ Loaded(m)'
  BY <1>3 DEF State, Replaces, Loaded, Resting
<1>8. AloneAt(m)'
  <2>1. (State(m).pending)' = o
    BY <1>7
  <2> QED
    BY <1>1, <1>2, <1>3, <1>4, <1>5, <1>7, <2>1 DEF AloneAt
<1>9. /\ \A n \in Messages \ {m} : pc[n] \in Resting /\ pc'[n] \in Resting /\ AloneAt(n)'
      /\ \A n \in Running' : n = m
      /\ \A n \in Messages : pc[n] \notin Closing
  BY <1>1, <1>2, <1>3, OthersRest DEF Resting, Closing, Placing
<1>10. CancelledIsCovered'
  <2>1. CancelledIsCovered
    BY DEF Alone
  <2>2. \A c : Placed(c) => Placed(c)'
    BY <1>6 DEF Placed
  <2> QED
    BY <1>1, <1>2, <1>6, <2>1, <2>2 DEF CancelledIsCovered, Placed
<1>11. Room'
  <2>1. SUFFICES ASSUME Calm
                 PROVE  Room'
    BY <1>1 DEF Room, Calm
  <2>2. Cardinality(OpenOrders) \in Nat /\ Cardinality(KeptOrders) \in Nat /\ faults \in Nat
    BY OpenFinite DEF IInv, TypeOK, FinalizerTypeOK
  <2>3. Cardinality(OpenOrders) <= 1 + Cardinality(KeptOrders) + faults
    BY <2>1, Accounted DEF Alone, Room
  <2>4. OpenOrdersAccounted' <=>
          Cardinality(OpenOrders') <= 1 + Cardinality(KeptOrders') + faults'
    BY DEF OpenOrdersAccounted, OpenOrders, KeptOrders
  <2>5. orders[o].status \notin Open => Cardinality(OpenOrders) <= Cardinality(KeptOrders) + faults
    BY <1>2, <1>4, <1>9, <2>1 DEF Alone, Room
  <2>6. Cardinality(OpenOrders') <= Cardinality(KeptOrders') + faults'
    BY <1>1, <1>5, <2>2, <2>3, <2>5
  <2>7. Cardinality(OpenOrders') \in Int /\ Cardinality(KeptOrders') \in Nat /\ faults' \in Nat
    BY <1>1, <1>5, <2>2
  <2> QED
    BY <2>4, <2>6, <2>7 DEF Room
<1> QED
  BY <1>8, <1>9, <1>10, <1>11 DEF Alone

(* The order is placed: there is none open, or the customer keeps it, or   *)
(* it has been replaced.                                                   *)
LEMMA PlaceAlone ==
  ASSUME IInv, Alone, NEW m \in Messages, CreateOrder(m), UNCHANGED conversation, ~overlapped,
         OrderValidates(NewOrder(m))
  PROVE  Alone'
<1>1. /\ FinalizerStep(m) /\ pc[m] = "create" /\ UNCHANGED bounds /\ doc' = doc
      /\ pc[m] \in Finalizing /\ faults' = faults /\ updates' = updates /\ crashes' = crashes
      /\ orders' = Append(orders, NewOrder(m)) /\ mem' = mem /\ tries' = tries /\ Go(m, "count")
  BY DEF FinalizerStep, CreateOrder, conversation, bounds, Finalizing
<1> DEFINE o == State(m).pending
           new == Len(orders) + 1
<1>2. /\ m \in Running /\ Loaded(m) /\ tries[m] < MaxAttempts /\ AloneAt(m) /\ Whole(m)
      /\ \A n \in Running : n = m
      /\ mem[m].candidate = None /\ doc # None /\ doc.id = State(m).id
      /\ o = doc.pending /\ State(m).id \in Nat \ {0} /\ Decides(State(m), orders)
      /\ State(m).decision \in {None, "keep", "replace"}
  BY <1>1, Finalizes
<1>3. pc'[m] = "count" /\ OthersStay(m)
  BY <1>1, Typed DEF IInv, Attempting, Go, OthersStay
<1>4. /\ NewOrder(m) \in OrderType /\ NewOrder(m).cancelledFor = 0
      /\ NewOrder(m).decision = State(m).decision
  BY <1>2, NewOrderType
<1>5. /\ Len(orders') = new /\ orders'[new] = NewOrder(m) /\ Len(orders) \in Nat
      /\ \A p \in 1..Len(orders) : orders'[p] = orders[p]
      /\ Cardinality(OpenOrders') <= Cardinality(OpenOrders) + 1
      /\ Cardinality(KeptOrders') =
           Cardinality(KeptOrders) + (IF State(m).decision = "keep" THEN 1 ELSE 0)
      /\ Cardinality(OpenOrders') \in Nat
  BY <1>1, <1>4, Typed, OneMoreOrder DEF IInv
<1>6. State(m)' = State(m) /\ Loaded(m)'
  BY <1>1, <1>3 DEF State, Loaded, Resting
<1>7. AloneAt(m)'
  BY <1>1, <1>2, <1>3, <1>6 DEF AloneAt
<1>8. /\ \A n \in Messages \ {m} : pc[n] \in Resting /\ pc'[n] \in Resting /\ AloneAt(n)'
      /\ \A n \in Running' : n = m
      /\ \A n \in Messages : pc[n] \notin Closing
  BY <1>1, <1>2, <1>3, OthersRest DEF Resting, Closing, Placing
<1>9. CancelledIsCovered'
  <2>1. CancelledIsCovered
    BY DEF Alone
  <2>2. \A c : Placed(c) => Placed(c)'
    BY <1>5 DEF Placed
  <2>3. \A p \in 1..Len(orders') : p \in 1..Len(orders) \/ p = new
    BY <1>5
  <2> QED
    BY <1>1, <1>4, <1>5, <2>1, <2>2, <2>3 DEF CancelledIsCovered, Placed
<1>10. Room'
  <2>1. SUFFICES ASSUME Calm
                 PROVE  OpenOrdersAccounted'
    BY <1>1, <1>3 DEF Room, Calm, Closing, Placing
  <2>2. Cardinality(OpenOrders) \in Nat /\ Cardinality(KeptOrders) \in Nat /\ faults \in Nat
    BY OpenFinite DEF IInv, TypeOK, FinalizerTypeOK
  <2>3. Cardinality(OpenOrders) <= 1 + Cardinality(KeptOrders) + faults
    BY <2>1, Accounted DEF Alone, Room
  <2>4. OpenOrdersAccounted' <=>
          Cardinality(OpenOrders') <= 1 + Cardinality(KeptOrders') + faults'
    BY DEF OpenOrdersAccounted, OpenOrders, KeptOrders
  <2>5. CASE o = None
    <3>1. Cardinality(OpenOrders) = 0
      BY <1>1, <1>2, <2>1, <2>5, FS_EmptySet DEF AloneAt
    <3> QED
      BY <1>1, <1>5, <2>2, <2>4, <3>1
  <2>6. CASE State(m).decision = "keep"
    BY <1>1, <1>5, <2>2, <2>3, <2>4, <2>6
  <2>7. CASE o # None /\ State(m).decision = "replace"
    <3>1. orders[o].status \notin Open
      BY <1>1, <1>2, <2>1, <2>7 DEF AloneAt, Replaces
    <3>2. Cardinality(OpenOrders) <= Cardinality(KeptOrders) + faults
      BY <1>2, <1>8, <2>1, <2>7, <3>1 DEF Alone, Room
    <3> QED
      BY <1>1, <1>5, <2>2, <2>4, <3>2
  <2> QED
    BY <1>2, <2>5, <2>6, <2>7 DEF Decides
<1> QED
  BY <1>7, <1>8, <1>9, <1>10 DEF Alone

LEMMA FinalizerAlone ==
  ASSUME IInv, Alone, NEW m \in Messages, FinalizerStep(m), UNCHANGED conversation,
         UNCHANGED overlapped, ~overlapped
  PROVE  Alone'
<1>1. ASSUME CreateOrder(m), ~OrderValidates(NewOrder(m))
      PROVE  Alone'
  <2>1. /\ pc[m] = "create" /\ pc[m] \in Finalizing /\ pc[m] \notin Closing
        /\ Reject(m) /\ orders' = orders /\ UNCHANGED bounds /\ doc' = doc
    BY <1>1 DEF CreateOrder, Finalizing, Closing, Placing, conversation
  <2>2. m \in Running /\ tries[m] < MaxAttempts
    BY <2>1, Finalizes
  <2>3. updates' = updates /\ crashes' = crashes /\ faults' = faults
    BY <2>1 DEF bounds
  <2> QED
    BY <2>1, <2>2, <2>3, RejectAlone
<1>2. ASSUME CreateOrder(m), OrderValidates(NewOrder(m))
      PROVE  Alone'
  BY <1>2, PlaceAlone
<1>3. CASE CancelSave(m)
  BY <1>3, CancelAlone
<1>4. CASE UpdateCustomerDetails(m) \/ CancelRead(m) \/ CancelLog(m)
           \/ IncrementOrderCount(m) \/ Notify(m)
  BY <1>4, PassAlone
<1> QED
  BY <1>1, <1>2, <1>3, <1>4 DEF FinalizerStep

LEMMA FaultAlone ==
  ASSUME IInv, Alone, NEW m \in Messages, CallFails(m), UNCHANGED conversation,
         UNCHANGED overlapped, ~overlapped
  PROVE  Alone'
<1>1. /\ m \in Busy /\ Reject(m) /\ orders' = orders /\ doc' = doc
      /\ updates' = updates /\ crashes' = crashes /\ faults' = faults + 1
  BY DEF CallFails, Fault, documents, conversation
<1>2. tries[m] < MaxAttempts
  BY <1>1 DEF IInv, Budget, Busy
<1>3. CASE m \in Running
  BY <1>1, <1>2, <1>3, RejectAlone
<1>4. CASE m \notin Running
  <2>1. pc[m] = "settle"
    BY <1>1, <1>4 DEF Busy, Running, Resting
  <2>2. Ends(m)
    BY <1>1, <1>2, Typed, RejectStep DEF IInv
  <2> QED
    BY <1>1, <2>1, <2>2, AsideAlone DEF Ends, OthersStay
<1> QED
  BY <1>3, <1>4

LEMMA SettleAlone ==
  ASSUME IInv, Alone, NEW m \in Messages, Settle(m), UNCHANGED conversation,
         UNCHANGED overlapped, ~overlapped
  PROVE  Alone'
<1>1. /\ pc[m] = "settle" /\ pc'[m] = "done"
      /\ \A n \in Messages \ {m} : pc'[n] = pc[n]
      /\ mem' = mem /\ UNCHANGED documents /\ UNCHANGED bounds
  BY Typed, SettleStep DEF IInv
<1>2. orders' = orders /\ doc' = doc
  BY <1>1 DEF documents, conversation
<1> QED
  BY <1>1, <1>2, BoundsSame, AsideAlone DEF Resting

(* The messages of a process that has died wait to be tried again. *)
LEMMA CrashAlone ==
  ASSUME IInv, Alone, Crash, UNCHANGED conversation, UNCHANGED overlapped, ~overlapped
  PROVE  Alone'
<1>1. orders' = orders /\ doc' = doc /\ crashes' = crashes + 1 /\ crashes \in Nat
  BY Typed DEF Crash, documents, conversation, IInv
<1>2. \A n \in Messages : pc'[n] \in Resting
  BY Typed, CrashStep DEF IInv, Busy, Resting
<1>3. Running' = {} /\ \A n \in Messages : AloneAt(n)'
  BY <1>2, RestAlone DEF Running
<1>4. ~Calm'
  BY <1>1 DEF Calm
<1>5. CancelledIsCovered'
  <2>1. CancelledIsCovered
    BY DEF Alone
  <2> QED
    BY <1>1, <2>1 DEF CancelledIsCovered
<1> QED
  BY <1>3, <1>4, <1>5 DEF Alone, Room

(* After a change by staff nothing more is claimed of open orders. *)
LEMMA StaffAlone ==
  ASSUME IInv, Alone, StaffStep, UNCHANGED conversation, UNCHANGED overlapped, ~overlapped
  PROVE  Alone'
<1>1. /\ OrdersKept /\ Len(orders') = Len(orders) /\ pc' = pc /\ mem' = mem
      /\ \A o \in 1..Len(orders) : orders'[o].cancelledFor = orders[o].cancelledFor
      /\ updates' = updates + 1 /\ updates \in Nat /\ doc' = doc
  BY StaffWrites DEF IInv, TypeOK, attempts, conversation, FinalizerTypeOK
<1>2. ~Calm'
  BY <1>1 DEF Calm
<1>3. \A n \in Messages : AloneAt(n)'
  BY <1>1, <1>2 DEF Alone, AloneAt, Loaded, State, Replaces
<1>4. Running' = Running
  BY <1>1 DEF Running
<1>5. CancelledIsCovered'
  <2>1. CancelledIsCovered
    BY DEF Alone
  <2>2. \A o \in 1..Len(orders) : orders'[o].conversation = orders[o].conversation
    BY <1>1 DEF OrdersKept, Lasting
  <2> QED
    BY <1>1, <2>1, <2>2 DEF CancelledIsCovered
<1> QED
  BY <1>2, <1>3, <1>4, <1>5 DEF Alone, Room

LEMMA InitAlone ==
  ASSUME Init
  PROVE  Alone
<1>1. /\ pc = [m \in Messages |-> "queued"] /\ doc = None /\ faults = 0
      /\ \/ orders = <<>>
         \/ orders = <<EarlierOrder>>
  BY DEF Init, InitFinalizer, Met
<1>2. Running = {} /\ \A m \in Messages : pc[m] \in Resting
  BY <1>1 DEF Running, Resting
<1>3. \A m \in Messages : AloneAt(m)
  BY <1>1 DEF AloneAt, Loaded, Resting
<1>4. CancelledIsCovered
  BY <1>1 DEF CancelledIsCovered, EarlierOrder
<1>5. OpenOrdersAccounted
  <2>1. OpenOrders \subseteq {1}
    BY <1>1 DEF OpenOrders
  <2>2. Cardinality(OpenOrders) <= 1
    <3>1. IsFiniteSet({1}) /\ Cardinality({1}) = 1
      BY FS_Singleton
    <3>2. Cardinality(OpenOrders) <= Cardinality({1})
      BY <2>1, <3>1, FS_Subset
    <3> QED
      BY <3>1, <3>2
  <2>3. Cardinality(OpenOrders) \in Nat /\ Cardinality(KeptOrders) \in Nat
    BY InitHolds, OpenFinite DEF IInv, TypeOK
  <2> QED
    BY <1>1, <2>2, <2>3, Accounted
<1> QED
  BY <1>1, <1>2, <1>3, <1>4, <1>5 DEF Alone, Room

LEMMA AloneInductive ==
  ASSUME IInv, Alone, [Next]_vars
  PROVE  Alone'
<1>1. SUFFICES ASSUME ~overlapped'
               PROVE  Alone'
  BY DEF Alone
<1>2. CASE UNCHANGED vars
  <2>1. (\A n \in Messages : AloneAt(n)' <=> AloneAt(n)) /\ Running' = Running
    BY <1>2 DEF vars, AloneAt, Loaded, State, Replaces, Calm, OpenOrders, Running
  <2>2. CancelledIsCovered' <=> CancelledIsCovered
    BY <1>2 DEF vars, CancelledIsCovered
  <2>3. Room' <=> Room
    BY <1>2 DEF vars, Room, Calm, OpenOrdersAccounted, OpenOrders, KeptOrders
  <2>4. overlapped' = overlapped
    BY <1>2 DEF vars
  <2> QED
    BY <2>1, <2>2, <2>3, <2>4 DEF Alone
<1>3. ASSUME NEW m \in Messages, AgentStep(m)
      PROVE  Alone'
  <2>1. CASE FindCustomer(m) \/ InsertCustomer(m) \/ ReadCustomer(m)
    BY <1>1, <2>1, EarlyAlone
  <2>2. CASE \/ OpenState(m) \/ FindOpenOrder(m) \/ NoResponse(m) \/ AnswerText(m)
             \/ CallTools(m) \/ PersistState(m) \/ AppendHistory(m) \/ CloseHistory(m)
             \/ DeleteState(m)
    <3>1. overlapped' = overlapped
      BY <2>2 DEF OpenState, FindOpenOrder, NoResponse, AnswerText, CallTools, PersistState,
                  AppendHistory, CloseHistory, DeleteState
    <3>2. ~overlapped
      BY <1>1, <3>1
    <3> QED
      BY <2>2, <3>2, OpenAlone, CandidateAlone, NoResponseAlone, AnswerAlone, CallAlone,
         PersistAlone, EndAlone, CloseAlone
  <2> QED
    BY <1>3, <2>1, <2>2 DEF AgentStep
<1>4. ASSUME UNCHANGED <<conversation, overlapped>>
      PROVE  UNCHANGED conversation /\ UNCHANGED overlapped /\ ~overlapped
  BY <1>1, <1>4
<1>5. ASSUME NEW m \in Messages,
             (FinalizerStep(m) \/ Settle(m) \/ CallFails(m)) /\ UNCHANGED <<conversation, overlapped>>
      PROVE  Alone'
  BY <1>4, <1>5, FinalizerAlone, SettleAlone, FaultAlone
<1>6. CASE (Crash \/ StaffStep) /\ UNCHANGED <<conversation, overlapped>>
  BY <1>4, <1>6, CrashAlone, StaffAlone
<1> QED
  BY <1>2, <1>3, <1>5, <1>6 DEF Next

LEMMA AloneInvariance == Spec => []Alone
<1>1. Init => Alone
  BY InitAlone
<1>2. IInv /\ Alone /\ [Next]_vars => Alone'
  BY AloneInductive
<1> QED
  BY <1>1, <1>2, Invariance, PTL DEF Spec

(* While turns do not overlap the customer has no open order that is not   *)
(* wanted, and none is cancelled for nothing: a replaced order is replaced *)
(* (grokAgentBot.service.ts, cancelOrderBySystem in orderFinalizer.ts).    *)
THEOREM WantedOrders == Spec => []OrdersAreWanted
<1>1. Alone => CancelledIsCovered
  BY DEF Alone, CancelledIsCovered
<1>2. Alone => OpenOrdersAreWanted
  BY DEF Alone, Room, Calm, OpenOrdersAreWanted
<1>3. Alone => OrdersAreWanted
  BY <1>1, <1>2 DEF OrdersAreWanted
<1> QED
  BY <1>3, AloneInvariance, PTL

----------------------------------------------------------------------------
(* What the customer has told. *)

(* A step of the conversation as NothingIsForgotten wants it. *)
Remembers ==
  ~overlapped' /\ doc # None =>
    IF doc' = None
    THEN \E o \in OrdersOfBot : orders[o].conversation = doc.id
    ELSE \A s \in Slots : doc[s] # None => doc'[s] # None

LEMMA SameRemembers ==
  ASSUME doc' = doc \/ doc = None
  PROVE  Remembers
BY DEF Remembers

(* The copy that is written back holds all that the document does. *)
LEMMA PersistRemembers ==
  ASSUME IInv, Alone, NEW m \in Messages, PersistState(m)
  PROVE  Remembers
<1> DEFINE p == Persisted(m)
<1>1. SUFFICES ASSUME ~overlapped, doc # None
               PROVE  Remembers
  BY DEF Remembers, PersistState
<1>2. pc[m] = "persist" /\ doc' = p /\ Loaded(m)
  BY <1>1 DEF PersistState, Loaded, Resting
<1>3. State(m) \in DocumentType /\ doc \in DocumentType /\ AloneAt(m)
  BY <1>1, <1>2, Begins DEF Begun, Resting, MemoryType, State, IInv, TypeOK, Alone
<1>4. p \in DocumentType /\ \A s \in Slots : p[s] = State(m)[s]
  BY <1>3, PersistedKeeps
<1> HIDE DEF p
<1>5. p # None /\ \A s \in Slots : doc[s] # None => p[s] # None
  BY <1>2, <1>3, <1>4, AgentAssumption DEF AloneAt
<1> QED
  BY <1>2, <1>5 DEF Remembers

LEMMA HistoryRemembers ==
  ASSUME IInv, NEW m \in Messages, AppendHistory(m) \/ CloseHistory(m)
  PROVE  Remembers
<1> DEFINE r == Remembered(m)
<1>1. doc' = r /\ pc[m] \in {"history", "finalized"}
  BY DEF AppendHistory, CloseHistory
<1>2. State(m) \in DocumentType
  BY <1>1, Begins DEF Begun, Loaded, Resting, MemoryType, State
<1>3. doc # None => r # None /\ \A s \in Slots : r[s] = doc[s]
  BY <1>2, RememberedKeeps
<1> HIDE DEF r
<1> QED
  BY <1>1, <1>3 DEF Remembers

(* The conversation that is deleted is the one the order is of. *)
LEMMA DeleteRemembers ==
  ASSUME IInv, Alone, NEW m \in Messages, DeleteState(m)
  PROVE  Remembers
<1>1. SUFFICES ASSUME ~overlapped, doc # None
               PROVE  \E o \in OrdersOfBot : orders[o].conversation = doc.id
  BY DEF Remembers, DeleteState
<1>2. pc[m] = "close" /\ doc' = None /\ Loaded(m)
  BY DEF DeleteState, Loaded, Resting
<1>3. State(m) \in DocumentType /\ Turn(m) /\ AloneAt(m)
  BY <1>1, <1>2, Begins DEF Begun, Resting, MemoryType, State, Alone
<1>4. Placed(State(m).id) /\ doc.id = State(m).id /\ State(m).id # 0
  BY <1>1, <1>2, <1>3 DEF Turn, Closing, AloneAt, DocumentType
<1> QED
  BY <1>4 DEF Placed, OrdersOfBot

LEMMA StepRemembers ==
  ASSUME IInv, Alone, [Next]_vars
  PROVE  Remembers
<1>1. ASSUME NEW m \in Messages, AgentStep(m)
      PROVE  Remembers
  <2>1. CASE \/ FindCustomer(m) \/ InsertCustomer(m) \/ ReadCustomer(m) \/ OpenState(m)
             \/ FindOpenOrder(m) \/ NoResponse(m) \/ AnswerText(m) \/ CallTools(m)
    <3>1. doc' = doc \/ doc = None
      BY <2>1 DEF FindCustomer, InsertCustomer, ReadCustomer, OpenState, FindOpenOrder,
                  NoResponse, AnswerText, CallTools, conversation
    <3> QED
      BY <3>1, SameRemembers
  <2> QED
    BY <1>1, <2>1, PersistRemembers, HistoryRemembers, DeleteRemembers DEF AgentStep
<1>2. CASE UNCHANGED vars \/ UNCHANGED <<conversation, overlapped>>
  BY <1>2, SameRemembers DEF vars, conversation
<1> QED
  BY <1>1, <1>2 DEF Next

(* While turns do not overlap, no step takes back what the customer has    *)
(* told, but the deletion of a conversation that an order has come of      *)
(* (findOneAndUpdate, appendHistory and deleteOne in                       *)
(* grokAgentBot.service.ts).                                               *)
THEOREM Memory == Spec => NothingIsForgotten
<1>1. IInv /\ Alone /\ [Next]_vars => [Remembers]_vars
  BY StepRemembers
<1>2. Spec => [][Remembers]_vars
  BY <1>1, Invariance, AloneInvariance, PTL DEF Spec
<1> QED
  BY <1>2, PTL DEF NothingIsForgotten, Remembers
=============================================================================
