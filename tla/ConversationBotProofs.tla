------------------------ MODULE ConversationBotProofs ------------------------
(***************************************************************************)
(* Proofs about ConversationBot.  IInv is the invariant of any number of   *)
(* workers; Lone adds what holds of one.                                   *)
(***************************************************************************)
EXTENDS ConversationBot, FinalizerProofs

(* Until the document is created there is only what will be in it; then an *)
(* attempt has the copy it loaded, and from openOrder on the customer.     *)
Unopened == {"findCustomer", "insertCustomer", "createState"}

Loaded(m) == pc[m] \notin Resting \cup Unopened

Knowing == Finalizing \cup {"openOrder", "finalized"}

Same(m) == doc # None /\ doc.id = State(m).id

(* A conversation that can be decided has all that an order needs. *)
Complete(d, c) == \A f \in {"name", "phone", "address"} : d[f] # None \/ c[f] # None

Budget == \A m \in Messages : pc[m] \notin {"done", "failed"} => tries[m] < MaxAttempts

(* An attempt's copies are older than the documents, in which nothing that *)
(* was known gets lost; what the attempt changes it fills.                 *)
CopyIsOlder(m) ==
  Loaded(m) =>
    /\ mem[m].base # None
    /\ State(m).id = mem[m].base.id /\ State(m).id \in 1..opened
    /\ \A s \in Slots : State(m)[s] # mem[m].base[s] => State(m)[s] # None
    /\ \A s \in Slots : Same(m) /\ mem[m].base[s] # None => doc[s] # None
    /\ mem[m].customer # None =>
         \A f \in Details : mem[m].customer[f] # None => customer[f] # None
    /\ pc[m] \in Knowing => mem[m].customer # None

(* A decision is on no document: it finalizes the order. *)
DecisionFinalizes(m) ==
  /\ pc[m] \in Unopened => State(m).decision = None
  /\ Loaded(m) =>
       /\ mem[m].base.decision = None
       /\ State(m).decision # None =>
            /\ State(m).stage = Deciding
            /\ pc[m] \in Finalizing \cup {"readCustomer", "finalized"}

DecidedIsComplete(m) ==
  /\ pc[m] \in Unopened => State(m).stage # Deciding
  /\ Loaded(m) /\ State(m).stage = Deciding => Complete(State(m), customer)
  /\ pc[m] = "openOrder" => Whole(m)
  /\ Ready(m)

Sound(m) ==
  /\ CopyIsOlder(m)
  /\ DecisionFinalizes(m)
  /\ DecidedIsComplete(m)
  /\ pc[m] \in Placing => Placed(State(m).id)

(* Every conversation there has been is still open, or an order has come   *)
(* of it.                                                                  *)
Conversations ==
  /\ doc # None => doc.id = opened /\ doc.decision = None
  /\ doc # None /\ doc.stage = Deciding => Complete(doc, customer)
  /\ \A c \in 1..opened : (doc # None /\ c = opened) \/ Placed(c)
  /\ \A o \in 1..Len(orders) :
       /\ orders[o].conversation <= opened /\ orders[o].cancelledFor <= opened
       /\ orders[o].conversation # 0 => orders[o].by \in Messages

IInv ==
  /\ TypeOK
  /\ Budget
  /\ Conversations
  /\ OrdersAreComplete
  /\ Counted
  /\ \A m \in Messages : Sound(m)

----------------------------------------------------------------------------
(* What keeps an attempt sound. *)

(* The conversation another attempt may have loaded is as it was but for   *)
(* slots that are filled by now, or gone for good.                         *)
ConversationKept ==
  /\ opened' \in Nat /\ opened <= opened'
  /\ \/ doc' = None
     \/ doc' # None /\ doc'.id > opened
     \/ /\ doc # None /\ doc' # None /\ doc'.id = doc.id
        /\ \A s \in Slots : doc[s] # None => doc'[s] # None

LEMMA Typed ==
  ASSUME TypeOK
  PROVE  /\ Attempting(Place, MemoryType) /\ FinalizerTypeOK
         /\ Resting \subseteq Place
         /\ Resting \cup Finalizing \cup {"finalized"} \subseteq Place
         /\ \A m \in Messages :
              /\ m \in Running <=> pc[m] \notin Resting
              /\ pc[m] \notin Resting =>
                   mem[m] \in MemoryType /\ State(m) \in DocumentType
BY DEF TypeOK, FinalizerTypeOK, Attempting, Place, Running, MemoryType, State

LEMMA SoundKept ==
  ASSUME TypeOK, NEW n \in Messages, Sound(n), pc'[n] = pc[n], mem'[n] = mem[n],
         CustomerKept, OrdersKept, ConversationKept
  PROVE  Sound(n)'
<1>1. opened \in Nat /\ opened' \in Nat /\ opened' >= opened
  BY DEF TypeOK, ConversationKept
<1>2. mem'[n] = mem[n] /\ State(n)' = State(n) /\ (Loaded(n)' <=> Loaded(n))
  BY DEF State, Loaded
<1>3. CopyIsOlder(n)'
  <2>1. SUFFICES ASSUME Loaded(n)
                 PROVE  CopyIsOlder(n)'
    BY <1>2 DEF CopyIsOlder
  <2>2. mem[n].base # None /\ State(n).id = mem[n].base.id /\ State(n).id \in 1..opened
    BY <2>1 DEF Sound, CopyIsOlder
  <2>3. \A s \in Slots : Same(n) /\ mem[n].base[s] # None => doc[s] # None
    BY <2>1 DEF Sound, CopyIsOlder
  <2>4. \A s \in Slots : State(n)[s] # mem[n].base[s] => State(n)[s] # None
    BY <2>1 DEF Sound, CopyIsOlder
  <2>5. State(n).id \in 1..opened'
    BY <1>1, <1>2, <2>2
  <2>6. \A s \in Slots : Same(n)' /\ mem[n].base[s] # None => doc'[s] # None
    BY <1>1, <1>2, <2>2, <2>3 DEF ConversationKept, Same
  <2>7. mem[n].customer # None =>
          \A f \in Details : mem[n].customer[f] # None => customer'[f] # None
    BY <2>1 DEF Sound, CopyIsOlder, CustomerKept
  <2>8. pc[n] \in Knowing => mem[n].customer # None
    BY <2>1 DEF Sound, CopyIsOlder
  <2> QED
    BY <1>2, <2>2, <2>4, <2>5, <2>6, <2>7, <2>8 DEF CopyIsOlder
<1>4. DecisionFinalizes(n)'
  BY <1>2 DEF Sound, DecisionFinalizes
<1>5. DecidedIsComplete(n)'
  <2>1. Ready(n)'
    BY ReadyKept DEF Sound, DecidedIsComplete
  <2>2. Complete(State(n), customer) => Complete(State(n), customer)'
    BY <1>2 DEF Complete, CustomerKept, Details
  <2>3. Whole(n) => Whole(n)'
    BY <1>2 DEF Whole, CustomerKept, Details, IsDraft
  <2> QED
    BY <1>2, <2>1, <2>2, <2>3 DEF Sound, DecidedIsComplete
<1>6. Placed(State(n).id) => Placed(State(n).id)'
  <2>1. orders \in Seq(OrderType)
    BY DEF TypeOK, FinalizerTypeOK
  <2>2. Len(orders) \in Nat
    BY <2>1
  <2>3. Len(orders') >= Len(orders)
    BY DEF OrdersKept
  <2> QED
    BY <1>2, <2>2, <2>3 DEF Placed, OrdersKept, Lasting
<1> QED
  BY <1>2, <1>3, <1>4, <1>5, <1>6 DEF Sound

LEMMA RestIsSound ==
  ASSUME NEW n, pc'[n] \in Resting
  PROVE  Sound(n)'
<1>1. ~Loaded(n)' /\ pc'[n] \notin Unopened \cup {"openOrder"} \cup Placing
  BY DEF Loaded, Resting, Unopened, Placing
<1>2. Ready(n)'
  BY RestIsReady
<1> QED
  BY <1>1, <1>2 DEF Sound, CopyIsOlder, DecisionFinalizes, DecidedIsComplete

(* What a step of an attempt has to keep. *)
LEMMA SoundStep ==
  ASSUME IInv, NEW m \in Messages,
         customer' \in CustomerType, orders' \in Seq(OrderType),
         OrdersKept, CustomerKept, OrdersAreComplete', Counted',
         Attempting(Place, MemoryType)', OthersStay(m),
         updates' \in 0..MaxUpdates, faults' \in 0..MaxFaults, crashes' \in 0..MaxCrashes,
         pc'[m] \notin {"done", "failed"} => tries'[m] < MaxAttempts,
         mem'[m] # None <=> pc'[m] \notin Resting,
         doc' \in DocumentType \cup {None}, opened' \in Nat,
         ConversationKept, Conversations', Sound(m)'
  PROVE  IInv'
<1>1. FinalizerTypeOK'
  BY DEF FinalizerTypeOK, Attempting
<1>2. TypeOK'
  <2>1. \A n \in Messages : mem'[n] # None <=> pc'[n] \notin Resting
    BY DEF OthersStay, IInv, TypeOK, Running
  <2> QED
    BY <1>1, <2>1 DEF TypeOK, Attempting, Running
<1>3. Budget'
  BY DEF IInv, Budget, OthersStay
<1>4. ASSUME NEW n \in Messages
      PROVE  Sound(n)'
  BY SoundKept DEF IInv, OthersStay
<1> QED
  BY <1>2, <1>3, <1>4 DEF IInv

(* A step that leaves the customer and the orders alone. *)
LEMMA QuietStep ==
  ASSUME IInv, NEW m \in Messages, UNCHANGED documents,
         Attempting(Place, MemoryType)', OthersStay(m),
         updates' \in 0..MaxUpdates, faults' \in 0..MaxFaults, crashes' \in 0..MaxCrashes,
         pc'[m] # "count", pc'[m] \notin {"done", "failed"} => tries'[m] < MaxAttempts,
         mem'[m] # None <=> pc'[m] \notin Resting,
         doc' \in DocumentType \cup {None}, opened' \in Nat,
         ConversationKept, Conversations', Sound(m)'
  PROVE  IInv'
<1>1. /\ FinalizerTypeOK /\ OrdersKept /\ CustomerKept /\ Len(orders') = Len(orders)
      /\ customer' \in CustomerType /\ orders' \in Seq(OrderType)
  BY DEF IInv, TypeOK, FinalizerTypeOK, OrdersKept, CustomerKept, documents
<1>2. OrdersAreComplete'
  BY <1>1, CompleteKept DEF IInv
<1>3. Counted'
  <2>1. \A n \in Messages : pc'[n] = "count" => pc[n] = "count"
    BY DEF OthersStay
  <2> QED
    BY <1>1, <2>1, CountedKept DEF IInv, documents
<1> QED
  BY <1>1, <1>2, <1>3, SoundStep

LEMMA ConversationSame ==
  ASSUME TypeOK, UNCHANGED conversation
  PROVE  /\ ConversationKept
         /\ doc' \in DocumentType \cup {None} /\ opened' \in Nat
         /\ Conversations /\ UNCHANGED documents => Conversations'
<1>1. doc' = doc /\ opened' = opened /\ opened \in Nat
  BY DEF TypeOK, conversation
<1>2. doc' \in DocumentType \cup {None}
  BY <1>1 DEF TypeOK
<1>3. Conversations /\ UNCHANGED documents => Conversations'
  BY <1>1 DEF Conversations, documents, Complete, Placed
<1> QED
  BY <1>1, <1>2, <1>3 DEF ConversationKept

LEMMA EndStep ==
  ASSUME IInv, NEW m \in Messages, UNCHANGED documents,
         Attempting(Place, MemoryType)', Ends(m),
         updates' \in 0..MaxUpdates, faults' \in 0..MaxFaults, crashes' \in 0..MaxCrashes,
         pc'[m] \notin {"done", "failed"} => tries'[m] < MaxAttempts,
         doc' \in DocumentType \cup {None}, opened' \in Nat,
         ConversationKept, Conversations'
  PROVE  IInv'
<1>1. Sound(m)'
  BY RestIsSound DEF Ends
<1>2. pc'[m] # "count" /\ OthersStay(m) /\ (mem'[m] # None <=> pc'[m] \notin Resting)
  BY DEF Ends, Resting
<1> QED
  BY <1>1, <1>2, QuietStep

LEMMA RejectIsSound ==
  ASSUME IInv, NEW m \in Messages, m \in Busy, Reject(m),
         UNCHANGED documents, UNCHANGED conversation,
         updates' \in 0..MaxUpdates, faults' \in 0..MaxFaults, crashes' \in 0..MaxCrashes
  PROVE  IInv'
<1>1. tries[m] < MaxAttempts
  BY DEF IInv, Budget, Busy
<1>2. Attempting(Place, MemoryType) /\ Resting \subseteq Place
  BY Typed DEF IInv
<1>3. /\ Attempting(Place, MemoryType)' /\ Ends(m)
      /\ pc'[m] \in {"queued", "failed"}
      /\ pc'[m] = "queued" => tries'[m] < MaxAttempts
  BY <1>1, <1>2, RejectStep
<1>4. /\ doc' \in DocumentType \cup {None} /\ opened' \in Nat
      /\ ConversationKept /\ Conversations'
  BY ConversationSame DEF IInv
<1> QED
  BY <1>3, <1>4, EndStep

LEMMA BoundsSame ==
  ASSUME TypeOK, UNCHANGED bounds
  PROVE  updates' \in 0..MaxUpdates /\ faults' \in 0..MaxFaults /\ crashes' \in 0..MaxCrashes
BY DEF TypeOK, FinalizerTypeOK, bounds

LEMMA FaultKeeps ==
  ASSUME IInv, NEW m \in Messages, Fault(m), UNCHANGED conversation
  PROVE  IInv'
<1>1. updates' \in 0..MaxUpdates /\ crashes' \in 0..MaxCrashes /\ faults' \in 0..MaxFaults
  BY FinalizerAssumption DEF IInv, TypeOK, FinalizerTypeOK, Fault
<1>2. m \in Busy /\ Reject(m) /\ UNCHANGED documents
  BY DEF Fault
<1> QED
  BY <1>1, <1>2, RejectIsSound

(* The end of a job is not the conversation's. *)
LEMMA SettleKeeps ==
  ASSUME IInv, NEW m \in Messages, Settle(m), UNCHANGED conversation
  PROVE  IInv'
<1>1. /\ Attempting(Place, MemoryType)' /\ pc[m] = "settle" /\ pc'[m] = "done"
      /\ \A n \in Messages \ {m} : pc'[n] = pc[n]
      /\ mem' = mem /\ tries' = tries /\ UNCHANGED documents /\ UNCHANGED bounds
  BY Typed, SettleStep DEF IInv
<1>2. /\ FinalizerTypeOK /\ OrdersKept /\ CustomerKept /\ Len(orders') = Len(orders)
  BY <1>1 DEF IInv, TypeOK, FinalizerTypeOK, OrdersKept, CustomerKept, documents
<1>3. /\ doc' \in DocumentType \cup {None} /\ opened' \in Nat
      /\ ConversationKept /\ Conversations'
  BY <1>1, ConversationSame DEF IInv
<1>4. TypeOK'
  <2>1. FinalizerTypeOK'
    BY <1>1 DEF IInv, TypeOK, FinalizerTypeOK, documents, bounds
  <2>2. Running' = Running
    BY <1>1 DEF Running, Resting
  <2> QED
    BY <1>1, <1>3, <2>1, <2>2 DEF IInv, TypeOK, Attempting
<1>5. Budget'
  BY <1>1 DEF IInv, Budget
<1>6. OrdersAreComplete'
  BY <1>2, CompleteKept DEF IInv
<1>7. Counted'
  <2>1. \A n \in Messages : pc'[n] = "count" => pc[n] = "count"
    BY <1>1
  <2> QED
    BY <1>1, <1>2, <2>1, CountedKept DEF IInv, documents
<1>8. ASSUME NEW n \in Messages
      PROVE  Sound(n)'
  <2>1. CASE n = m
    BY <1>1, <2>1, RestIsSound DEF Resting
  <2>2. CASE n # m
    BY <1>1, <1>2, <1>3, <2>2, SoundKept DEF IInv
  <2> QED
    BY <2>1, <2>2
<1> QED
  BY <1>3, <1>4, <1>5, <1>6, <1>7, <1>8 DEF IInv

(* The reply to a stage fills its slot, or decides. *)
LEMMA ReplyFills ==
  ASSUME NEW m \in Messages, NEW d \in DocumentType, Answers(m, d.stage), d.decision = None
  PROVE  LET r == ApplyReply(m, d) IN
         /\ r \in DocumentType
         /\ r.id = d.id /\ r.stage = d.stage /\ r.pending = d.pending
         /\ \A s \in Slots : r[s] # d[s] => r[s] # None
         /\ r.decision # None <=> d.stage = Deciding
<1> USE FinalizerAssumption
<1> DEFINE r == ApplyReply(m, d)
<1>1. Text[m].number \in Nat \cup {None}
  BY BotAssumption
<1>2. None \notin Messages \cup Nat /\ d.stage \in Asking \cup {Deciding}
  BY DEF DocumentType
<1>3. Deciding \notin Asking
  BY DEF Deciding, Asking
<1>4. CASE d.stage = "awaiting_name"
  BY <1>1, <1>2, <1>4 DEF ApplyReply, DocumentType, Slots, Deciding, Asking
<1>5. CASE d.stage = "awaiting_phone"
  BY <1>1, <1>2, <1>5 DEF ApplyReply, DocumentType, Slots, Deciding, Asking
<1>6. CASE d.stage = "awaiting_product"
  BY <1>1, <1>2, <1>6 DEF ApplyReply, DocumentType, Slots, Deciding, Asking
<1>7. CASE d.stage = "awaiting_quantity"
  <2>1. Text[m].number \in Nat
    BY <1>1, <1>7 DEF Answers
  <2> QED
    BY <1>2, <1>7, <2>1 DEF ApplyReply, DocumentType, Slots, Deciding, Asking
<1>8. CASE d.stage = "awaiting_address"
  BY <1>1, <1>2, <1>8 DEF ApplyReply, DocumentType, Slots, Deciding, Asking
<1>9. CASE d.stage = "awaiting_email"
  <2>1. r = [d EXCEPT !.email = IF Text[m].email THEN m ELSE @, !.emailAsked = TRUE]
    BY <1>9 DEF ApplyReply, Deciding
  <2>2. d.email \in Messages \cup {None}
    BY DEF DocumentType
  <2> DEFINE e == IF Text[m].email THEN m ELSE d.email
  <2>3. r = [d EXCEPT !.email = e, !.emailAsked = TRUE] /\ e \in Messages \cup {None}
        /\ (e # d.email => e # None)
    BY <1>2, <2>1, <2>2
  <2> HIDE DEF e, r
  <2>4. /\ r \in DocumentType
        /\ r.id = d.id /\ r.stage = d.stage /\ r.pending = d.pending
        /\ r.decision = d.decision /\ r.email = e
        /\ \A s \in Slots : s # "email" => r[s] = d[s]
    BY <2>3 DEF DocumentType, Slots
  <2> QED
    BY <1>3, <1>9, <2>3, <2>4 DEF Asking, r
<1>10. CASE d.stage = Deciding
  <2>1. r = [d EXCEPT !.decision = IF Text[m].keep THEN "keep" ELSE "replace"]
    BY <1>10 DEF ApplyReply, Deciding
  <2>2. None \notin {"keep", "replace"}
    OBVIOUS
  <2> QED
    BY <1>2, <1>10, <2>1, <2>2 DEF DocumentType, Slots
<1> QED
  BY <1>2, <1>4, <1>5, <1>6, <1>7, <1>8, <1>9, <1>10 DEF Asking

----------------------------------------------------------------------------
(* The steps of the bot. *)

(* An attempt that has just got its copy of the document. *)
LEMMA CopySound ==
  ASSUME NEW m \in Messages, NEW b \in DocumentType, NEW s \in DocumentType,
         pc'[m] \in {"readCustomer", "save"},
         mem'[m] = [base |-> b, state |-> s, customer |-> None],
         doc' = b, b.id \in 1..opened', s.id = b.id, b.decision = None,
         s.decision # None => s.stage = Deciding /\ pc'[m] = "readCustomer",
         \A f \in Slots : s[f] # b[f] => s[f] # None,
         s.stage = Deciding => Complete(s, customer')
  PROVE  Sound(m)'
<1>1. b # None
  BY BotAssumption
<1>2. State(m)' = s /\ mem'[m].base = b /\ mem'[m].customer = None
  BY DEF State
<1>3. Loaded(m)' /\ pc'[m] \notin Unopened \cup Knowing \cup Finalizing \cup Placing
  BY DEF Loaded, Resting, Unopened, Knowing, Finalizing, Placing
<1>4. CopyIsOlder(m)'
  BY <1>1, <1>2, <1>3 DEF CopyIsOlder, Same
<1>5. DecisionFinalizes(m)'
  BY <1>2, <1>3 DEF DecisionFinalizes
<1>6. DecidedIsComplete(m)'
  BY <1>2, <1>3 DEF DecidedIsComplete, Ready, Knowing, Complete
<1> QED
  BY <1>3, <1>4, <1>5, <1>6 DEF Sound

(* An attempt that has none yet. *)
LEMMA NewcomerSound ==
  ASSUME NEW m \in Messages, pc'[m] \in Unopened,
         mem'[m].state.decision = None, mem'[m].state.stage # Deciding
  PROVE  Sound(m)'
<1>1. ~Loaded(m)' /\ pc'[m] \notin Finalizing \cup Placing \cup Resting \cup {"openOrder"}
  BY DEF Unopened, Loaded, Finalizing, Placing, Resting
<1> QED
  BY <1>1 DEF Sound, CopyIsOlder, DecisionFinalizes, DecidedIsComplete, Ready, State

LEMMA LoadKeeps ==
  ASSUME IInv, NEW m \in Messages, LoadState(m)
  PROVE  IInv'
<1>1. pc[m] = "queued" /\ tries' = tries /\ UNCHANGED documents /\ UNCHANGED bounds
      /\ UNCHANGED conversation
  BY DEF LoadState
<1>2. Attempting(Place, MemoryType) /\ tries[m] < MaxAttempts
  BY <1>1, Typed DEF IInv, Budget
<1>3. /\ doc' \in DocumentType \cup {None} /\ opened' \in Nat
      /\ ConversationKept /\ Conversations' /\ doc' = doc /\ opened' = opened
      /\ updates' \in 0..MaxUpdates /\ faults' \in 0..MaxFaults /\ crashes' \in 0..MaxCrashes
  BY <1>1, ConversationSame, BoundsSame DEF IInv, conversation
<1>4. CASE doc # None
  <2>1. doc \in DocumentType /\ doc.decision = None /\ doc.id = opened /\ opened \in Nat
    BY <1>4 DEF IInv, TypeOK, Conversations
  <2> DEFINE s == IF Answers(m, doc.stage) THEN ApplyReply(m, doc) ELSE doc
             place == IF Answers(m, doc.stage) THEN "readCustomer" ELSE "save"
             x == [base |-> doc, state |-> s, customer |-> None]
  <2>2. /\ s \in DocumentType /\ s.id = doc.id /\ s.stage = doc.stage
        /\ \A f \in Slots : s[f] # doc[f] => s[f] # None
        /\ s.decision # None => s.stage = Deciding /\ place = "readCustomer"
    BY <2>1, ReplyFills
  <2>3. mem' = [mem EXCEPT ![m] = x] /\ Go(m, place)
    BY <1>4 DEF LoadState, Hold
  <2>4. place \in {"readCustomer", "save"}
    OBVIOUS
  <2> HIDE DEF s, place
  <2>5. place \in Place /\ place \notin Resting \cup {"count"}
    BY <2>4 DEF Place, Resting
  <2>6. x \in MemoryType /\ x # None
    BY <2>1, <2>2, BotAssumption DEF MemoryType
  <2> HIDE DEF x
  <2>7. /\ Attempting(Place, MemoryType)' /\ OthersStay(m)
        /\ pc'[m] = place /\ mem'[m] = x /\ tries'[m] = tries[m]
    BY <1>1, <1>2, <2>3, <2>5, <2>6 DEF Attempting, Go, OthersStay
  <2>8. doc.id \in 1..opened /\ doc.id \in 1..opened'
    BY <1>3, <2>1 DEF DocumentType
  <2>9. s.stage = Deciding => Complete(s, customer')
    <3>1. s.stage = Deciding => Complete(doc, customer)
      BY <1>4, <2>2 DEF IInv, Conversations
    <3>2. \A f \in Slots : doc[f] # None => s[f] # None
      BY <2>2
    <3>3. customer' = customer
      BY <1>1 DEF documents
    <3> QED
      BY <3>1, <3>2, <3>3 DEF Complete, Slots
  <2>10. Sound(m)'
    BY <1>3, <2>1, <2>2, <2>4, <2>7, <2>8, <2>9, CopySound DEF x
  <2> QED
    BY <1>1, <1>2, <1>3, <2>5, <2>6, <2>7, <2>10, QuietStep
<1>5. CASE doc = None
  <2>1. PICK found \in Parses[m] :
          IF "order" \in found
          THEN Hold(m, None, FreshDocument(m, found), None) /\ Go(m, "findCustomer")
          ELSE Go(m, "settle") /\ UNCHANGED mem
    BY <1>5 DEF LoadState
  <2>2. CASE "order" \in found
    <3> DEFINE s == FreshDocument(m, found)
               x == [base |-> None, state |-> s, customer |-> None]
    <3>1. /\ s \in DocumentType /\ s.decision = None /\ s.stage = "awaiting_name"
      BY DEF IInv, TypeOK, FreshDocument, DocumentType, Asking
    <3>2. mem' = [mem EXCEPT ![m] = x] /\ Go(m, "findCustomer")
      BY <2>1, <2>2 DEF Hold
    <3> HIDE DEF s
    <3>3. x \in MemoryType /\ x # None
      BY <3>1, BotAssumption DEF MemoryType
    <3> HIDE DEF x
    <3>4. "findCustomer" \in Place
      BY DEF Place
    <3>5. /\ Attempting(Place, MemoryType)' /\ OthersStay(m)
          /\ pc'[m] = "findCustomer" /\ mem'[m] = x /\ tries'[m] = tries[m]
      BY <1>1, <1>2, <3>2, <3>3, <3>4 DEF Attempting, Go, OthersStay
    <3>6. pc'[m] \in Unopened /\ pc'[m] \notin Resting \cup {"count"} /\ State(m)' = s
      BY <3>5 DEF Unopened, Resting, State, x
    <3>7. Sound(m)'
      BY <3>1, <3>6, NewcomerSound DEF State, Deciding
    <3> QED
      BY <1>1, <1>2, <1>3, <3>3, <3>5, <3>6, <3>7, QuietStep
  <2>3. CASE "order" \notin found
    <3>1. Go(m, "settle") /\ mem' = mem /\ "settle" \in Place
      BY <2>1, <2>3 DEF Place, Resting
    <3>2. mem[m] = None
      BY <1>1 DEF IInv, TypeOK, Running, Resting
    <3>3. /\ Attempting(Place, MemoryType)' /\ OthersStay(m)
          /\ pc'[m] = "settle" /\ mem'[m] = None
      BY <1>1, <1>2, <3>1, <3>2, GoesOn
    <3>4. Ends(m)
      BY <3>3 DEF Ends, Resting
    <3> QED
      BY <1>1, <1>2, <1>3, <3>3, <3>4, EndStep
  <2> QED
    BY <2>2, <2>3
<1> QED
  BY <1>4, <1>5

LEMMA FindKeeps ==
  ASSUME IInv, NEW m \in Messages, FindCustomer(m)
  PROVE  IInv'
<1>1. /\ pc[m] = "findCustomer" /\ mem' = mem /\ tries' = tries /\ UNCHANGED documents
      /\ UNCHANGED bounds /\ UNCHANGED conversation
  BY DEF FindCustomer
<1>2. PICK place \in {"createState", "insertCustomer"} : Go(m, place)
  BY DEF FindCustomer
<1>3. place \in Place
  BY DEF Place
<1>4. /\ Attempting(Place, MemoryType)' /\ OthersStay(m)
      /\ pc'[m] = place /\ mem'[m] = mem[m] /\ tries'[m] = tries[m]
  BY <1>1, <1>2, <1>3, Typed, GoesOn DEF IInv
<1>5. /\ doc' \in DocumentType \cup {None} /\ opened' \in Nat
      /\ ConversationKept /\ Conversations'
      /\ updates' \in 0..MaxUpdates /\ faults' \in 0..MaxFaults /\ crashes' \in 0..MaxCrashes
  BY <1>1, ConversationSame, BoundsSame DEF IInv
<1>6. /\ mem[m] # None /\ tries[m] < MaxAttempts
      /\ State(m).decision = None /\ State(m).stage # Deciding
  BY <1>1 DEF IInv, TypeOK, Budget, Running, Resting, Sound, DecisionFinalizes,
              DecidedIsComplete, Unopened
<1>7. Sound(m)'
  BY <1>4, <1>6, NewcomerSound DEF State, Unopened
<1> QED
  BY <1>1, <1>4, <1>5, <1>6, <1>7, QuietStep DEF Resting

LEMMA InsertKeeps ==
  ASSUME IInv, NEW m \in Messages, InsertCustomer(m)
  PROVE  IInv'
<1>1. /\ pc[m] = "insertCustomer" /\ orders' = orders
      /\ UNCHANGED bounds /\ UNCHANGED conversation
  BY DEF InsertCustomer, AddCustomer
<1>2. /\ doc' \in DocumentType \cup {None} /\ opened' \in Nat
      /\ ConversationKept /\ (UNCHANGED documents => Conversations')
      /\ updates' \in 0..MaxUpdates /\ faults' \in 0..MaxFaults /\ crashes' \in 0..MaxCrashes
  BY <1>1, ConversationSame, BoundsSame DEF IInv
<1>3. m \in Busy
  BY <1>1 DEF Busy
<1>4. CASE Reject(m) /\ UNCHANGED customer
  BY <1>1, <1>2, <1>3, <1>4, RejectIsSound DEF documents
<1>5. CASE /\ customer' = [customer EXCEPT !.exists = TRUE]
           /\ Go(m, "createState") /\ UNCHANGED <<mem, tries>>
  <2>1. "createState" \in Place
    BY DEF Place
  <2>2. /\ Attempting(Place, MemoryType)' /\ OthersStay(m)
        /\ pc'[m] = "createState" /\ mem'[m] = mem[m] /\ tries'[m] = tries[m]
    BY <1>5, <2>1, Typed, GoesOn DEF IInv
  <2>3. customer \in CustomerType
    BY DEF IInv, TypeOK, FinalizerTypeOK
  <2>4. /\ customer' \in CustomerType /\ customer'.totalOrders = customer.totalOrders
        /\ \A f \in Details : customer'[f] = customer[f]
    BY <1>5, <2>3 DEF CustomerType, Details
  <2>5. /\ FinalizerTypeOK /\ OrdersKept /\ CustomerKept /\ Len(orders') = Len(orders)
        /\ orders' \in Seq(OrderType)
    BY <1>1, <2>4 DEF IInv, TypeOK, FinalizerTypeOK, OrdersKept, CustomerKept
  <2>6. OrdersAreComplete'
    BY <2>5, CompleteKept DEF IInv
  <2>7. Counted'
    <3>1. \A n \in Messages : pc'[n] = "count" => pc[n] = "count"
      BY <2>2 DEF OthersStay
    <3> QED
      BY <2>4, <2>5, <3>1, CountedKept DEF IInv
  <2>8. Conversations'
    <3>1. doc # None /\ doc.stage = Deciding => Complete(doc, customer')
      BY <2>4 DEF IInv, Conversations, Complete, Details
    <3> QED
      BY <1>1, <3>1 DEF IInv, Conversations, Complete, Placed, conversation
  <2>9. /\ mem[m] # None /\ tries[m] < MaxAttempts
        /\ State(m).decision = None /\ State(m).stage # Deciding
    BY <1>1 DEF IInv, TypeOK, Budget, Running, Resting, Sound, DecisionFinalizes,
                DecidedIsComplete, Unopened
  <2>10. Sound(m)'
    BY <2>2, <2>9, NewcomerSound DEF State, Unopened
  <2> QED
    BY <1>2, <2>2, <2>4, <2>5, <2>6, <2>7, <2>8, <2>9, <2>10, SoundStep DEF Resting
<1> QED
  BY <1>4, <1>5 DEF InsertCustomer, AddCustomer

LEMMA CreateKeeps ==
  ASSUME IInv, NEW m \in Messages, CreateState(m)
  PROVE  IInv'
<1>1. pc[m] = "createState" /\ UNCHANGED documents /\ UNCHANGED bounds /\ m \in Busy
  BY DEF CreateState, Busy
<1>2. updates' \in 0..MaxUpdates /\ faults' \in 0..MaxFaults /\ crashes' \in 0..MaxCrashes
  BY <1>1, BoundsSame DEF IInv
<1>3. CASE doc # None
  BY <1>1, <1>2, <1>3, RejectIsSound DEF CreateState
<1>4. CASE doc = None
  <2> DEFINE d == [State(m) EXCEPT !.id = opened + 1]
             x == [base |-> d, state |-> d, customer |-> None]
  <2>1. /\ doc' = d /\ opened' = opened + 1 /\ tries' = tries
        /\ mem' = [mem EXCEPT ![m] = x] /\ Go(m, "readCustomer")
    BY <1>4 DEF CreateState, Hold
  <2>2. opened \in Nat /\ State(m) \in DocumentType /\ State(m).decision = None
        /\ State(m).stage # Deciding /\ tries[m] < MaxAttempts
    BY <1>1, Typed DEF IInv, TypeOK, Budget, Resting, Sound, DecisionFinalizes,
              DecidedIsComplete, Unopened
  <2>3. /\ d \in DocumentType /\ d.id = opened + 1 /\ d.decision = None /\ d.stage # Deciding
    BY <2>2 DEF DocumentType
  <2> HIDE DEF d
  <2>4. x \in MemoryType /\ x # None /\ d # None
    BY <2>3, BotAssumption DEF MemoryType
  <2> HIDE DEF x
  <2>5. "readCustomer" \in Place
    BY DEF Place
  <2>6. /\ Attempting(Place, MemoryType)' /\ OthersStay(m)
        /\ pc'[m] = "readCustomer" /\ mem'[m] = x /\ tries'[m] = tries[m]
    BY <2>1, <2>4, <2>5, Typed DEF IInv, Attempting, Go, OthersStay
  <2>7. ConversationKept
    BY <2>1, <2>2, <2>3, <2>4 DEF ConversationKept
  <2>8. Conversations'
    <3>1. \A c \in 1..(opened + 1) : c = opened + 1 \/ c \in 1..opened
      BY <2>2
    <3>2. \A c \in 1..opened : Placed(c)
      BY <1>4 DEF IInv, Conversations
    <3>3. \A o \in 1..Len(orders) :
            /\ orders[o].conversation <= opened + 1 /\ orders[o].cancelledFor <= opened + 1
            /\ orders[o].conversation # 0 => orders[o].by \in Messages
      <4>1. \A o \in 1..Len(orders) : orders[o] \in OrderType
        BY DEF IInv, TypeOK, FinalizerTypeOK
      <4>2. \A o \in 1..Len(orders) :
              orders[o].conversation \in Nat /\ orders[o].cancelledFor \in Nat
        BY <4>1 DEF OrderType
      <4> QED
        BY <2>2, <4>2 DEF IInv, Conversations
    <3>4. orders' = orders
      BY <1>1 DEF documents
    <3> QED
      BY <2>1, <2>3, <2>4, <3>1, <3>2, <3>3, <3>4 DEF Conversations, Placed
  <2>9. Sound(m)'
    <3>1. d.id \in 1..opened'
      BY <2>1, <2>2, <2>3
    <3> QED
      BY <2>1, <2>3, <2>6, <3>1, CopySound DEF x
  <2> QED
    BY <1>1, <1>2, <2>1, <2>2, <2>3, <2>4, <2>6, <2>7, <2>8, <2>9, QuietStep DEF Resting
<1> QED
  BY <1>3, <1>4

(* With nothing missing the order has all it needs. *)
LEMMA NothingMissing ==
  ASSUME NEW d \in DocumentType, NEW c \in CustomerType,
         NEW next, next = FindNextMissingStage(d, c)
  PROVE  /\ next \in Asking \cup {None}
         /\ next = None => Complete(d, c) /\ Missing(d, c) = {}
<1>1. None \notin Asking
  BY BotAssumption
<1>2. next \in Asking \cup {None} /\ (next = None => Missing(d, c) = {})
  <2>1. Missing(d, c) \subseteq Slots
    BY DEF Missing
  <2>2. \A x \in Asking : x # None
    BY <1>1
  <2> QED
    BY <2>1, <2>2 DEF FindNextMissingStage, Asking, Slots
<1>3. Missing(d, c) = {} => Complete(d, c)
  <2>1. SUFFICES ASSUME Missing(d, c) = {}
                 PROVE  Complete(d, c)
    OBVIOUS
  <2>2. "name" \notin Missing(d, c) /\ "phone" \notin Missing(d, c) /\ "address" \notin Missing(d, c)
    BY <2>1
  <2> QED
    BY <2>2 DEF Missing, Complete, HasRealName, Slots
<1> QED
  BY <1>2, <1>3

(* An attempt goes on with the customer it has read, or with a copy to save. *)
LEMMA ReadSound ==
  ASSUME TypeOK, NEW m \in Messages, CopyIsOlder(m), DecisionFinalizes(m), Loaded(m),
         NEW c \in CustomerType, NEW s \in DocumentType,
         mem'[m] = [base |-> mem[m].base, state |-> s, customer |-> c],
         pc'[m] \in {"save", "openOrder", "details"},
         UNCHANGED documents, UNCHANGED conversation,
         \A f \in Details : c[f] # None => customer[f] # None,
         s.id = State(m).id, s.decision = State(m).decision,
         \A f \in Slots : s[f] = State(m)[f],
         s.decision # None => s.stage = Deciding /\ pc'[m] = "details",
         s.stage = Deciding => Complete(s, customer),
         pc'[m] # "save" => Complete(s, c)
  PROVE  Sound(m)'
<1>1. /\ mem'[m].base = mem[m].base /\ State(m)' = s /\ mem'[m].customer = c
      /\ customer' = customer /\ doc' = doc /\ opened' = opened
  BY DEF State, documents, conversation
<1>2. c # None
  BY BotAssumption
<1>3. Loaded(m)' /\ pc'[m] \notin Unopened \cup Placing
      /\ (pc'[m] \in Knowing \cup Finalizing => pc'[m] \in {"openOrder", "details"})
  BY DEF Loaded, Resting, Unopened, Knowing, Finalizing, Placing
<1>4. CopyIsOlder(m)'
  BY <1>1, <1>2, <1>3 DEF CopyIsOlder, Same
<1>5. DecisionFinalizes(m)'
  BY <1>1, <1>3 DEF DecisionFinalizes, Knowing, Finalizing
<1>6. pc'[m] # "save" => Whole(m)'
  <2>1. IsDraft(s)
    <3>1. \A f \in Details : s[f] \in Messages \cup {None}
      BY DEF DocumentType, Details
    <3> QED
      BY <3>1 DEF IsDraft, DocumentType
  <2> QED
    BY <1>1, <2>1 DEF Whole, IsDraft, Complete, Details
<1>7. DecidedIsComplete(m)'
  BY <1>1, <1>3, <1>6 DEF DecidedIsComplete, Ready, Complete, Finalizing
<1> QED
  BY <1>3, <1>4, <1>5, <1>7 DEF Sound

LEMMA ReadKeeps ==
  ASSUME IInv, NEW m \in Messages, ReadCustomer(m)
  PROVE  IInv'
<1>1. /\ pc[m] = "readCustomer" /\ UNCHANGED documents /\ UNCHANGED bounds
      /\ UNCHANGED conversation /\ tries' = tries
  BY DEF ReadCustomer
<1>2. /\ doc' \in DocumentType \cup {None} /\ opened' \in Nat
      /\ ConversationKept /\ Conversations'
      /\ updates' \in 0..MaxUpdates /\ faults' \in 0..MaxFaults /\ crashes' \in 0..MaxCrashes
  BY <1>1, ConversationSame, BoundsSame DEF IInv
<1> DEFINE d == State(m)
           next == FindNextMissingStage(d, customer)
<1>3. d \in DocumentType /\ mem[m] \in MemoryType /\ customer \in CustomerType
      /\ tries[m] < MaxAttempts /\ Attempting(Place, MemoryType)
  BY <1>1, Typed DEF IInv, TypeOK, FinalizerTypeOK, Budget, Resting
<1>4. CopyIsOlder(m) /\ DecisionFinalizes(m) /\ Loaded(m)
      /\ (d.decision # None => d.stage = Deciding)
      /\ (d.stage = Deciding => Complete(d, customer))
  BY <1>1 DEF IInv, Sound, DecisionFinalizes, DecidedIsComplete, Loaded, Unopened, Resting
<1>5. next \in Asking \cup {None} /\ (next = None => Complete(d, customer))
  BY <1>3, NothingMissing
<1>6. PICK s \in DocumentType, place \in {"details", "save", "openOrder"} :
        /\ Hold(m, mem[m].base, s, customer) /\ Go(m, place)
        /\ s.id = d.id /\ s.decision = d.decision
        /\ \A f \in Slots : s[f] = d[f]
        /\ s.decision # None => s.stage = Deciding /\ place = "details"
        /\ s.stage = Deciding => Complete(s, customer)
        /\ place # "save" => Complete(s, customer)
  <2>1. CASE d.stage = Deciding /\ d.decision # None
    BY <1>3, <1>4, <2>1 DEF ReadCustomer
  <2>2. CASE ~(d.stage = Deciding /\ d.decision # None) /\ next # None
    <3>1. d.decision = None /\ next \in Asking /\ next # Deciding
      BY <1>4, <1>5, <2>2 DEF Asking, Deciding
    <3> DEFINE e == [d EXCEPT !.stage = next]
    <3>2. Hold(m, mem[m].base, e, customer) /\ Go(m, "save")
      BY <2>2 DEF ReadCustomer
    <3> HIDE DEF next, d
    <3>3. /\ e \in DocumentType /\ e.id = d.id /\ e.decision = d.decision /\ e.stage = next
          /\ \A f \in Slots : e[f] = d[f]
      BY <1>3, <3>1 DEF DocumentType, Slots
    <3> QED
      BY <3>1, <3>2, <3>3
  <2>3. CASE ~(d.stage = Deciding /\ d.decision # None) /\ next = None
    <3>1. d.decision = None /\ Complete(d, customer)
      BY <1>4, <1>5, <2>3
    <3>2. /\ Hold(m, mem[m].base, d, customer)
          /\ Go(m, IF d.pending = None THEN "openOrder" ELSE "details")
      BY <2>3 DEF ReadCustomer
    <3> QED
      BY <1>3, <3>1, <3>2
  <2> QED
    BY <2>1, <2>2, <2>3
<1> DEFINE x == [base |-> mem[m].base, state |-> s, customer |-> customer]
<1>7. mem' = [mem EXCEPT ![m] = x]
  BY <1>6 DEF Hold
<1>8. x \in MemoryType /\ x # None
  BY <1>3, <1>6, BotAssumption DEF MemoryType
<1> HIDE DEF x, d
<1>9. place \in Place /\ place \notin Resting \cup {"count"}
  BY <1>6 DEF Place, Finalizing, Resting
<1>10. /\ Attempting(Place, MemoryType)' /\ OthersStay(m)
       /\ pc'[m] = place /\ mem'[m] = x /\ tries'[m] = tries[m]
  BY <1>1, <1>3, <1>6, <1>7, <1>8, <1>9 DEF Attempting, Go, OthersStay
<1>11. Sound(m)'
  BY <1>1, <1>3, <1>4, <1>6, <1>10, ReadSound DEF x, d, IInv
<1> QED
  BY <1>1, <1>2, <1>3, <1>8, <1>9, <1>10, <1>11, QuietStep

LEMMA OpenKeeps ==
  ASSUME IInv, NEW m \in Messages, FindOpenOrder(m)
  PROVE  IInv'
<1>1. /\ pc[m] = "openOrder" /\ UNCHANGED documents /\ UNCHANGED bounds
      /\ UNCHANGED conversation /\ tries' = tries
  BY DEF FindOpenOrder
<1>2. /\ doc' \in DocumentType \cup {None} /\ opened' \in Nat
      /\ ConversationKept /\ Conversations'
      /\ updates' \in 0..MaxUpdates /\ faults' \in 0..MaxFaults /\ crashes' \in 0..MaxCrashes
  BY <1>1, ConversationSame, BoundsSame DEF IInv
<1> DEFINE d == State(m)
           c == mem[m].customer
<1>3. d \in DocumentType /\ mem[m] \in MemoryType /\ tries[m] < MaxAttempts
      /\ Attempting(Place, MemoryType) /\ mem[m] # None
  BY <1>1, Typed, BotAssumption DEF IInv, Budget, Resting
<1>4. CopyIsOlder(m) /\ DecisionFinalizes(m) /\ Loaded(m) /\ Whole(m)
  BY <1>1 DEF IInv, Sound, DecidedIsComplete, Loaded, Unopened, Resting
<1>5. c # None /\ c \in CustomerType /\ Complete(d, c)
      /\ \A f \in Details : c[f] # None => customer[f] # None
  BY <1>1, <1>4 DEF CopyIsOlder, Knowing, Whole, Complete
<1> DEFINE Found(s, place) ==
             /\ mem' = [mem EXCEPT ![m] = [base |-> mem[m].base, state |-> s, customer |-> c]]
             /\ Go(m, place)
             /\ s.id = d.id /\ s.decision = d.decision
             /\ \A f \in Slots : s[f] = d[f]
             /\ s.stage = d.stage \/ place = "save"
<1>6. PICK s \in DocumentType, place \in {"details", "save"} : Found(s, place)
  <2>1. CASE UNCHANGED mem /\ Go(m, "details")
    <3>1. mem[m] = [base |-> mem[m].base, state |-> d, customer |-> c]
      BY <1>3 DEF MemoryType, State
    <3>2. mem' = [mem EXCEPT ![m] = [base |-> mem[m].base, state |-> d, customer |-> c]]
      BY <1>3, <2>1, <3>1 DEF Attempting
    <3> QED
      BY <1>3, <2>1, <3>2
  <2>2. ASSUME NEW o \in 1..Len(orders), Go(m, "save"),
               mem' = [mem EXCEPT ![m].state.pending = o, ![m].state.stage = Deciding]
        PROVE  \E s \in DocumentType, place \in {"details", "save"} : Found(s, place)
    <3> DEFINE e == [d EXCEPT !.pending = o, !.stage = Deciding]
    <3>1. o \in Nat
      BY <2>2
    <3>2. mem' = [mem EXCEPT ![m] = [base |-> mem[m].base, state |-> e, customer |-> c]]
      <4> DEFINE y == mem[m]
                 z == [y EXCEPT !.state = [y.state EXCEPT !.pending = o]]
      <4>1. mem' = [mem EXCEPT ![m] = [z EXCEPT !.state = [z.state EXCEPT !.stage = Deciding]]]
        BY <1>3, <2>2 DEF Attempting
      <4>2. z = [base |-> y.base, state |-> [y.state EXCEPT !.pending = o], customer |-> y.customer]
        BY <1>3 DEF MemoryType
      <4> HIDE DEF y, z
      <4>3. [z EXCEPT !.state = [z.state EXCEPT !.stage = Deciding]] =
            [base |-> y.base, state |-> [[y.state EXCEPT !.pending = o] EXCEPT !.stage = Deciding],
             customer |-> y.customer]
        BY <4>2
      <4> QED
        BY <4>1, <4>3 DEF y, State
    <3> HIDE DEF d
    <3>3. e \in DocumentType /\ e.id = d.id /\ e.decision = d.decision
          /\ \A f \in Slots : e[f] = d[f]
      BY <1>3, <3>1 DEF DocumentType, Slots
    <3> QED
      BY <2>2, <3>2, <3>3
  <2> QED
    BY <2>1, <2>2 DEF FindOpenOrder
<1> DEFINE x == [base |-> mem[m].base, state |-> s, customer |-> c]
<1>7. x \in MemoryType /\ x # None
  BY <1>3, <1>5, <1>6, BotAssumption DEF MemoryType
<1> HIDE DEF x, d, c
<1>8. place \in Place /\ place \notin Resting \cup {"count"}
  BY <1>6 DEF Place, Finalizing, Resting
<1>9. /\ Attempting(Place, MemoryType)' /\ OthersStay(m)
      /\ pc'[m] = place /\ mem'[m] = x /\ tries'[m] = tries[m]
  BY <1>1, <1>3, <1>6, <1>7, <1>8 DEF Attempting, Go, OthersStay, x
<1>10. Sound(m)'
  <2>1. s.decision = None
    BY <1>1, <1>4, <1>6 DEF DecisionFinalizes, Finalizing, d
  <2>2. Complete(s, c)
    BY <1>5, <1>6 DEF Complete, Slots
  <2>3. Complete(s, customer)
    BY <1>5, <2>2 DEF Complete, Details
  <2>4. pc'[m] \in {"save", "openOrder", "details"}
    BY <1>6, <1>9
  <2>5. TypeOK /\ \A f \in Slots : s[f] = State(m)[f]
    BY <1>6 DEF IInv, d
  <2>6. s.id = State(m).id /\ s.decision = State(m).decision
    BY <1>6 DEF d
  <2>7. mem'[m] = [base |-> mem[m].base, state |-> s, customer |-> c]
    BY <1>9 DEF x
  <2> HIDE DEF Found
  <2> QED
    BY <1>1, <1>4, <1>5, <2>1, <2>2, <2>3, <2>4, <2>5, <2>6, <2>7, ReadSound
<1> QED
  BY <1>1, <1>2, <1>3, <1>7, <1>8, <1>9, <1>10, QuietStep

(* What is saved is a document of the same conversation, with at least the *)
(* slots filled that were.                                                 *)
LEMMA SavedType ==
  ASSUME NEW m \in Messages, doc \in DocumentType, State(m) \in DocumentType,
         mem[m].base \in DocumentType
  PROVE  /\ Saved(m) \in DocumentType
         /\ \A f \in Slots \cup {"id", "stage", "emailAsked", "pending", "decision"} :
              Saved(m)[f] = IF State(m)[f] # mem[m].base[f] THEN State(m)[f] ELSE doc[f]
<1> DEFINE pick(f) == IF State(m)[f] # mem[m].base[f] THEN State(m)[f] ELSE doc[f]
           fields == {"id", "stage", "name", "phone", "product", "quantity", "address",
                      "email", "emailAsked", "pending", "decision"}
<1>1. DOMAIN doc = fields
  BY DEF DocumentType
<1>2. Saved(m) = [f \in fields |-> pick(f)]
  BY <1>1 DEF Saved
<1>3. \A f \in fields : Saved(m)[f] = pick(f)
  BY <1>2
<1>4. /\ pick("id") \in Nat \ {0} /\ pick("stage") \in Asking \cup {Deciding}
      /\ pick("name") \in Messages \cup {None} /\ pick("phone") \in Messages \cup {None}
      /\ pick("product") \in Messages \cup {None} /\ pick("quantity") \in Nat \cup {None}
      /\ pick("address") \in Messages \cup {None} /\ pick("email") \in Messages \cup {None}
      /\ pick("emailAsked") \in BOOLEAN /\ pick("pending") \in Nat \cup {None}
      /\ pick("decision") \in {None, "keep", "replace"}
  BY DEF DocumentType
<1> HIDE DEF pick
<1>5. Saved(m) =
        [id |-> pick("id"), stage |-> pick("stage"), name |-> pick("name"),
         phone |-> pick("phone"), product |-> pick("product"), quantity |-> pick("quantity"),
         address |-> pick("address"), email |-> pick("email"),
         emailAsked |-> pick("emailAsked"), pending |-> pick("pending"),
         decision |-> pick("decision")]
  BY <1>2
<1>6. Saved(m) \in DocumentType
  BY <1>4, <1>5 DEF DocumentType
<1> QED
  BY <1>3, <1>6 DEF pick, Slots

LEMMA SaveKeeps ==
  ASSUME IInv, NEW m \in Messages, SaveState(m)
  PROVE  IInv'
<1>1. /\ pc[m] = "save" /\ UNCHANGED documents /\ UNCHANGED bounds /\ opened' = opened
      /\ m \in Busy
  BY DEF SaveState, Busy
<1>2. updates' \in 0..MaxUpdates /\ faults' \in 0..MaxFaults /\ crashes' \in 0..MaxCrashes
      /\ opened \in Nat
  BY <1>1, BoundsSame DEF IInv, TypeOK
<1>3. CASE ~Same(m)
  <2>1. Reject(m) /\ UNCHANGED conversation
    BY <1>1, <1>3 DEF SaveState, Same, conversation
  <2> QED
    BY <1>1, <1>2, <2>1, RejectIsSound
<1>4. CASE Same(m)
  <2>1. doc' = Saved(m) /\ Finish(m)
    BY <1>4 DEF SaveState, Same
  <2>2. /\ State(m) \in DocumentType /\ mem[m] \in MemoryType
        /\ Attempting(Place, MemoryType) /\ Resting \subseteq Place
    BY <1>1, Typed DEF IInv, Resting
  <2>3. Loaded(m) /\ CopyIsOlder(m) /\ DecisionFinalizes(m) /\ DecidedIsComplete(m)
    BY <1>1 DEF IInv, Sound, Loaded, Unopened, Resting
  <2>4. /\ mem[m].base # None /\ State(m).id = mem[m].base.id
        /\ mem[m].base.decision = None /\ State(m).decision = None
        /\ State(m).stage = Deciding => Complete(State(m), customer)
    BY <1>1, <2>3 DEF CopyIsOlder, DecisionFinalizes, DecidedIsComplete, Finalizing
  <2>5. /\ doc \in DocumentType /\ doc.id = opened /\ doc.decision = None
        /\ doc.stage = Deciding => Complete(doc, customer)
    BY <1>4 DEF IInv, TypeOK, Conversations, Same
  <2>6. mem[m].base \in DocumentType
    BY <2>2, <2>4 DEF MemoryType
  <2>7. /\ doc' \in DocumentType
        /\ \A f \in Slots \cup {"id", "stage", "pending", "decision"} :
             doc'[f] = IF State(m)[f] # mem[m].base[f] THEN State(m)[f] ELSE doc[f]
    BY <2>1, <2>2, <2>5, <2>6, SavedType
  <2>8. doc' # None /\ doc'.id = doc.id /\ doc'.decision = None
        /\ (doc'.stage = Deciding => State(m).stage = Deciding \/ doc.stage = Deciding)
    BY <2>4, <2>5, <2>7, BotAssumption
  <2>9. \A f \in Slots : doc[f] # None \/ State(m)[f] # None => doc'[f] # None
    <3>1. \A f \in Slots : State(m)[f] # mem[m].base[f] => State(m)[f] # None
      BY <2>3 DEF CopyIsOlder
    <3>2. \A f \in Slots : mem[m].base[f] # None => doc[f] # None
      BY <1>4, <2>3 DEF CopyIsOlder
    <3> QED
      BY <2>7, <3>1, <3>2
  <2>10. ConversationKept
    BY <1>1, <1>2, <1>4, <2>8, <2>9 DEF ConversationKept, Same
  <2>11. Conversations'
    <3>1. doc'.stage = Deciding => Complete(doc', customer')
      BY <1>1, <2>4, <2>5, <2>8, <2>9 DEF Complete, documents, Slots
    <3>2. doc # None
      BY <1>4 DEF Same
    <3> QED
      BY <1>1, <2>5, <2>8, <3>1, <3>2 DEF IInv, Conversations, Placed, documents
  <2>12. Attempting(Place, MemoryType)' /\ Ends(m) /\ tries'[m] < MaxAttempts
    BY <1>1, <2>1, <2>2, FinishStep DEF IInv, Budget
  <2> QED
    BY <1>1, <1>2, <2>7, <2>10, <2>11, <2>12, EndStep
<1> QED
  BY <1>3, <1>4

LEMMA DeleteKeeps ==
  ASSUME IInv, NEW m \in Messages, DeleteState(m)
  PROVE  IInv'
<1>1. /\ pc[m] = "finalized" /\ UNCHANGED documents /\ UNCHANGED bounds /\ opened' = opened
      /\ Finish(m) /\ doc' = IF Same(m) THEN None ELSE doc
  BY DEF DeleteState, Same
<1>2. /\ updates' \in 0..MaxUpdates /\ faults' \in 0..MaxFaults /\ crashes' \in 0..MaxCrashes
      /\ opened \in Nat /\ doc' \in DocumentType \cup {None}
      /\ Attempting(Place, MemoryType) /\ Resting \subseteq Place
  BY <1>1, BoundsSame, Typed DEF IInv, TypeOK
<1>3. ConversationKept
  BY <1>1, <1>2 DEF ConversationKept
<1>4. Conversations'
  <2>1. Placed(State(m).id)
    BY <1>1 DEF IInv, Sound, Placing
  <2>2. doc # None => doc.id = opened
    BY DEF IInv, Conversations
  <2> QED
    BY <1>1, <2>1, <2>2 DEF IInv, Conversations, Placed, documents, Same
<1>5. Attempting(Place, MemoryType)' /\ Ends(m) /\ tries'[m] < MaxAttempts
  BY <1>1, <1>2, FinishStep DEF IInv, Budget
<1> QED
  BY <1>1, <1>2, <1>3, <1>4, <1>5, EndStep

----------------------------------------------------------------------------
(* The steps of finalizeOrder and of the environment. *)

LEMMA FinalizerKeeps ==
  ASSUME IInv, NEW m \in Messages, FinalizerStep(m), UNCHANGED conversation
  PROVE  IInv'
<1>1. /\ Attempting(Place, MemoryType) /\ FinalizerTypeOK
      /\ Resting \cup Finalizing \cup {"finalized"} \subseteq Place
  BY Typed DEF IInv
<1>2. \A n \in Messages : Ready(n)
  BY DEF IInv, Sound, DecidedIsComplete
<1>3. pc[m] \in Finalizing
  BY DEF FinalizerStep, UpdateCustomerDetails, CancelRead, CancelSave, CancelLog,
         CreateOrder, IncrementOrderCount, Notify, Finalizing
<1>4. tries[m] < MaxAttempts
  BY <1>3 DEF IInv, Budget, Finalizing
<1>5. FinalizerTypeOK' /\ OrdersAreComplete' /\ Ready(m)'
  BY <1>1, <1>2, <1>4, FinalizerSound DEF IInv
<1>6. Counted'
  BY <1>1, <1>2, <1>4, FinalizerCounts DEF IInv
<1>7. /\ Attempting(Place, MemoryType)'
      /\ \/ pc[m] = "create" /\ ~OrderValidates(NewOrder(m)) /\ Reject(m)
         \/ /\ pc'[m] \in After(pc[m]) /\ mem' = mem /\ tries' = tries
            /\ OthersStay(m) /\ (pc[m] = "create" => OrderValidates(NewOrder(m)))
  BY <1>1, <1>4, FinalizerGoes
<1>8. /\ UNCHANGED bounds /\ OrdersKept /\ CustomerKept
      /\ \/ orders' = orders /\ (pc[m] = "create" => ~OrderValidates(NewOrder(m)))
         \/ /\ pc[m] = "create" /\ OrderValidates(NewOrder(m)) /\ NewOrder(m) \in OrderType
            /\ orders' = Append(orders, NewOrder(m))
         \/ /\ pc[m] = "cancelSave" /\ Len(orders') = Len(orders)
            /\ \A o \in 1..Len(orders) :
                 orders'[o].cancelledFor \in {orders[o].cancelledFor, State(m).id}
  BY <1>1, <1>2, FinalizerWrites
<1>9. /\ doc' \in DocumentType \cup {None} /\ opened' \in Nat /\ ConversationKept
      /\ doc' = doc /\ opened' = opened /\ (UNCHANGED documents => Conversations')
      /\ updates' \in 0..MaxUpdates /\ faults' \in 0..MaxFaults /\ crashes' \in 0..MaxCrashes
  BY <1>8, ConversationSame, BoundsSame DEF IInv, conversation
<1>10. /\ Whole(m) /\ Loaded(m) /\ CopyIsOlder(m) /\ State(m).id \in 1..opened /\ opened \in Nat
       /\ Sound(m)
  BY <1>2, <1>3 DEF Ready, IInv, Sound, CopyIsOlder, Loaded, Finalizing, Resting, Unopened, TypeOK
<1>11. orders \in Seq(OrderType) /\ orders' \in Seq(OrderType) /\ customer' \in CustomerType
  BY <1>1, <1>5 DEF FinalizerTypeOK
<1>12. Conversations'
  <2>1. \A c : Placed(c) => Placed(c)'
    BY <1>8, <1>11 DEF Placed, OrdersKept, Lasting
  <2>2. \A o \in 1..Len(orders') :
          /\ orders'[o].conversation <= opened /\ orders'[o].cancelledFor <= opened
          /\ orders'[o].conversation # 0 => orders'[o].by \in Messages
    <3>1. CASE orders' = orders
      BY <3>1 DEF IInv, Conversations
    <3>2. CASE /\ Len(orders') = Len(orders)
               /\ \A o \in 1..Len(orders) :
                    orders'[o].cancelledFor \in {orders[o].cancelledFor, State(m).id}
      <4>1. State(m).id <= opened
        BY <1>10
      <4>2. \A o \in 1..Len(orders) :
              orders'[o].conversation = orders[o].conversation /\ orders'[o].by = orders[o].by
        BY <1>8 DEF OrdersKept, Lasting
      <4> QED
        BY <3>2, <4>1, <4>2 DEF IInv, Conversations
    <3>3. CASE /\ OrderValidates(NewOrder(m)) /\ orders' = Append(orders, NewOrder(m))
               /\ NewOrder(m) \in OrderType
      <4>1. /\ NewOrder(m).conversation = State(m).id /\ NewOrder(m).cancelledFor = 0
            /\ NewOrder(m).by = m
        BY <1>10, <3>3, NewOrderType
      <4>2. /\ Len(orders') = Len(orders) + 1 /\ orders'[Len(orders) + 1] = NewOrder(m)
            /\ \A o \in 1..Len(orders) : orders'[o] = orders[o]
        BY <1>11, <3>3
      <4>3. \A o \in 1..Len(orders') : o \in 1..Len(orders) \/ o = Len(orders) + 1
        BY <1>11, <4>2
      <4>4. State(m).id <= opened /\ 0 <= opened
        BY <1>10
      <4> QED
        BY <4>1, <4>2, <4>3, <4>4 DEF IInv, Conversations
    <3> QED
      BY <1>8, <3>1, <3>2, <3>3
  <2>3. doc # None /\ doc.stage = Deciding => Complete(doc, customer')
    BY <1>8 DEF IInv, Conversations, Complete, CustomerKept, Details
  <2> QED
    BY <1>9, <2>1, <2>2, <2>3 DEF IInv, Conversations
<1>13. CASE pc[m] = "create" /\ ~OrderValidates(NewOrder(m)) /\ Reject(m)
  <2>1. Ends(m) /\ (pc'[m] = "queued" => tries'[m] < MaxAttempts)
        /\ pc'[m] \in {"queued", "failed"}
    BY <1>1, <1>4, <1>13, RejectStep
  <2>2. Sound(m)'
    BY <2>1, RestIsSound DEF Ends
  <2> QED
    BY <1>5, <1>6, <1>7, <1>8, <1>9, <1>11, <1>12, <2>1, <2>2, SoundStep DEF Ends
<1>14. CASE /\ pc'[m] \in After(pc[m]) /\ mem' = mem /\ tries' = tries
            /\ OthersStay(m) /\ (pc[m] = "create" => OrderValidates(NewOrder(m)))
  <2>1. pc'[m] \in (Finalizing \ {"details"}) \cup {"finalized"}
        /\ (pc'[m] \in Placing => pc[m] \in Placing \cup {"create"})
    BY <1>3, <1>14 DEF After, Finalizing, Placing
  <2>2. /\ State(m)' = State(m) /\ Loaded(m)' /\ pc'[m] \in Knowing
        /\ pc'[m] \notin Resting \cup Unopened \cup {"openOrder"}
    BY <1>14, <2>1 DEF State, Loaded, Knowing, Finalizing, Resting, Unopened
  <2>3. CopyIsOlder(m)'
    <3>1. mem[m].customer # None
      BY <1>3, <1>10 DEF CopyIsOlder, Knowing
    <3>2. \A f \in Details : mem[m].customer[f] # None => customer'[f] # None
      BY <1>8, <1>10, <3>1 DEF CopyIsOlder, CustomerKept
    <3>3. Same(m)' <=> Same(m)
      BY <1>9, <2>2 DEF Same
    <3> QED
      BY <1>9, <1>10, <1>14, <2>2, <3>1, <3>2, <3>3 DEF CopyIsOlder
  <2>4. DecisionFinalizes(m)'
    BY <1>10, <1>14, <2>1, <2>2 DEF Sound, DecisionFinalizes
  <2>5. DecidedIsComplete(m)'
    <3>1. State(m).stage = Deciding => Complete(State(m), customer')
      BY <1>8, <1>10 DEF Sound, DecidedIsComplete, Complete, CustomerKept, Details
    <3> QED
      BY <1>5, <2>2, <3>1 DEF DecidedIsComplete, Complete
  <2>6. pc'[m] \in Placing => Placed(State(m).id)'
    <3>1. CASE pc[m] \in Placing
      BY <1>8, <1>10, <1>11, <2>2, <3>1 DEF Sound, Placed, OrdersKept, Lasting
    <3>2. CASE pc[m] = "create"
      <4>1. orders' = Append(orders, NewOrder(m)) /\ OrderValidates(NewOrder(m))
        BY <1>8, <1>14, <3>2
      <4>2. NewOrder(m).conversation = State(m).id /\ NewOrder(m) \in OrderType
        BY <1>10, <4>1, NewOrderType
      <4>3. Len(orders') = Len(orders) + 1 /\ orders'[Len(orders) + 1] = NewOrder(m)
            /\ Len(orders) + 1 \in 1..Len(orders')
        BY <1>11, <4>1, <4>2
      <4> QED
        BY <2>2, <4>2, <4>3 DEF Placed
    <3> QED
      BY <2>1, <3>1, <3>2
  <2>7. Sound(m)'
    BY <2>2, <2>3, <2>4, <2>5, <2>6 DEF Sound
  <2>8. mem'[m] # None /\ tries'[m] < MaxAttempts
    BY <1>4, <1>10, <1>14 DEF IInv, TypeOK, Running, Loaded
  <2> QED
    BY <1>5, <1>6, <1>7, <1>8, <1>9, <1>11, <1>12, <1>14, <2>2, <2>7, <2>8, SoundStep
<1> QED
  BY <1>7, <1>13, <1>14

LEMMA StaffKeeps ==
  ASSUME IInv, StaffStep, UNCHANGED conversation
  PROVE  IInv'
<1>1. /\ FinalizerTypeOK' /\ OrdersKept /\ CustomerKept /\ Len(orders') = Len(orders)
      /\ customer' = customer /\ pc' = pc /\ mem' = mem /\ tries' = tries
      /\ \A o \in 1..Len(orders) : orders'[o].cancelledFor = orders[o].cancelledFor
  BY StaffWrites DEF IInv, TypeOK, attempts
<1>2. /\ doc' \in DocumentType \cup {None} /\ opened' \in Nat /\ ConversationKept
      /\ doc' = doc /\ opened' = opened
  BY ConversationSame DEF IInv, conversation
<1>3. TypeOK'
  BY <1>1, <1>2 DEF IInv, TypeOK, Running
<1>4. Budget'
  BY <1>1 DEF IInv, Budget
<1>5. OrdersAreComplete'
  BY <1>1, CompleteKept DEF IInv, TypeOK
<1>6. Counted'
  BY <1>1, CountedKept DEF IInv, TypeOK
<1>7. Conversations'
  <2>1. \A o \in 1..Len(orders) :
          orders'[o].conversation = orders[o].conversation /\ orders'[o].by = orders[o].by
    BY <1>1 DEF OrdersKept, Lasting
  <2>2. \A c : Placed(c) => Placed(c)'
    BY <1>1, <2>1 DEF Placed
  <2> QED
    BY <1>1, <1>2, <2>1, <2>2 DEF IInv, Conversations, Complete
<1>8. ASSUME NEW n \in Messages
      PROVE  Sound(n)'
  BY <1>1, <1>2, SoundKept DEF IInv
<1> QED
  BY <1>3, <1>4, <1>5, <1>6, <1>7, <1>8 DEF IInv

LEMMA CrashKeeps ==
  ASSUME IInv, Crash, UNCHANGED conversation
  PROVE  IInv'
<1>1. /\ Attempting(Place, MemoryType) /\ FinalizerTypeOK /\ Resting \subseteq Place
  BY Typed DEF IInv
<1>2. /\ Attempting(Place, MemoryType)'
      /\ \A n \in Messages :
           /\ mem'[n] = None /\ n \notin Running'
           /\ pc'[n] = IF n \in Busy THEN "queued" ELSE pc[n]
  BY <1>1, CrashStep
<1>3. /\ UNCHANGED documents /\ tries' = tries /\ updates' = updates /\ faults' = faults
      /\ crashes' \in 0..MaxCrashes
  BY <1>1, FinalizerAssumption DEF Crash, FinalizerTypeOK
<1>4. /\ doc' \in DocumentType \cup {None} /\ opened' \in Nat /\ Conversations'
  BY <1>3, ConversationSame DEF IInv
<1>5. FinalizerTypeOK'
  BY <1>1, <1>3 DEF FinalizerTypeOK, documents
<1>6. TypeOK'
  BY <1>2, <1>4, <1>5 DEF TypeOK, Attempting
<1>7. Budget'
  BY <1>2, <1>3 DEF IInv, Budget, Busy
<1>8. OrdersKept /\ CustomerKept /\ Len(orders') = Len(orders)
  BY <1>1, <1>3 DEF OrdersKept, CustomerKept, documents, FinalizerTypeOK
<1>9. OrdersAreComplete'
  BY <1>1, <1>8, CompleteKept DEF IInv
<1>10. Counted'
  <2>1. \A n \in Messages : pc'[n] = "count" => pc[n] = "count"
    BY <1>2
  <2> QED
    BY <1>1, <1>3, <1>8, <2>1, CountedKept DEF IInv, documents
<1>11. \A n \in Messages : Sound(n)'
  <2>1. \A n \in Messages : pc'[n] \in Resting
    BY <1>2 DEF Busy, Resting
  <2> QED
    BY <2>1, RestIsSound
<1> QED
  BY <1>4, <1>6, <1>7, <1>9, <1>10, <1>11 DEF IInv

LEMMA InitHolds ==
  ASSUME Init
  PROVE  IInv
<1> USE FinalizerAssumption
<1>1. /\ pc = [m \in Messages |-> "queued"] /\ mem = [m \in Messages |-> None]
      /\ tries = [m \in Messages |-> 0] /\ updates = 0 /\ faults = 0 /\ crashes = 0
      /\ doc = None /\ opened = 0
  BY DEF Init, InitFinalizer
<1>2. PICK known \in Acquaintance : Met(known)
  BY DEF Init, InitFinalizer
<1>3. EarlierOrder \in OrderType
  BY DEF EarlierOrder, OrderType, Status, Open
<1>4. /\ customer \in CustomerType /\ customer.totalOrders = 0
      /\ orders \in Seq(OrderType)
      /\ \A o \in 1..Len(orders) : orders[o] = EarlierOrder /\ customer.name # None
  <2>1. customer \in CustomerType /\ customer.totalOrders = 0
    BY <1>2 DEF Met, CustomerType
  <2>2. CASE orders = <<>>
    BY <2>1, <2>2
  <2>3. CASE {"name", "phone", "address"} \subseteq known /\ orders = <<EarlierOrder>>
    <3>1. customer.name = Earlier
      BY <1>2, <2>3 DEF Met
    <3>2. Len(orders) = 1 /\ orders[1] = EarlierOrder
      BY <2>3
    <3> QED
      BY <1>3, <2>1, <2>3, <3>1, <3>2
  <2> QED
    BY <1>2, <2>2, <2>3 DEF Met
<1>5. TypeOK
  BY <1>1, <1>4 DEF TypeOK, FinalizerTypeOK, Place, Resting, Running
<1>6. Budget
  BY <1>1 DEF Budget
<1>7. Conversations
  BY <1>1, <1>4 DEF Conversations, EarlierOrder
<1>8. OrdersAreComplete
  BY <1>4 DEF OrdersAreComplete, EarlierOrder
<1>9. Counted
  <2>1. Counting = {} /\ OrdersOfBot = {}
    BY <1>1, <1>4 DEF Counting, OrdersOfBot, EarlierOrder
  <2> QED
    BY <1>4, <2>1, FS_EmptySet DEF Counted
<1>10. \A m \in Messages : Sound(m)
  BY <1>1 DEF Sound, CopyIsOlder, DecisionFinalizes, DecidedIsComplete, Ready, Loaded, Resting,
              Unopened, Placing, Finalizing
<1> QED
  BY <1>5, <1>6, <1>7, <1>8, <1>9, <1>10 DEF IInv

LEMMA Inductive ==
  ASSUME IInv, [Next]_vars
  PROVE  IInv'
<1>1. CASE UNCHANGED vars
  <2>1. \A n \in Messages : Sound(n)' <=> Sound(n)
    BY <1>1 DEF vars, Sound, CopyIsOlder, DecisionFinalizes, DecidedIsComplete, Ready, Loaded,
                Whole, Complete, Placed, State, Same
  <2>2. (TypeOK' <=> TypeOK) /\ (Budget' <=> Budget)
    BY <1>1 DEF vars, TypeOK, FinalizerTypeOK, Budget, Running
  <2>3. (Conversations' <=> Conversations) /\ (OrdersAreComplete' <=> OrdersAreComplete)
    BY <1>1 DEF vars, Conversations, OrdersAreComplete, Complete, Placed
  <2>4. Counted' <=> Counted
    BY <1>1 DEF vars, Counted, Counting, OrdersOfBot
  <2> QED
    BY <2>1, <2>2, <2>3, <2>4 DEF IInv
<1>2. ASSUME NEW m \in Messages, BotStep(m)
      PROVE  IInv'
  BY <1>2, LoadKeeps, FindKeeps, InsertKeeps, CreateKeeps, ReadKeeps, OpenKeeps, SaveKeeps,
     DeleteKeeps DEF BotStep
<1>3. ASSUME NEW m \in Messages,
             (FinalizerStep(m) \/ Settle(m) \/ Fault(m)) /\ UNCHANGED conversation
      PROVE  IInv'
  BY <1>3, FinalizerKeeps, SettleKeeps, FaultKeeps
<1>4. CASE (Crash \/ StaffStep) /\ UNCHANGED conversation
  BY <1>4, CrashKeeps, StaffKeeps
<1> QED
  BY <1>1, <1>2, <1>3, <1>4 DEF Next

(* The invariant of the bot, at any number of workers and with any         *)
(* failures: of conversationBot.service.ts:30-161 and orderFinalizer.ts.   *)
THEOREM Invariance == Spec => []IInv
<1>1. Init => IInv
  BY InitHolds
<1>2. IInv /\ [Next]_vars => IInv'
  BY Inductive
<1> QED
  BY <1>1, <1>2, PTL DEF Spec

(* Every variable of the bot keeps its type. *)
THEOREM TypeCorrect == Spec => []TypeOK
<1>1. IInv => TypeOK
  BY DEF IInv
<1> QED
  BY <1>1, Invariance, PTL

(* Every order the bot places has a name, a phone and an address to go to, *)
(* though the schema asks for none of them and the draft is an old copy.   *)
THEOREM Completeness == Spec => []OrdersAreComplete
<1>1. IInv => OrdersAreComplete
  BY DEF IInv
<1> QED
  BY <1>1, Invariance, PTL

(* No order is cancelled, and none counted, without one to show for it.    *)
THEOREM Coverage == Spec => []CustomerIsCovered
<1>1. IInv => CounterNeverAhead
  BY CountedCounts DEF IInv, TypeOK
<1>2. IInv => CancelledIsCovered
  <2>1. SUFFICES ASSUME IInv, NEW o \in 1..Len(orders), orders[o].cancelledFor # 0
                 PROVE  \/ doc # None /\ doc.id = orders[o].cancelledFor
                        \/ \E p \in 1..Len(orders) :
                             orders[p].conversation = orders[o].cancelledFor
    BY DEF CancelledIsCovered
  <2>2. orders[o] \in OrderType /\ opened \in Nat
    BY <2>1 DEF IInv, TypeOK, FinalizerTypeOK
  <2>3. orders[o].cancelledFor \in 1..opened
    BY <2>1, <2>2 DEF IInv, Conversations, OrderType
  <2> QED
    BY <2>1, <2>3 DEF IInv, Conversations, Placed
<1>3. IInv => CustomerIsCovered
  BY <1>1, <1>2 DEF CustomerIsCovered
<1> QED
  BY <1>3, Invariance, PTL

----------------------------------------------------------------------------
(* The bot keeps the promise of OrderIntake. *)

Current == IF doc = None THEN 0 ELSE doc.id
Filled == IF doc = None THEN {} ELSE {s \in Slots : doc[s] # None}
PlacedOnes == {orders[o].conversation : o \in OrdersOfBot}

(* No order but of the conversations there have been, and none goes away.  *)
LEMMA PlacedStay ==
  ASSUME TypeOK, OrdersKept, Len(orders') = Len(orders)
  PROVE  PlacedOnes' = PlacedOnes
<1>1. \A o \in 1..Len(orders) : orders'[o].conversation = orders[o].conversation
  BY DEF OrdersKept, Lasting
<1>2. OrdersOfBot' = OrdersOfBot
  BY <1>1 DEF OrdersOfBot
<1>3. \A o \in OrdersOfBot : orders'[o].conversation = orders[o].conversation
  BY <1>1 DEF OrdersOfBot
<1> QED
  BY <1>2, <1>3 DEF PlacedOnes

LEMMA SameOrders ==
  ASSUME orders' = orders
  PROVE  PlacedOnes' = PlacedOnes
BY DEF PlacedOnes, OrdersOfBot

LEMMA BotIntake ==
  ASSUME IInv, NEW m \in Messages, BotStep(m)
  PROVE  Intake!Next \/ UNCHANGED Intake!intake
<1>1. PlacedOnes' = PlacedOnes
  BY SameOrders DEF BotStep, LoadState, FindCustomer, InsertCustomer, AddCustomer, CreateState,
     ReadCustomer, FindOpenOrder, SaveState, DeleteState, documents
<1>2. opened \in Nat /\ (doc # None => doc \in DocumentType /\ doc.id # 0)
  BY DEF IInv, TypeOK, DocumentType
<1>3. CASE doc' = doc /\ opened' = opened
  BY <1>1, <1>3 DEF PlacedOnes, Intake!intake
<1>4. CASE CreateState(m) /\ doc = None
  <2>1. /\ opened' = opened + 1 /\ doc'.id = opened + 1 /\ doc' # None
    <3> DEFINE d == [State(m) EXCEPT !.id = opened + 1]
    <3>1. State(m) \in DocumentType
      BY <1>4, Typed DEF IInv, CreateState, Resting
    <3>2. d \in DocumentType /\ d.id = opened + 1
      BY <1>2, <3>1 DEF DocumentType
    <3>3. d # None
      BY <3>2, BotAssumption
    <3> QED
      BY <1>4, <3>2, <3>3 DEF CreateState
  <2>2. Current = 0 /\ Current' = opened' /\ Filled' \in SUBSET Slots
    BY <1>4, <2>1 DEF Current, Filled
  <2>3. Intake!OpenConversation
    BY <1>1, <2>1, <2>2 DEF Intake!OpenConversation, Current, Filled, PlacedOnes
  <2> QED
    BY <2>3 DEF Intake!Next
<1>5. CASE SaveState(m) /\ Same(m)
  <2>1. Slots \subseteq DOMAIN doc /\ "id" \in DOMAIN doc
    BY <1>2, <1>5 DEF Same, DocumentType, Slots
  <2>2. pc[m] = "save" /\ doc' = Saved(m) /\ opened' = opened
    BY <1>5 DEF SaveState, Same
  <2>3. CopyIsOlder(m) /\ Loaded(m)
    BY <2>2 DEF IInv, Sound, Loaded, Resting, Unopened
  <2>4. State(m) \in DocumentType /\ mem[m].base \in DocumentType
    BY <2>2, <2>3, Typed DEF IInv, Resting, MemoryType, CopyIsOlder
  <2>5. /\ doc' \in DocumentType
        /\ \A f \in Slots \cup {"id", "stage", "pending", "decision"} :
             doc'[f] = IF State(m)[f] # mem[m].base[f] THEN State(m)[f] ELSE doc[f]
    BY <1>2, <1>5, <2>2, <2>4, SavedType DEF Same
  <2>6. doc' # None /\ doc'.id = doc.id /\ doc # None
    BY <1>5, <2>3, <2>5, BotAssumption DEF CopyIsOlder, Same
  <2>7. \A f \in Slots : doc[f] # None => doc'[f] # None
    BY <2>3, <2>5 DEF CopyIsOlder
  <2>8. Current # 0 /\ Current' = Current /\ Filled \subseteq Filled' /\ Filled' \subseteq Slots
    BY <1>2, <2>6, <2>7 DEF Current, Filled
  <2>9. Intake!Answer
    BY <1>1, <2>2, <2>8 DEF Intake!Answer, Current, Filled, PlacedOnes
  <2> QED
    BY <2>9 DEF Intake!Next
<1>6. CASE DeleteState(m) /\ Same(m)
  <2>1. doc' = None /\ opened' = opened /\ doc # None /\ pc[m] = "finalized"
    BY <1>6 DEF DeleteState, Same
  <2>2. Placed(doc.id)
    BY <1>6, <2>1 DEF IInv, Sound, Placing, Same
  <2>3. Current \in PlacedOnes
    BY <1>2, <2>1, <2>2 DEF Placed, Current, PlacedOnes, OrdersOfBot
  <2>4. Intake!Close
    BY <1>1, <2>1, <2>3 DEF Intake!Close, Current, PlacedOnes
  <2> QED
    BY <2>4 DEF Intake!Next
<1> QED
  BY <1>3, <1>4, <1>5, <1>6 DEF BotStep, LoadState, FindCustomer, InsertCustomer, CreateState,
     ReadCustomer, FindOpenOrder, SaveState, DeleteState, Same, conversation

LEMMA FinalizerIntake ==
  ASSUME IInv, NEW m \in Messages, FinalizerStep(m), UNCHANGED conversation
  PROVE  Intake!Next \/ UNCHANGED Intake!intake
<1>1. Ready(m) /\ FinalizerTypeOK /\ pc[m] \in Finalizing
  BY DEF IInv, TypeOK, Sound, DecidedIsComplete, FinalizerStep, UpdateCustomerDetails, CancelRead,
         CancelSave, CancelLog, CreateOrder, IncrementOrderCount, Notify, Finalizing
<1>2. /\ OrdersKept
      /\ \/ Len(orders') = Len(orders)
         \/ /\ orders' = Append(orders, NewOrder(m)) /\ OrderValidates(NewOrder(m))
            /\ NewOrder(m) \in OrderType
  BY <1>1, FinalizerWrites
<1>3. doc' = doc /\ opened' = opened
  BY DEF conversation
<1>4. CASE Len(orders') = Len(orders)
  <2>1. PlacedOnes' = PlacedOnes
    BY <1>2, <1>4, PlacedStay DEF IInv
  <2> QED
    BY <1>3, <2>1 DEF Intake!intake, PlacedOnes
<1>5. CASE /\ orders' = Append(orders, NewOrder(m)) /\ OrderValidates(NewOrder(m))
           /\ NewOrder(m) \in OrderType
  <2> DEFINE c == State(m).id
  <2>1. c \in 1..opened /\ NewOrder(m).conversation = c
    BY <1>1, <1>5, NewOrderType DEF IInv, Sound, CopyIsOlder, Loaded, Resting, Unopened,
       Finalizing, Ready
  <2>2. orders \in Seq(OrderType) /\ opened \in Nat
    BY DEF IInv, TypeOK, FinalizerTypeOK
  <2>3. /\ Len(orders') = Len(orders) + 1 /\ orders'[Len(orders) + 1] = NewOrder(m)
        /\ \A o \in 1..Len(orders) : orders'[o] = orders[o]
        /\ 1..Len(orders') = (1..Len(orders)) \cup {Len(orders) + 1}
    BY <1>5, <2>2
  <2> HIDE DEF c
  <2>4. OrdersOfBot' = OrdersOfBot \cup {Len(orders) + 1} /\ c # 0
    BY <2>1, <2>2, <2>3 DEF OrdersOfBot
  <2>5. \A o \in OrdersOfBot : orders'[o].conversation = orders[o].conversation
    BY <2>3 DEF OrdersOfBot
  <2>6. PlacedOnes' = PlacedOnes \cup {c}
    BY <2>1, <2>3, <2>4, <2>5 DEF PlacedOnes
  <2>7. Intake!Place
    BY <1>3, <2>1, <2>6 DEF Intake!Place, PlacedOnes
  <2> QED
    BY <2>7 DEF Intake!Next
<1> QED
  BY <1>2, <1>4, <1>5

(* One conversation at a time, none of whose answers gets lost, and which  *)
(* ends only with an order: at any number of workers and with any failure  *)
(* (conversationBot.service.ts:30-161).                                    *)
THEOREM Refinement == Spec => ImplementsIntake
<1>1. Init => Intake!Init
  <2>1. SUFFICES ASSUME Init
                 PROVE  Intake!Init
    OBVIOUS
  <2>2. doc = None /\ opened = 0
    BY <2>1 DEF Init
  <2>3. OrdersOfBot = {}
    <3>1. \A o \in 1..Len(orders) : orders[o].conversation = 0
      BY <2>1 DEF Init, InitFinalizer, Met, EarlierOrder
    <3> QED
      BY <3>1 DEF OrdersOfBot
  <2> QED
    BY <2>2, <2>3 DEF Intake!Init
<1>2. IInv /\ [Next]_vars => [Intake!Next]_Intake!intake
  <2>1. SUFFICES ASSUME IInv, [Next]_vars
                 PROVE  Intake!Next \/ UNCHANGED Intake!intake
    OBVIOUS
  <2>2. CASE UNCHANGED vars
    BY <2>2, SameOrders DEF vars, Intake!intake, PlacedOnes
  <2>3. ASSUME NEW m \in Messages, BotStep(m)
        PROVE  Intake!Next \/ UNCHANGED Intake!intake
    BY <2>1, <2>3, BotIntake
  <2>4. ASSUME NEW m \in Messages, FinalizerStep(m), UNCHANGED conversation
        PROVE  Intake!Next \/ UNCHANGED Intake!intake
    BY <2>1, <2>4, FinalizerIntake
  <2>5. ASSUME UNCHANGED orders, UNCHANGED conversation
        PROVE  UNCHANGED Intake!intake
    BY <2>5, SameOrders DEF conversation, Intake!intake, PlacedOnes
  <2>6. ASSUME NEW m \in Messages, Settle(m) \/ Fault(m), UNCHANGED conversation
        PROVE  UNCHANGED Intake!intake
    BY <2>5, <2>6 DEF Settle, Fault, documents
  <2>7. CASE Crash /\ UNCHANGED conversation
    BY <2>5, <2>7 DEF Crash, documents
  <2>8. CASE StaffStep /\ UNCHANGED conversation
    <3>1. OrdersKept /\ Len(orders') = Len(orders)
      BY <2>1, <2>8, StaffWrites DEF IInv, TypeOK
    <3>2. PlacedOnes' = PlacedOnes
      BY <2>1, <3>1, PlacedStay DEF IInv
    <3> QED
      BY <2>8, <3>2 DEF conversation, Intake!intake, PlacedOnes
  <2> QED
    BY <2>1, <2>2, <2>3, <2>4, <2>6, <2>7, <2>8 DEF Next
<1> QED
  BY <1>1, <1>2, Invariance, PTL DEF Spec, ImplementsIntake, Intake!Spec

----------------------------------------------------------------------------
(* One worker. *)

Asks(d, c) ==
  LET next == FindNextMissingStage(d, c) IN
  d.stage = IF next = None THEN Deciding ELSE next

(* A conversation waits for a decision exactly when it has a pending order. *)
Decides(d, q) ==
  /\ d.stage = Deciding <=> d.pending # None
  /\ d.pending # None => d.pending \in 1..Len(q)

(* The attempt that runs: its copy of the conversation is the document,    *)
(* what it asks next is right, and the pending order is the customer's to  *)
(* decide on, still open when it is found, and not any more once replaced. *)
LoneAt(m) ==
  /\ Loaded(m) => doc # None /\ doc = mem[m].base /\ Decides(State(m), orders)
  /\ pc[m] \in Unopened => State(m).pending = None
  /\ Loaded(m) /\ pc[m] # "save" => State(m).pending = doc.pending
  /\ pc[m] \in Finalizing \cup {"readCustomer"} =>
       (State(m).pending # None <=> State(m).decision # None)
  /\ pc[m] = "openOrder" => State(m).pending = None
  /\ pc[m] \in {"cancelRead", "cancelSave", "cancelLog"} => Replaces(m)
  /\ Undisturbed =>
       /\ pc[m] = "save" => Asks(State(m), customer)
       /\ pc[m] = "openOrder" => FindNextMissingStage(State(m), customer) = None
  /\ Calm =>
       /\ pc[m] = "save" /\ State(m).pending # None =>
            orders[State(m).pending].status \in Open
       /\ pc[m] \in {"details", "create"} /\ State(m).pending = None => OpenOrders = {}
       /\ pc[m] \in {"cancelLog", "create"} /\ Replaces(m) =>
            orders[State(m).pending].status \notin Open

(* An order of a message that has not failed has ended its conversation,   *)
(* or is about to, so another of the conversation comes of a retry.        *)
OrderEnds ==
  crashes = 0 =>
    \A o \in OrdersOfBot :
      LET by == orders[o].by IN
      tries[by] = 0 =>
        \/ doc # None => doc.id # orders[o].conversation
        \/ pc[by] \in Placing

(* There is room for an order when the pending one is not open any more,   *)
(* until an attempt has placed one.                                        *)
Room ==
  Calm =>
    /\ OpenOrdersAccounted
    /\ (/\ doc # None /\ doc.pending # None /\ orders[doc.pending].status \notin Open
        /\ \A m \in Messages : pc[m] \notin Placing)
       => Cardinality(OpenOrders) <= Cardinality(KeptOrders) + faults

Lone ==
  Workers = 1 =>
    /\ \A m, n \in Busy : m = n
    /\ \A m \in Messages : LoneAt(m)
    /\ doc # None => Decides(doc, orders)
    /\ Undisturbed /\ doc # None /\ Running = {} => Asks(doc, customer)
    /\ SecondOrderIsRetry
    /\ OrderEnds
    /\ Room

LEMMA RestIsLone ==
  ASSUME NEW n, pc'[n] \in Resting
  PROVE  LoneAt(n)'
<1>1. /\ ~Loaded(n)'
      /\ pc'[n] \notin Unopened \cup Finalizing \cup
           {"readCustomer", "openOrder", "save", "details", "cancelRead", "cancelSave",
            "cancelLog", "create"}
  BY DEF Loaded, Resting, Unopened, Finalizing
<1> QED
  BY <1>1 DEF LoneAt

LEMMA OthersRest ==
  ASSUME NEW m \in Messages, OthersStay(m), \A n \in Busy : n = m
  PROVE  /\ \A n \in Messages \ {m} :
              pc[n] \in Resting /\ pc'[n] \in Resting /\ LoneAt(n)'
         /\ \A n \in Busy' : n = m
<1>1. \A n \in Messages \ {m} : pc[n] \in Resting /\ pc'[n] \in Resting
  BY DEF OthersStay, Busy, Resting
<1> QED
  BY <1>1, RestIsLone DEF Busy, OthersStay

(* The attempt goes on, without an order or a save. *)
LEMMA GoesOnLone ==
  ASSUME IInv, Lone, Workers = 1, NEW m \in Messages, OthersStay(m),
         \A n \in Busy : n = m, tries' = tries,
         UNCHANGED orders, UNCHANGED conversation, UNCHANGED bounds,
         pc'[m] \notin Resting, pc[m] \in Placing => pc'[m] \in Placing, LoneAt(m)'
  PROVE  Lone'
<1>1. doc' = doc /\ opened' = opened /\ faults' = faults /\ updates' = updates
      /\ crashes' = crashes /\ orders' = orders
  BY DEF conversation, bounds
<1>2. /\ \A n \in Messages \ {m} :
           pc[n] \in Resting /\ pc'[n] \in Resting /\ LoneAt(n)'
      /\ \A n \in Busy' : n = m
  BY OthersRest
<1>3. Running' # {}
  BY DEF Running
<1>4. doc' # None => Decides(doc, orders)'
  BY <1>1 DEF Lone, Decides
<1>5. SecondOrderIsRetry'
  BY <1>1, OpenSame DEF Lone, SecondOrderIsRetry
<1>6. OrderEnds'
  <2>1. \A n \in Messages : pc[n] \in Placing => pc'[n] \in Placing
    BY DEF OthersStay
  <2>2. \A o \in OrdersOfBot : orders[o].by \in Messages
    BY DEF IInv, Conversations, OrdersOfBot
  <2> QED
    BY <1>1, <2>1, <2>2, OpenSame DEF Lone, OrderEnds
<1>7. Room'
  <2>1. (\A n \in Messages : pc'[n] \notin Placing) => \A n \in Messages : pc[n] \notin Placing
    BY DEF OthersStay
  <2>2. OpenOrdersAccounted' <=> OpenOrdersAccounted
    BY <1>1 DEF OpenOrdersAccounted
  <2> QED
    BY <1>1, <2>1, <2>2, OpenSame DEF Lone, Room, Calm
<1> QED
  BY <1>2, <1>3, <1>4, <1>5, <1>6, <1>7 DEF Lone

(* The attempt fails: if it had placed an order, that is one fault more.   *)
LEMMA RejectLone ==
  ASSUME IInv, Lone, Workers = 1, NEW m \in Messages, m \in Busy, Reject(m),
         UNCHANGED orders, UNCHANGED conversation, updates' = updates, crashes' = crashes,
         faults' \in {faults, faults + 1}, pc[m] \in Placing => faults' = faults + 1
  PROVE  Lone'
<1>1. doc' = doc /\ opened' = opened /\ orders' = orders
  BY DEF conversation
<1>2. tries[m] < MaxAttempts
  BY DEF IInv, Budget, Busy
<1>3. /\ Ends(m) /\ tries'[m] = tries[m] + 1 /\ tries[m] \in Nat /\ OthersStay(m)
  <2>1. Attempting(Place, MemoryType) /\ Resting \subseteq Place /\ tries[m] \in Nat
    BY Typed DEF IInv, Attempting
  <2> QED
    BY <1>2, <2>1, RejectStep DEF Ends
<1>4. \A n \in Busy : n = m
  BY DEF Lone
<1>5. /\ \A n \in Messages \ {m} :
           pc[n] \in Resting /\ pc'[n] \in Resting /\ LoneAt(n)'
      /\ LoneAt(m)'
      /\ \A n \in Busy' : n = m
  BY <1>3, <1>4, OthersRest, RestIsLone DEF Ends
<1>6. tries'[m] > 0 /\ ~Undisturbed'
  BY <1>3 DEF Undisturbed
<1>7. \A n \in Messages : tries'[n] >= tries[n] /\ tries[n] \in Nat /\ tries'[n] \in Nat
  BY <1>3, Typed DEF OthersStay, IInv, Attempting
<1>8. \A o \in OrdersOfBot : orders[o].by \in Messages
  BY DEF IInv, Conversations, OrdersOfBot
<1>9. SecondOrderIsRetry'
  BY <1>1, <1>7, <1>8, OpenSame DEF Lone, SecondOrderIsRetry
<1>10. OrderEnds'
  <2>1. \A n \in Messages : tries'[n] = 0 => tries[n] = 0 /\ pc[n] \notin Placing
    <3>1. \A r \in Resting : r \notin Placing
      BY DEF Resting, Placing
    <3> QED
      BY <1>5, <1>6, <1>7, <3>1
  <2> QED
    BY <1>1, <1>8, <2>1, OpenSame DEF Lone, OrderEnds
<1>11. Room'
  <2>1. Cardinality(OpenOrders) \in Nat /\ Cardinality(KeptOrders) \in Nat /\ faults \in Nat
    BY OpenFinite DEF IInv, TypeOK, FinalizerTypeOK
  <2>2. SUFFICES ASSUME Calm
                 PROVE  Room'
    BY DEF Room, Calm
  <2>3. Cardinality(OpenOrders) <= 1 + Cardinality(KeptOrders) + faults
    BY <2>2, Accounted DEF Lone, Room
  <2>4. OpenOrders' = OpenOrders /\ KeptOrders' = KeptOrders
    BY OpenSame
  <2>5. OpenOrdersAccounted' <=>
          Cardinality(OpenOrders') <= 1 + Cardinality(KeptOrders') + faults'
    BY DEF OpenOrdersAccounted, OpenOrders, KeptOrders
  <2>6. OpenOrdersAccounted'
    BY <2>1, <2>3, <2>4, <2>5
  <2>7. CASE pc[m] \in Placing
    BY <2>1, <2>3, <2>4, <2>6, <2>7 DEF Room
  <2>8. CASE pc[m] \notin Placing
    <3>1. \A n \in Messages : pc[n] \notin Placing
      BY <1>5, <2>8 DEF Resting, Placing
    <3> QED
      BY <1>1, <2>1, <2>2, <2>4, <2>6, <3>1 DEF Lone, Room
  <2> QED
    BY <2>7, <2>8
<1>12. doc' # None => Decides(doc, orders)'
  BY <1>1 DEF Lone, Decides
<1> QED
  BY <1>5, <1>6, <1>9, <1>10, <1>11, <1>12 DEF Lone

(* The attempt ends: what it leaves of the conversation asks the right     *)
(* question, and an order it has placed is the end of the conversation.    *)
LEMMA EndLone ==
  ASSUME IInv, Lone, Workers = 1, NEW m \in Messages, Ends(m), \A n \in Busy : n = m,
         tries' = tries, UNCHANGED orders, UNCHANGED bounds,
         doc' # None =>
           /\ doc # None /\ doc'.id = doc.id /\ pc[m] \notin Placing
           /\ Decides(doc, orders)'
           /\ Undisturbed => Asks(doc, customer)'
           /\ Calm /\ doc'.pending # None =>
                doc'.pending = doc.pending \/ orders[doc'.pending].status \in Open
  PROVE  Lone'
<1>1. /\ faults' = faults /\ updates' = updates /\ crashes' = crashes /\ orders' = orders
      /\ OthersStay(m)
  BY DEF bounds, Ends
<1>2. /\ \A n \in Messages \ {m} :
           pc[n] \in Resting /\ pc'[n] \in Resting /\ LoneAt(n)'
      /\ LoneAt(m)'
      /\ \A n \in Busy' : n = m
  BY <1>1, OthersRest, RestIsLone DEF Ends
<1>3. (Undisturbed' <=> Undisturbed) /\ (Calm' <=> Calm)
  BY <1>1 DEF Undisturbed, Calm
<1>4. SecondOrderIsRetry'
  BY <1>1, OpenSame DEF Lone, SecondOrderIsRetry
<1>5. OrderEnds'
  <2>1. \A n \in Messages : pc[n] \in Placing => n = m
    BY <1>2 DEF Resting, Placing
  <2>2. \A o \in OrdersOfBot : orders[o].by \in Messages
    BY DEF IInv, Conversations, OrdersOfBot
  <2> QED
    BY <1>1, <2>1, <2>2, OpenSame DEF Lone, OrderEnds
<1>6. Room'
  <2>1. OpenOrdersAccounted' <=> OpenOrdersAccounted
    BY <1>1 DEF OpenOrdersAccounted
  <2>2. \A n \in Messages \ {m} : pc[n] \notin Placing
    BY <1>2 DEF Resting, Placing
  <2> QED
    BY <1>1, <1>3, <2>1, <2>2, OpenSame DEF Lone, Room
<1> QED
  BY <1>2, <1>3, <1>4, <1>5, <1>6 DEF Lone

LEMMA LoadLone ==
  ASSUME IInv, Lone, Workers = 1, NEW m \in Messages, LoadState(m)
  PROVE  Lone'
<1>1. pc[m] = "queued" /\ tries' = tries /\ UNCHANGED documents /\ UNCHANGED bounds
      /\ UNCHANGED conversation /\ orders' = orders /\ customer' = customer
  BY DEF LoadState, documents
<1>2. Busy = {} /\ Running = {} /\ \A n \in Busy : n = m
  BY NobodyRuns DEF LoadState
<1>3. doc' = doc /\ updates' = updates /\ crashes' = crashes /\ faults' = faults
      /\ (Undisturbed' <=> Undisturbed)
  BY <1>1 DEF conversation, bounds, Undisturbed
<1>4. Attempting(Place, MemoryType) /\ Resting \subseteq Place
  BY Typed DEF IInv
<1>5. CASE doc # None
  <2>1. doc \in DocumentType /\ doc.decision = None /\ Decides(doc, orders)
    BY <1>5 DEF IInv, TypeOK, Conversations, Lone
  <2> DEFINE s == IF Answers(m, doc.stage) THEN ApplyReply(m, doc) ELSE doc
             place == IF Answers(m, doc.stage) THEN "readCustomer" ELSE "save"
             x == [base |-> doc, state |-> s, customer |-> None]
  <2>2. /\ s.stage = doc.stage /\ s.pending = doc.pending
        /\ place = "readCustomer" => (s.decision # None <=> doc.stage = Deciding)
        /\ place = "save" => s = doc /\ doc.stage # Deciding
        /\ place \in {"readCustomer", "save"}
    BY <2>1, ReplyFills DEF Answers, Deciding
  <2>3. mem' = [mem EXCEPT ![m] = x] /\ Go(m, place)
    BY <1>5 DEF LoadState, Hold
  <2> HIDE DEF s, place, x
  <2>4. /\ OthersStay(m) /\ pc'[m] = place /\ mem'[m] = x
    BY <1>1, <1>4, <2>3 DEF Attempting, Go, OthersStay
  <2>5. State(m)' = s /\ mem'[m].base = doc
    BY <2>4 DEF State, x
  <2>6. /\ pc'[m] \notin Resting \cup Unopened \cup Finalizing \cup {"openOrder"} /\ Loaded(m)'
        /\ pc[m] \notin Placing
        /\ pc'[m] \notin {"cancelRead", "cancelSave", "cancelLog", "details", "create"}
    BY <1>1, <2>2, <2>4 DEF Resting, Unopened, Finalizing, Loaded, Placing
  <2>7. place = "save" /\ Undisturbed => Asks(s, customer)
    BY <1>2, <1>5, <2>2 DEF Lone
  <2>8. Decides(s, orders')
    BY <1>1, <2>1, <2>2, <2>5 DEF Decides
  <2>9. s.pending # None <=> s.stage = Deciding
    BY <2>1, <2>2 DEF Decides
  <2>10. LoneAt(m)'
    BY <1>1, <1>3, <1>5, <2>2, <2>4, <2>5, <2>6, <2>7, <2>8, <2>9 DEF LoneAt
  <2> QED
    BY <1>1, <1>2, <2>4, <2>6, <2>10, GoesOnLone
<1>6. CASE doc = None
  <2>1. PICK found \in Parses[m] :
          IF "order" \in found
          THEN Hold(m, None, FreshDocument(m, found), None) /\ Go(m, "findCustomer")
          ELSE Go(m, "settle") /\ UNCHANGED mem
    BY <1>6 DEF LoadState
  <2>2. CASE "order" \in found
    <3>1. /\ OthersStay(m) /\ pc'[m] = "findCustomer"
          /\ mem'[m] = [base |-> None, state |-> FreshDocument(m, found), customer |-> None]
      BY <1>1, <1>4, <2>1, <2>2 DEF Attempting, Go, OthersStay, Hold
    <3>2. State(m)'.pending = None
      BY <3>1 DEF State, FreshDocument
    <3>3. LoneAt(m)' /\ pc'[m] \notin Resting /\ pc[m] \notin Placing
      BY <1>1, <3>1, <3>2 DEF LoneAt, Resting, Unopened, Finalizing, Loaded, Placing
    <3> QED
      BY <1>1, <1>2, <3>1, <3>3, GoesOnLone
  <2>3. CASE "order" \notin found
    <3>1. mem[m] = None
      BY <1>1 DEF IInv, TypeOK, Running, Resting
    <3>2. Ends(m)
      BY <1>1, <1>4, <2>1, <2>3, <3>1 DEF Attempting, Go, OthersStay, Ends, Resting
    <3> QED
      BY <1>1, <1>2, <1>3, <1>6, <3>2, EndLone
  <2> QED
    BY <2>2, <2>3
<1> QED
  BY <1>5, <1>6

LEMMA FindLone ==
  ASSUME IInv, Lone, Workers = 1, NEW m \in Messages,
         FindCustomer(m) \/ (InsertCustomer(m) /\ ~Reject(m))
  PROVE  Lone'
<1>1. /\ pc[m] \in {"findCustomer", "insertCustomer"} /\ mem' = mem /\ tries' = tries
      /\ orders' = orders /\ UNCHANGED bounds /\ UNCHANGED conversation
      /\ Go(m, "createState") \/ Go(m, "insertCustomer")
  BY DEF FindCustomer, InsertCustomer, AddCustomer, documents
<1>2. Attempting(Place, MemoryType)
  BY Typed DEF IInv
<1>3. OthersStay(m) /\ pc'[m] \in {"createState", "insertCustomer"} /\ State(m)' = State(m)
  BY <1>1, <1>2 DEF Attempting, Go, OthersStay, State
<1>4. m \in Busy /\ pc[m] \in Unopened /\ pc'[m] \in Unopened /\ pc'[m] \notin Resting
      /\ pc[m] \notin Placing
  BY <1>1, <1>3 DEF Busy, Resting, Unopened, Placing
<1>5. LoneAt(m)'
  BY <1>3, <1>4 DEF Lone, LoneAt, Loaded, Unopened, Finalizing
<1>6. \A n \in Busy : n = m
  BY <1>4 DEF Lone
<1> QED
  BY <1>1, <1>3, <1>4, <1>5, <1>6, GoesOnLone

LEMMA CreateLone ==
  ASSUME IInv, Lone, Workers = 1, NEW m \in Messages, CreateState(m)
  PROVE  Lone'
<1>1. pc[m] = "createState" /\ orders' = orders /\ UNCHANGED bounds /\ m \in Busy
      /\ updates' = updates /\ crashes' = crashes /\ faults' = faults
  BY DEF CreateState, documents, Busy, Resting, bounds
<1>2. pc[m] \notin Placing /\ pc[m] \in Unopened
  BY <1>1 DEF Placing, Unopened
<1>3. CASE doc # None
  BY <1>1, <1>2, <1>3, RejectLone DEF CreateState
<1>4. CASE doc = None
  <2> DEFINE d == [State(m) EXCEPT !.id = opened + 1]
  <2>1. State(m) \in DocumentType /\ opened \in Nat /\ Attempting(Place, MemoryType)
    BY <1>1, Typed DEF IInv, TypeOK, Resting
  <2>2. State(m).stage # Deciding /\ State(m).pending = None /\ State(m).decision = None
    BY <1>2 DEF IInv, Sound, DecidedIsComplete, DecisionFinalizes, Lone, LoneAt
  <2>3. /\ doc' = d /\ tries' = tries /\ Go(m, "readCustomer")
        /\ mem' = [mem EXCEPT ![m] = [base |-> d, state |-> d, customer |-> None]]
    BY <1>4 DEF CreateState, Hold
  <2>4. d \in DocumentType /\ d.id = opened + 1 /\ d.stage # Deciding /\ d.pending = None
        /\ d.decision = None
    BY <2>1, <2>2 DEF DocumentType
  <2> HIDE DEF d
  <2>5. d # None
    BY <2>4, BotAssumption
  <2>6. /\ OthersStay(m) /\ pc'[m] = "readCustomer" /\ mem'[m].base = d /\ State(m)' = d
    BY <2>1, <2>3 DEF Attempting, Go, OthersStay, State
  <2>7. Decides(d, orders')
    BY <2>4 DEF Decides
  <2>8. LoneAt(m)'
    BY <2>3, <2>4, <2>5, <2>6, <2>7 DEF LoneAt, Loaded, Unopened, Finalizing, Resting
  <2>9. /\ \A n \in Messages \ {m} :
             pc[n] \in Resting /\ pc'[n] \in Resting /\ LoneAt(n)'
        /\ \A n \in Busy' : n = m
    BY <1>1, <2>6, OthersRest DEF Lone
  <2>10. Running' # {}
    BY <2>6 DEF Running, Resting
  <2>11. SecondOrderIsRetry'
    BY <1>1, <2>3, OpenSame DEF Lone, SecondOrderIsRetry
  <2>12. OrderEnds'
    <3>1. \A o \in OrdersOfBot : orders[o].conversation # opened + 1
      <4>1. \A o \in OrdersOfBot :
              orders[o].conversation \in Nat /\ orders[o].conversation <= opened
        <5>1. \A o \in 1..Len(orders) : orders[o] \in OrderType
          BY DEF IInv, TypeOK, FinalizerTypeOK
        <5> QED
          BY <5>1 DEF IInv, Conversations, OrderType, OrdersOfBot
      <4> QED
        BY <2>1, <4>1
    <3> QED
      BY <1>1, <2>3, <2>4, <3>1, OpenSame DEF OrderEnds
  <2>13. Room'
    <3>1. OpenOrdersAccounted' <=> OpenOrdersAccounted
      BY <1>1 DEF OpenOrdersAccounted
    <3> QED
      BY <1>1, <2>3, <2>4, <3>1 DEF Lone, Room, Calm
  <2>14. Decides(doc, orders)'
    BY <2>3, <2>7 DEF Decides
  <2> QED
    BY <2>8, <2>9, <2>10, <2>11, <2>12, <2>13, <2>14 DEF Lone
<1> QED
  BY <1>3, <1>4

(* What is missing does not depend on the stage. *)
LEMMA SameMissing ==
  ASSUME NEW d, NEW e, NEW c, \A f \in Slots \cup {"emailAsked"} : d[f] = e[f]
  PROVE  FindNextMissingStage(d, c) = FindNextMissingStage(e, c)
<1>1. /\ d.name = e.name /\ d.phone = e.phone /\ d.product = e.product
      /\ d.quantity = e.quantity /\ d.address = e.address /\ d.email = e.email
      /\ d.emailAsked = e.emailAsked
  BY DEF Slots
<1>2. Missing(d, c) = Missing(e, c)
  BY <1>1 DEF Missing
<1> QED
  BY <1>2 DEF FindNextMissingStage

LEMMA ReadLone ==
  ASSUME IInv, Lone, Workers = 1, NEW m \in Messages, ReadCustomer(m)
  PROVE  Lone'
<1>1. /\ pc[m] = "readCustomer" /\ orders' = orders /\ customer' = customer
      /\ UNCHANGED bounds /\ UNCHANGED conversation /\ doc' = doc /\ tries' = tries
      /\ crashes' = crashes /\ updates' = updates
  BY DEF ReadCustomer, documents, bounds, conversation
<1>2. m \in Busy /\ pc[m] \notin Placing /\ Loaded(m)
  BY <1>1 DEF Busy, Resting, Placing, Loaded, Unopened
<1> DEFINE d == State(m)
           next == FindNextMissingStage(d, customer)
<1>3. d \in DocumentType /\ Attempting(Place, MemoryType) /\ customer \in CustomerType
  BY <1>1, Typed DEF IInv, Resting, TypeOK, FinalizerTypeOK
<1>4. /\ doc # None /\ doc = mem[m].base /\ Decides(d, orders) /\ d.pending = doc.pending
      /\ d.pending # None <=> d.decision # None
  BY <1>1, <1>2 DEF Lone, LoneAt
<1>5. next \in Asking \cup {None}
  BY <1>3, NothingMissing
<1>6. OthersStay(m) /\ mem'[m].base = mem[m].base /\ pc'[m] \notin Resting \cup Unopened
  BY <1>1, <1>3 DEF ReadCustomer, Hold, Go, Attempting, OthersStay, Resting, Unopened
<1>7. CASE d.stage = Deciding /\ d.decision # None
  <2>1. pc'[m] = "details" /\ State(m)' = d
    BY <1>3, <1>7 DEF ReadCustomer, Hold, Go, Attempting, State
  <2>2. LoneAt(m)'
    BY <1>1, <1>4, <1>6, <1>7, <2>1 DEF LoneAt, Resting, Unopened, Finalizing
  <2> QED
    BY <1>1, <1>2, <1>6, <2>2, GoesOnLone DEF Lone
<1>8. CASE ~(d.stage = Deciding /\ d.decision # None) /\ next # None
  <2> DEFINE s == [d EXCEPT !.stage = next]
  <2>1. pc'[m] = "save" /\ State(m)' = s
    BY <1>3, <1>8 DEF ReadCustomer, Hold, Go, Attempting, State
  <2>2. d.pending = None /\ next # Deciding
    BY <1>4, <1>5, <1>8 DEF Decides, Asking, Deciding
  <2>3. /\ s.stage = next /\ s.pending = d.pending
        /\ \A f \in Slots \cup {"emailAsked"} : s[f] = d[f]
    BY <1>3 DEF DocumentType, Slots
  <2> HIDE DEF s
  <2>4. FindNextMissingStage(s, customer) = next
    BY <2>3, SameMissing
  <2> HIDE DEF next, d
  <2>5. Asks(s, customer)
    BY <1>8, <2>3, <2>4 DEF Asks
  <2>6. Decides(s, orders)
    BY <2>2, <2>3 DEF Decides
  <2>7. LoneAt(m)'
    BY <1>1, <1>4, <1>6, <2>1, <2>2, <2>3, <2>5, <2>6 DEF LoneAt, Resting, Unopened, Finalizing
  <2> QED
    BY <1>1, <1>2, <1>6, <2>7, GoesOnLone DEF Lone
<1>9. CASE ~(d.stage = Deciding /\ d.decision # None) /\ next = None
  <2>1. d.pending = None
    BY <1>4, <1>9 DEF Decides
  <2>2. pc'[m] = "openOrder" /\ State(m)' = d
    BY <1>3, <1>9, <2>1 DEF ReadCustomer, Hold, Go, Attempting, State
  <2>3. LoneAt(m)'
    BY <1>1, <1>4, <1>6, <1>9, <2>1, <2>2 DEF LoneAt, Resting, Unopened, Finalizing
  <2> QED
    BY <1>1, <1>2, <1>6, <2>3, GoesOnLone DEF Lone
<1> QED
  BY <1>7, <1>8, <1>9

LEMMA OpenLone ==
  ASSUME IInv, Lone, Workers = 1, NEW m \in Messages, FindOpenOrder(m)
  PROVE  Lone'
<1>1. /\ pc[m] = "openOrder" /\ orders' = orders /\ customer' = customer
      /\ UNCHANGED bounds /\ UNCHANGED conversation /\ doc' = doc /\ tries' = tries
      /\ crashes' = crashes /\ updates' = updates
  BY DEF FindOpenOrder, documents, bounds, conversation
<1>2. m \in Busy /\ pc[m] \notin Placing /\ Loaded(m)
  BY <1>1 DEF Busy, Resting, Placing, Loaded, Unopened
<1> DEFINE d == State(m)
<1>3. d \in DocumentType /\ mem[m] \in MemoryType /\ Attempting(Place, MemoryType)
  BY <1>1, Typed DEF IInv, Resting
<1>4. /\ doc # None /\ doc = mem[m].base /\ Decides(d, orders) /\ d.pending = doc.pending
      /\ d.pending = None /\ d.decision = None
      /\ Undisturbed => FindNextMissingStage(d, customer) = None
  BY <1>1, <1>2 DEF Lone, LoneAt, IInv, Sound, DecisionFinalizes, Finalizing
<1>5. OpenOrders' = OpenOrders
  BY <1>1, OpenSame
<1>6. CASE OpenOrders = {}
  <2>1. pc'[m] = "details" /\ mem' = mem /\ OthersStay(m) /\ State(m)' = d
    BY <1>1, <1>3, <1>6 DEF FindOpenOrder, OpenOrders, Go, Attempting, OthersStay, State
  <2>2. LoneAt(m)' /\ pc'[m] \notin Resting
    BY <1>1, <1>4, <1>5, <1>6, <2>1 DEF LoneAt, Resting, Unopened, Finalizing
  <2> QED
    BY <1>1, <1>2, <2>1, <2>2, GoesOnLone DEF Lone
<1>7. CASE OpenOrders # {}
  <2>1. PICK o \in OpenOrders :
          /\ mem' = [mem EXCEPT ![m].state.pending = o, ![m].state.stage = Deciding]
          /\ Go(m, "save")
    BY <1>7 DEF FindOpenOrder, OpenOrders
  <2> DEFINE y == mem[m]
             z == [y EXCEPT !.state = [y.state EXCEPT !.pending = o]]
             x == [z EXCEPT !.state = [z.state EXCEPT !.stage = Deciding]]
             s == [[d EXCEPT !.pending = o] EXCEPT !.stage = Deciding]
  <2>2. mem' = [mem EXCEPT ![m] = x]
    BY <1>3, <2>1 DEF Attempting
  <2>3. x = [base |-> y.base, state |-> s, customer |-> y.customer]
    <3>1. z = [base |-> y.base, state |-> [y.state EXCEPT !.pending = o], customer |-> y.customer]
      BY <1>3 DEF MemoryType
    <3> HIDE DEF y, z
    <3>2. x = [base |-> y.base, state |-> [[y.state EXCEPT !.pending = o] EXCEPT !.stage = Deciding],
               customer |-> y.customer]
      BY <3>1
    <3> QED
      BY <3>2 DEF y, State
  <2>4. o \in 1..Len(orders) /\ orders[o].status \in Open
    BY <2>1 DEF OpenOrders
  <2>5. /\ s.stage = Deciding /\ s.pending = o
        /\ \A f \in Slots \cup {"emailAsked"} : s[f] = d[f]
    BY <1>3 DEF DocumentType, Slots
  <2>6. o # None
    BY <2>4, FinalizerAssumption
  <2> HIDE DEF x, y, z, s, d
  <2>7. OthersStay(m) /\ pc'[m] = "save" /\ State(m)' = s /\ mem'[m].base = mem[m].base
    <3>1. OthersStay(m) /\ pc'[m] = "save" /\ mem'[m] = x
      BY <1>1, <1>3, <2>1, <2>2 DEF Attempting, Go, OthersStay
    <3>2. x.base = y.base /\ x.state = s
      BY <2>3
    <3>3. x.base = mem[m].base
      BY <3>2 DEF y
    <3> QED
      BY <3>1, <3>2, <3>3 DEF State
  <2>8. Undisturbed => Asks(s, customer)
    <3>1. FindNextMissingStage(s, customer) = FindNextMissingStage(d, customer)
      BY <2>5, SameMissing
    <3> QED
      BY <1>4, <2>5, <3>1 DEF Asks
  <2>9. Decides(s, orders)
    BY <2>4, <2>5, <2>6 DEF Decides
  <2>10. Undisturbed' <=> Undisturbed
    BY <1>1 DEF Undisturbed
  <2>11. LoneAt(m)' /\ pc'[m] \notin Resting
    BY <1>1, <1>4, <2>4, <2>5, <2>7, <2>8, <2>9, <2>10 DEF LoneAt, Resting, Unopened, Finalizing
  <2> QED
    BY <1>1, <1>2, <2>7, <2>11, GoesOnLone DEF Lone
<1> QED
  BY <1>6, <1>7

LEMMA SaveLone ==
  ASSUME IInv, Lone, Workers = 1, NEW m \in Messages, SaveState(m)
  PROVE  Lone'
<1>1. /\ pc[m] = "save" /\ orders' = orders /\ customer' = customer /\ UNCHANGED bounds
      /\ m \in Busy /\ Loaded(m) /\ pc[m] \notin Placing
  BY DEF SaveState, documents, Busy, Resting, Loaded, Unopened, Placing
<1>2. /\ doc # None /\ doc = mem[m].base /\ Decides(State(m), orders)
      /\ Undisturbed => Asks(State(m), customer)
      /\ Calm /\ State(m).pending # None => orders[State(m).pending].status \in Open
  BY <1>1 DEF Lone, LoneAt
<1>3. State(m).id = doc.id
  BY <1>1, <1>2 DEF IInv, Sound, CopyIsOlder
<1>4. doc' = Saved(m) /\ Finish(m)
  BY <1>2, <1>3 DEF SaveState
<1>5. /\ doc \in DocumentType /\ State(m) \in DocumentType
      /\ Attempting(Place, MemoryType) /\ Resting \subseteq Place
  BY <1>1, <1>2, Typed DEF IInv, TypeOK, Resting
<1>6. \A f \in Slots \cup {"id", "stage", "emailAsked", "pending", "decision"} :
        doc'[f] = State(m)[f]
  BY <1>2, <1>4, <1>5, SavedType
<1>7. doc'.id = doc.id /\ doc'.stage = State(m).stage /\ doc'.pending = State(m).pending
      /\ \A f \in Slots \cup {"emailAsked"} : doc'[f] = State(m)[f]
  BY <1>3, <1>6
<1>8. Decides(doc, orders)'
  BY <1>1, <1>2, <1>7 DEF Decides
<1>9. Undisturbed => Asks(doc, customer)'
  <2>1. FindNextMissingStage(doc', customer) = FindNextMissingStage(State(m), customer)
    BY <1>7, SameMissing
  <2> QED
    BY <1>1, <1>2, <1>7, <2>1 DEF Asks
<1>10. Ends(m) /\ tries' = tries
  BY <1>4, <1>5, FinishStep
<1>11. \A n \in Busy : n = m
  BY <1>1 DEF Lone
<1> QED
  BY <1>1, <1>2, <1>7, <1>8, <1>9, <1>10, <1>11, EndLone

LEMMA DeleteLone ==
  ASSUME IInv, Lone, Workers = 1, NEW m \in Messages, DeleteState(m)
  PROVE  Lone'
<1>1. /\ pc[m] = "finalized" /\ orders' = orders /\ UNCHANGED bounds
      /\ m \in Busy /\ Loaded(m) /\ Finish(m)
  BY DEF DeleteState, documents, Busy, Resting, Loaded, Unopened
<1>2. doc # None /\ doc = mem[m].base /\ State(m).id = doc.id
  BY <1>1 DEF Lone, LoneAt, IInv, Sound, CopyIsOlder
<1>3. doc' = None
  BY <1>2 DEF DeleteState
<1>4. Ends(m) /\ tries' = tries
  BY <1>1, Typed, FinishStep DEF IInv
<1>5. \A n \in Busy : n = m
  BY <1>1 DEF Lone
<1> QED
  BY <1>1, <1>3, <1>4, <1>5, EndLone


(* A step of finalizeOrder that leaves the orders alone. *)
LEMMA PassLone ==
  ASSUME IInv, Lone, Workers = 1, NEW m \in Messages, UNCHANGED conversation,
         \/ UpdateCustomerDetails(m) \/ CancelRead(m) \/ CancelLog(m)
         \/ IncrementOrderCount(m) \/ Notify(m)
  PROVE  Lone'
<1>1. /\ FinalizerStep(m) /\ pc[m] \in Finalizing /\ orders' = orders /\ UNCHANGED bounds
      /\ pc[m] # "create" /\ doc' = doc
  BY DEF FinalizerStep, UpdateCustomerDetails, CancelRead, CancelLog, IncrementOrderCount, Notify,
         Finalizing, documents, conversation
<1>2. m \in Busy /\ Loaded(m) /\ tries[m] < MaxAttempts
  BY <1>1 DEF Busy, Loaded, Finalizing, Resting, Unopened, IInv, Budget
<1>3. /\ pc'[m] \in After(pc[m]) /\ mem' = mem /\ tries' = tries /\ OthersStay(m)
  <2>1. Attempting(Place, MemoryType) /\ Resting \cup Finalizing \cup {"finalized"} \subseteq Place
    BY Typed DEF IInv
  <2> QED
    BY <1>1, <1>2, <2>1, FinalizerGoes
<1>4. pc'[m] \notin Resting \cup Unopened \cup {"save", "readCustomer", "openOrder", "details"}
      /\ (pc[m] \in Placing => pc'[m] \in Placing)
      /\ (pc'[m] \in Finalizing => pc[m] \in Finalizing)
  BY <1>1, <1>3 DEF After, Finalizing, Resting, Unopened, Placing
<1>5. /\ State(m)' = State(m) /\ (Replaces(m)' <=> Replaces(m)) /\ mem'[m].base = mem[m].base
      /\ OpenOrders' = OpenOrders /\ (Calm' <=> Calm)
  BY <1>1, <1>3, OpenSame DEF State, Replaces, Calm, bounds
<1>6. LoneAt(m)
  BY DEF Lone
<1>7. Loaded(m)' => doc' # None /\ doc' = mem'[m].base /\ Decides(State(m)', orders')
  BY <1>1, <1>2, <1>5, <1>6 DEF LoneAt
<1>8. pc'[m] \in {"cancelRead", "cancelSave", "cancelLog"} => Replaces(m)
  <2>1. CASE UpdateCustomerDetails(m)
    <3>1. pc'[m] = IF Replaces(m) THEN "cancelRead" ELSE "create"
      BY <2>1, Typed DEF IInv, UpdateCustomerDetails, Go, Attempting
    <3> QED
      BY <3>1
  <2>2. CASE CancelRead(m) \/ CancelLog(m)
    BY <1>6, <2>2 DEF LoneAt, CancelRead, CancelLog
  <2>3. CASE IncrementOrderCount(m) \/ Notify(m)
    BY <1>3, <2>3 DEF IncrementOrderCount, Notify, After
  <2> QED
    BY <2>1, <2>2, <2>3
<1>9. Calm =>
        /\ pc'[m] = "create" /\ State(m).pending = None => OpenOrders = {}
        /\ pc'[m] \in {"cancelLog", "create"} /\ Replaces(m) =>
             orders[State(m).pending].status \notin Open
  <2>1. Attempting(Place, MemoryType) /\ "cancelled" \notin Open
    BY Typed DEF IInv, Open
  <2>2. CASE UpdateCustomerDetails(m)
    <3>1. pc[m] = "details" /\ pc'[m] = IF Replaces(m) THEN "cancelRead" ELSE "create"
      BY <2>1, <2>2 DEF UpdateCustomerDetails, Go, Attempting
    <3> QED
      BY <1>6, <3>1 DEF LoneAt
  <2>3. CASE CancelRead(m)
    <3>1. pc[m] = "cancelRead"
          /\ pc'[m] = IF orders[State(m).pending].status = "cancelled"
                      THEN "cancelLog" ELSE "cancelSave"
      BY <2>1, <2>3 DEF CancelRead, Go, Attempting
    <3> QED
      BY <2>1, <3>1
  <2>4. CASE CancelLog(m)
    <3>1. pc[m] = "cancelLog" /\ Replaces(m)
      BY <1>6, <2>4 DEF LoneAt, CancelLog
    <3> QED
      BY <1>6, <3>1 DEF LoneAt, Replaces
  <2>5. CASE IncrementOrderCount(m) \/ Notify(m)
    BY <1>3, <2>5 DEF IncrementOrderCount, Notify, After
  <2> QED
    BY <2>2, <2>3, <2>4, <2>5
<1>10. LoneAt(m)'
  BY <1>1, <1>2, <1>4, <1>5, <1>6, <1>7, <1>8, <1>9 DEF LoneAt, Finalizing
<1>11. \A n \in Busy : n = m
  BY <1>2 DEF Lone
<1> QED
  BY <1>1, <1>3, <1>4, <1>10, <1>11, GoesOnLone

(* Replacing takes the pending order away. *)
LEMMA CancelLone ==
  ASSUME IInv, Lone, Workers = 1, NEW m \in Messages, CancelSave(m), UNCHANGED conversation
  PROVE  Lone'
<1>1. /\ FinalizerStep(m) /\ pc[m] = "cancelSave" /\ UNCHANGED bounds /\ customer' = customer
      /\ doc' = doc /\ m \in Busy /\ Loaded(m) /\ tries[m] < MaxAttempts
      /\ faults' = faults /\ updates' = updates /\ crashes' = crashes
  BY DEF FinalizerStep, CancelSave, conversation, Busy, Loaded, Resting, Unopened, bounds,
         IInv, Budget
<1>2. /\ pc'[m] = "cancelLog" /\ mem' = mem /\ tries' = tries /\ OthersStay(m)
  <2>1. Attempting(Place, MemoryType) /\ Resting \cup Finalizing \cup {"finalized"} \subseteq Place
    BY Typed DEF IInv
  <2> QED
    BY <1>1, <2>1, FinalizerGoes DEF After
<1> DEFINE o == State(m).pending
<1>3. /\ LoneAt(m) /\ Replaces(m) /\ doc # None /\ doc = mem[m].base /\ Decides(State(m), orders)
      /\ o = doc.pending /\ (o # None <=> State(m).decision # None)
      /\ \A n \in Busy : n = m
  BY <1>1 DEF Lone, LoneAt, Finalizing
<1>4. /\ o \in 1..Len(orders) /\ State(m).id \in Nat
      /\ Cancels(State(m).pending, State(m).id)
  <2>1. State(m).id \in Nat
    BY <1>1 DEF IInv, Sound, DecidedIsComplete, Ready, Whole, IsDraft, Finalizing
  <2> QED
    BY <1>3, <2>1 DEF Replaces, Decides, CancelSave, Cancels
<1>5. /\ orders'[o].status \notin Open
      /\ Cardinality(OpenOrders') =
           Cardinality(OpenOrders) - (IF orders[o].status \in Open THEN 1 ELSE 0)
      /\ Cardinality(KeptOrders') = Cardinality(KeptOrders)
  BY <1>4, OneCancelled DEF IInv, TypeOK
<1>6. /\ Len(orders') = Len(orders)
      /\ \A p \in 1..Len(orders) :
           orders'[p].by = orders[p].by /\ orders'[p].conversation = orders[p].conversation
  <2>1. Ready(m) /\ FinalizerTypeOK
    BY DEF IInv, Sound, DecidedIsComplete, TypeOK
  <2>2. OrdersKept /\ (orders' = orders \/ Len(orders') = Len(orders))
    BY <1>1, <2>1, FinalizerWrites
  <2> QED
    BY <2>2 DEF OrdersKept, Lasting
<1>7. State(m)' = State(m) /\ (Replaces(m)' <=> Replaces(m))
  BY <1>2 DEF State, Replaces
<1>8. Decides(State(m), orders') /\ Decides(doc, orders')
  BY <1>3, <1>6 DEF Decides, Lone
<1>9. LoneAt(m)'
  <2>1. /\ Loaded(m)' /\ pc'[m] \notin Unopened \cup {"save", "openOrder", "readCustomer", "details",
                                                   "create"}
    BY <1>2 DEF Loaded, Resting, Unopened
  <2>2. (State(m).pending)' = o
    BY <1>7
  <2> QED
    BY <1>1, <1>2, <1>3, <1>5, <1>7, <1>8, <2>1, <2>2 DEF LoneAt
<1>10. /\ \A n \in Messages \ {m} : pc[n] \in Resting /\ pc'[n] \in Resting /\ LoneAt(n)'
       /\ \A n \in Busy' : n = m
       /\ Running' # {}
  BY <1>2, <1>3, OthersRest DEF Running, Busy, Resting
<1>11. OrdersOfBot' = OrdersOfBot
  BY <1>6 DEF OrdersOfBot
<1>12. SecondOrderIsRetry'
  BY <1>1, <1>2, <1>6, <1>11 DEF Lone, SecondOrderIsRetry, OrdersOfBot
<1>13. OrderEnds'
  <2>1. \A n \in Messages : pc[n] \notin Placing
    BY <1>1, <1>10 DEF Resting, Placing
  <2> QED
    BY <1>1, <1>2, <1>6, <1>11, <2>1 DEF Lone, OrderEnds, IInv, Conversations, OrdersOfBot
<1>14. Room'
  <2>1. SUFFICES ASSUME Calm
                 PROVE  Room'
    BY <1>1 DEF Room, Calm
  <2>2. Cardinality(OpenOrders) \in Nat /\ Cardinality(KeptOrders) \in Nat /\ faults \in Nat
    BY OpenFinite DEF IInv, TypeOK, FinalizerTypeOK
  <2>3. Cardinality(OpenOrders) <= 1 + Cardinality(KeptOrders) + faults
    BY <2>1, Accounted DEF Lone, Room
  <2>4. OpenOrdersAccounted' <=>
          Cardinality(OpenOrders') <= 1 + Cardinality(KeptOrders') + faults'
    BY DEF OpenOrdersAccounted, OpenOrders, KeptOrders
  <2>5. orders[o].status \notin Open => Cardinality(OpenOrders) <= Cardinality(KeptOrders) + faults
    <3>1. \A n \in Messages : pc[n] \notin Placing
      BY <1>1, <1>10 DEF Resting, Placing
    <3>2. doc # None /\ doc.pending # None /\ doc.pending = o
      BY <1>3 DEF Replaces
    <3> QED
      BY <2>1, <3>1, <3>2 DEF Lone, Room
  <2>6. Cardinality(OpenOrders') <= Cardinality(KeptOrders') + faults'
    BY <1>1, <1>5, <2>2, <2>3, <2>5
  <2>7. Cardinality(OpenOrders') \in Int /\ Cardinality(KeptOrders') \in Nat /\ faults' \in Nat
    BY <1>1, <1>5, <2>2
  <2> QED
    BY <2>4, <2>6, <2>7 DEF Room
<1> QED
  BY <1>1, <1>8, <1>9, <1>10, <1>12, <1>13, <1>14 DEF Lone

(* The order is placed: no other attempt runs, and one that has placed for *)
(* the same conversation before has failed.                                *)
LEMMA PlaceLone ==
  ASSUME IInv, Lone, Workers = 1, NEW m \in Messages, CreateOrder(m), UNCHANGED conversation,
         OrderValidates(NewOrder(m))
  PROVE  Lone'
<1>1. /\ FinalizerStep(m) /\ pc[m] = "create" /\ UNCHANGED bounds /\ customer' = customer
      /\ doc' = doc /\ m \in Busy /\ Loaded(m) /\ tries[m] < MaxAttempts
      /\ faults' = faults /\ updates' = updates /\ crashes' = crashes
      /\ orders' = Append(orders, NewOrder(m))
  BY DEF FinalizerStep, CreateOrder, conversation, Busy, Loaded, Resting, Unopened, bounds,
         IInv, Budget
<1>2. /\ pc'[m] = "count" /\ mem' = mem /\ tries' = tries /\ OthersStay(m)
  <2>1. Attempting(Place, MemoryType) /\ Resting \cup Finalizing \cup {"finalized"} \subseteq Place
    BY Typed DEF IInv
  <2>2. ~Reject(m)
    <3>1. CreateOrder(m) /\ OrderValidates(NewOrder(m)) => pc' = [pc EXCEPT ![m] = "count"]
      BY DEF CreateOrder, Go
    <3> QED
      BY <2>1, <3>1, <1>1, RejectStep DEF Attempting
  <2> QED
    BY <1>1, <2>1, <2>2, FinalizerGoes DEF After
<1> DEFINE o == State(m).pending
           new == Len(orders) + 1
<1>3. /\ LoneAt(m) /\ doc # None /\ doc = mem[m].base /\ Decides(State(m), orders)
      /\ o = doc.pending /\ (o # None <=> State(m).decision # None)
      /\ \A n \in Busy : n = m
  BY <1>1 DEF Lone, LoneAt, Finalizing
<1>4. /\ NewOrder(m) \in OrderType /\ NewOrder(m).conversation = State(m).id
      /\ NewOrder(m).decision = State(m).decision /\ NewOrder(m).by = m
      /\ State(m).decision \in {None, "keep", "replace"} /\ State(m).id = doc.id
  BY <1>1, <1>3, NewOrderType
     DEF IInv, Sound, DecidedIsComplete, CopyIsOlder, Ready, Whole, IsDraft, Finalizing
<1>5. /\ Len(orders') = new /\ orders'[new] = NewOrder(m) /\ Len(orders) \in Nat
      /\ \A p \in 1..Len(orders) : orders'[p] = orders[p]
      /\ Cardinality(OpenOrders') <= Cardinality(OpenOrders) + 1
      /\ Cardinality(KeptOrders') =
           Cardinality(KeptOrders) + (IF State(m).decision = "keep" THEN 1 ELSE 0)
      /\ Cardinality(OpenOrders') \in Nat
  BY <1>1, <1>4, OneMoreOrder DEF IInv, TypeOK, FinalizerTypeOK
<1>6. State(m)' = State(m)
  BY <1>2 DEF State
<1>7. Decides(State(m), orders') /\ Decides(doc, orders')
  BY <1>3, <1>5 DEF Decides, Lone
<1>8. LoneAt(m)'
  <2>1. /\ Loaded(m)'
        /\ pc'[m] \notin Unopened \cup {"save", "openOrder", "readCustomer", "details", "create",
                                        "cancelRead", "cancelSave", "cancelLog"}
    BY <1>2 DEF Loaded, Resting, Unopened
  <2> QED
    BY <1>1, <1>2, <1>3, <1>6, <1>7, <2>1 DEF LoneAt
<1>9. /\ \A n \in Messages \ {m} : pc[n] \in Resting /\ pc'[n] \in Resting /\ LoneAt(n)'
      /\ \A n \in Busy' : n = m
      /\ Running' # {}
      /\ \A n \in Messages : pc[n] \notin Placing
  BY <1>1, <1>2, <1>3, OthersRest DEF Running, Busy, Resting, Placing
<1>10. OrdersOfBot' \subseteq OrdersOfBot \cup {new}
  BY <1>5 DEF OrdersOfBot
<1>11. \A p \in OrdersOfBot : p \in 1..Len(orders) /\ p < new /\ orders'[p] = orders[p]
                              /\ orders[p].by \in Messages
  BY <1>5 DEF OrdersOfBot, IInv, Conversations
<1>12. SecondOrderIsRetry'
  <2>1. SUFFICES ASSUME NEW p \in OrdersOfBot', NEW q \in OrdersOfBot', p < q,
                        orders'[p].conversation = orders'[q].conversation, ~(crashes > 0)
                 PROVE  tries[orders'[p].by] > 0
    BY <1>1, <1>2 DEF SecondOrderIsRetry
  <2>2. p \in OrdersOfBot
    BY <1>5, <1>10, <1>11, <2>1
  <2>3. crashes = 0 /\ tries[orders[p].by] \in Nat
    BY <1>11, <2>1, <2>2, FinalizerAssumption DEF IInv, TypeOK, FinalizerTypeOK
  <2>4. CASE q \in OrdersOfBot
    BY <1>11, <2>1, <2>2, <2>4 DEF Lone, SecondOrderIsRetry
  <2>5. CASE q = new
    <3>1. orders[p].conversation = doc.id
      BY <1>4, <1>5, <1>11, <2>1, <2>2, <2>5
    <3>2. tries[orders[p].by] # 0
      BY <1>3, <1>9, <1>11, <2>2, <2>3, <3>1 DEF Lone, OrderEnds
    <3> QED
      BY <1>11, <2>2, <2>3, <3>2
  <2> QED
    BY <1>10, <2>1, <2>4, <2>5
<1>13. OrderEnds'
  <2>1. pc'[m] \in Placing
    BY <1>2 DEF Placing
  <2>2. \A p \in OrdersOfBot' : p \in OrdersOfBot \/ (p = new /\ orders'[p].by = m)
    BY <1>4, <1>5, <1>10
  <2> QED
    BY <1>1, <1>2, <1>9, <1>11, <2>1, <2>2 DEF Lone, OrderEnds
<1>14. Room'
  <2>1. SUFFICES ASSUME Calm
                 PROVE  OpenOrdersAccounted'
    BY <1>1, <1>2 DEF Room, Calm, Placing
  <2>2. Cardinality(OpenOrders) \in Nat /\ Cardinality(KeptOrders) \in Nat /\ faults \in Nat
    BY OpenFinite DEF IInv, TypeOK, FinalizerTypeOK
  <2>3. Cardinality(OpenOrders) <= 1 + Cardinality(KeptOrders) + faults
    BY <2>1, Accounted DEF Lone, Room
  <2>4. OpenOrdersAccounted' <=>
          Cardinality(OpenOrders') <= 1 + Cardinality(KeptOrders') + faults'
    BY DEF OpenOrdersAccounted, OpenOrders, KeptOrders
  <2>5. CASE o = None
    <3>1. Cardinality(OpenOrders) = 0
      BY <1>1, <1>3, <2>1, <2>5, FS_EmptySet DEF LoneAt
    <3> QED
      BY <1>1, <1>5, <2>2, <2>4, <3>1
  <2>6. CASE State(m).decision = "keep"
    BY <1>1, <1>5, <2>2, <2>3, <2>4, <2>6
  <2>7. CASE o # None /\ State(m).decision = "replace"
    <3>1. orders[o].status \notin Open
      BY <1>1, <1>3, <2>1, <2>7 DEF LoneAt, Replaces
    <3>2. Cardinality(OpenOrders) <= Cardinality(KeptOrders) + faults
      BY <1>3, <1>9, <2>1, <2>7, <3>1 DEF Lone, Room
    <3> QED
      BY <1>1, <1>5, <2>2, <2>4, <3>2
  <2> QED
    BY <1>3, <1>4, <2>5, <2>6, <2>7
<1> QED
  BY <1>1, <1>7, <1>8, <1>9, <1>12, <1>13, <1>14 DEF Lone

LEMMA FinalizerLone ==
  ASSUME IInv, Lone, Workers = 1, NEW m \in Messages, FinalizerStep(m), UNCHANGED conversation
  PROVE  Lone'
<1>1. CASE CreateOrder(m) /\ ~OrderValidates(NewOrder(m))
  <2>1. /\ pc[m] = "create" /\ Reject(m) /\ UNCHANGED orders /\ UNCHANGED bounds
    BY <1>1 DEF CreateOrder
  <2>2. m \in Busy /\ pc[m] \notin Placing
    BY <2>1 DEF Busy, Resting, Placing
  <2> QED
    BY <2>1, <2>2, RejectLone DEF bounds
<1> QED
  BY <1>1, PassLone, CancelLone, PlaceLone DEF FinalizerStep

(* A call fails; if the order was placed, it was accounted for.            *)
LEMMA FaultLone ==
  ASSUME IInv, Lone, Workers = 1, NEW m \in Messages, Fault(m), UNCHANGED conversation
  PROVE  Lone'
BY RejectLone DEF Fault, documents

(* A job ends: the conversation is where it was. *)
LEMMA SettleLone ==
  ASSUME IInv, Lone, Workers = 1, NEW m \in Messages, Settle(m), UNCHANGED conversation
  PROVE  Lone'
<1>1. /\ pc[m] = "settle" /\ pc'[m] = "done"
      /\ \A n \in Messages \ {m} : pc'[n] = pc[n]
      /\ mem' = mem /\ tries' = tries /\ UNCHANGED documents /\ UNCHANGED bounds
  BY Typed, SettleStep DEF IInv
<1>2. /\ doc' = doc /\ orders' = orders /\ customer' = customer
      /\ updates' = updates /\ faults' = faults /\ crashes' = crashes
  BY <1>1 DEF documents, bounds, conversation
<1>3. /\ Running' = Running /\ Busy' \subseteq Busy
      /\ \A n \in Messages : pc'[n] \in Placing <=> pc[n] \in Placing
  BY <1>1 DEF Running, Busy, Resting, Placing
<1>4. ASSUME NEW n \in Messages
      PROVE  LoneAt(n)'
  <2>1. CASE n = m
    BY <1>1, <2>1, RestIsLone DEF Resting
  <2>2. CASE n # m
    <3>1. /\ State(n)' = State(n) /\ (Loaded(n)' <=> Loaded(n)) /\ pc'[n] = pc[n]
          /\ (Replaces(n)' <=> Replaces(n)) /\ (Undisturbed' <=> Undisturbed)
          /\ (Calm' <=> Calm) /\ OpenOrders' = OpenOrders
      BY <1>1, <1>2, <2>2, OpenSame DEF State, Loaded, Replaces, Undisturbed, Calm
    <3> QED
      BY <1>1, <1>2, <3>1 DEF Lone, LoneAt
  <2> QED
    BY <2>1, <2>2
<1>5. /\ doc' # None => Decides(doc, orders)'
      /\ Undisturbed' /\ doc' # None /\ Running' = {} => Asks(doc, customer)'
  BY <1>1, <1>2, <1>3 DEF Lone, Decides, Undisturbed
<1>6. SecondOrderIsRetry'
  BY <1>1, <1>2, OpenSame DEF Lone, SecondOrderIsRetry
<1>7. OrderEnds'
  <2>1. \A o \in OrdersOfBot : orders[o].by \in Messages
    BY DEF IInv, Conversations, OrdersOfBot
  <2> QED
    BY <1>1, <1>2, <1>3, <2>1, OpenSame DEF Lone, OrderEnds
<1>8. Room'
  <2>1. OpenOrdersAccounted' <=> OpenOrdersAccounted
    BY <1>2 DEF OpenOrdersAccounted
  <2> QED
    BY <1>2, <1>3, <2>1, OpenSame DEF Lone, Room, Calm
<1> QED
  BY <1>3, <1>4, <1>5, <1>6, <1>7, <1>8 DEF Lone

(* The customer is not there yet, or is by now. *)
LEMMA InsertLone ==
  ASSUME IInv, Lone, Workers = 1, NEW m \in Messages, InsertCustomer(m)
  PROVE  Lone'
<1>1. /\ pc[m] = "insertCustomer" /\ UNCHANGED orders /\ UNCHANGED bounds
      /\ UNCHANGED conversation
  BY DEF InsertCustomer, AddCustomer
<1>2. m \in Busy /\ pc[m] \notin Placing
  BY <1>1 DEF Busy, Resting, Placing
<1> QED
  BY <1>1, <1>2, RejectLone, FindLone DEF bounds

(* The attempts that ran start again from the documents. *)
LEMMA CrashLone ==
  ASSUME IInv, Lone, Workers = 1, Crash, UNCHANGED conversation
  PROVE  Lone'
<1>1. /\ doc' = doc /\ orders' = orders /\ crashes' = crashes + 1 /\ crashes \in Nat
  BY DEF Crash, documents, conversation, IInv, TypeOK, FinalizerTypeOK
<1>2. crashes' # 0 /\ crashes' > 0
  BY <1>1
<1>3. \A n \in Messages : pc'[n] \in Resting /\ n \notin Busy'
  BY Typed, CrashStep DEF IInv, Busy, Resting
<1>4. /\ \A n \in Messages : LoneAt(n)'
      /\ Busy' = {}
  BY <1>3, RestIsLone DEF Busy
<1>5. doc' # None => Decides(doc, orders)'
  BY <1>1 DEF Lone, Decides
<1> QED
  BY <1>2, <1>4, <1>5 DEF Lone, Undisturbed, SecondOrderIsRetry, OrderEnds, Room, Calm

(* What staff do is outside of what is claimed of open orders, and changes *)
(* nothing else that is.                                                   *)
LEMMA StaffLone ==
  ASSUME IInv, Lone, Workers = 1, StaffStep, UNCHANGED conversation
  PROVE  Lone'
<1>1. /\ doc' = doc /\ OrdersKept /\ customer' = customer /\ pc' = pc /\ mem' = mem
      /\ tries' = tries /\ Len(orders') = Len(orders) /\ updates' = updates + 1
      /\ faults' = faults /\ crashes' = crashes /\ updates \in Nat
  BY StaffWrites DEF IInv, TypeOK, FinalizerTypeOK, attempts, conversation
<1>2. ~Calm'
  BY <1>1 DEF Calm
<1>3. \A p \in 1..Len(orders) :
        orders'[p].by = orders[p].by /\ orders'[p].conversation = orders[p].conversation
  BY <1>1 DEF OrdersKept, Lasting
<1>4. OrdersOfBot' = OrdersOfBot
  BY <1>1, <1>3 DEF OrdersOfBot
<1>5. \A n \in Messages : LoneAt(n)'
  <2>1. SUFFICES ASSUME NEW n \in Messages
                 PROVE  LoneAt(n)'
    OBVIOUS
  <2>2. LoneAt(n) /\ State(n)' = State(n) /\ (Loaded(n)' <=> Loaded(n))
        /\ (Replaces(n)' <=> Replaces(n)) /\ (Undisturbed' <=> Undisturbed)
    BY <1>1 DEF Lone, State, Loaded, Replaces, Undisturbed
  <2>3. Decides(State(n), orders) => Decides(State(n), orders')
    BY <1>1 DEF Decides
  <2> QED
    BY <1>1, <1>2, <2>2, <2>3 DEF LoneAt
<1>6. doc' # None => Decides(doc, orders)'
  BY <1>1 DEF Lone, Decides
<1>7. Undisturbed' /\ doc' # None /\ Running' = {} => Asks(doc, customer)'
  BY <1>1 DEF Lone, Undisturbed, Running
<1>8. SecondOrderIsRetry'
  BY <1>1, <1>3, <1>4 DEF Lone, SecondOrderIsRetry, OrdersOfBot
<1>9. OrderEnds'
  BY <1>1, <1>3, <1>4 DEF Lone, OrderEnds, OrdersOfBot
<1>10. \A n, k \in Busy' : n = k
  BY <1>1 DEF Lone, Busy
<1> QED
  BY <1>2, <1>5, <1>6, <1>7, <1>8, <1>9, <1>10 DEF Lone, Room

LEMMA InitLone ==
  ASSUME Init
  PROVE  Lone
<1>1. /\ pc = [m \in Messages |-> "queued"] /\ doc = None /\ faults = 0
      /\ \/ orders = <<>>
         \/ orders = <<EarlierOrder>>
  BY DEF Init, InitFinalizer, Met
<1>2. Busy = {} /\ \A m \in Messages : pc[m] \in Resting
  BY <1>1 DEF Busy, Resting
<1>3. \A m \in Messages : LoneAt(m)
  BY <1>2 DEF LoneAt, Loaded, Resting, Unopened, Finalizing
<1>4. OrdersOfBot = {}
  BY <1>1 DEF OrdersOfBot, EarlierOrder
<1>5. OpenOrdersAccounted
  <2>1. OpenOrders \subseteq {1}
    BY <1>1 DEF OpenOrders
  <2>2. Cardinality(OpenOrders) <= 1
    <3>1. IsFiniteSet({1}) /\ Cardinality({1}) = 1
      BY FS_Singleton
    <3>2. Cardinality(OpenOrders) <= Cardinality({1})
      BY <2>1, <3>1, FS_Subset
    <3> QED
      BY <3>1, <3>2
  <2>3. Cardinality(OpenOrders) \in Nat /\ Cardinality(KeptOrders) \in Nat
    BY InitHolds, OpenFinite DEF IInv, TypeOK
  <2> QED
    BY <1>1, <2>2, <2>3, Accounted
<1> QED
  BY <1>1, <1>2, <1>3, <1>4, <1>5 DEF Lone, SecondOrderIsRetry, OrderEnds, Room

LEMMA LoneInductive ==
  ASSUME IInv, Lone, [Next]_vars
  PROVE  Lone'
<1>1. SUFFICES ASSUME Workers = 1
               PROVE  Lone'
  BY DEF Lone
<1>2. CASE UNCHANGED vars
  <2>1. /\ \A n \in Messages : LoneAt(n)' <=> LoneAt(n)
        /\ (Undisturbed' <=> Undisturbed) /\ Running' = Running /\ Busy' = Busy
    BY <1>2 DEF vars, LoneAt, Loaded, State, Decides, Replaces, Undisturbed, Asks, Calm,
                OpenOrders, Running, Busy
  <2>2. (doc' # None => Decides(doc, orders)')
        /\ (Undisturbed' /\ doc' # None /\ Running' = {} => Asks(doc, customer)')
    BY <1>1, <1>2, <2>1 DEF vars, Lone
  <2>3. (SecondOrderIsRetry' <=> SecondOrderIsRetry) /\ (OrderEnds' <=> OrderEnds)
    BY <1>2 DEF vars, SecondOrderIsRetry, OrderEnds, OrdersOfBot
  <2>4. Room' <=> Room
    BY <1>2 DEF vars, Room, Calm, OpenOrdersAccounted, OpenOrders, KeptOrders
  <2> QED
    BY <1>1, <2>1, <2>2, <2>3, <2>4 DEF Lone
<1>3. ASSUME NEW m \in Messages, BotStep(m)
      PROVE  Lone'
  <2>1. CASE FindCustomer(m)
    BY <1>1, <2>1, FindLone
  <2> QED
    BY <1>1, <1>3, <2>1, LoadLone, InsertLone, CreateLone, ReadLone, OpenLone, SaveLone, DeleteLone
       DEF BotStep
<1>4. ASSUME NEW m \in Messages,
             (FinalizerStep(m) \/ Settle(m) \/ Fault(m)) /\ UNCHANGED conversation
      PROVE  Lone'
  BY <1>1, <1>4, FinalizerLone, SettleLone, FaultLone
<1>5. CASE (Crash \/ StaffStep) /\ UNCHANGED conversation
  BY <1>1, <1>5, CrashLone, StaffLone
<1> QED
  BY <1>2, <1>3, <1>4, <1>5 DEF Next

(* What is claimed of one worker, as one invariant. *)
LEMMA LoneInvariance == Spec => []Lone
<1>1. Init => Lone
  BY InitLone
<1>2. IInv /\ Lone /\ [Next]_vars => Lone'
  BY LoneInductive
<1> QED
  BY <1>1, <1>2, Invariance, PTL DEF Spec

(* With one worker and nothing going wrong the customer is always asked    *)
(* for what the draft and the customer's details call for next.            *)
THEOREM Questions == Spec => []StageAsksWhatIsMissing
<1>1. Lone => StageAsksWhatIsMissing
  BY DEF Lone, StageAsksWhatIsMissing, Undisturbed, Asks
<1> QED
  BY <1>1, LoneInvariance, PTL

(* With one worker a conversation gives a second order only to a retry of  *)
(* the message that placed the first, or after a crash.                    *)
THEOREM OneOrder == Spec => []SecondOrderIsRetry
<1>1. Lone => SecondOrderIsRetry
  BY DEF Lone, SecondOrderIsRetry
<1> QED
  BY <1>1, LoneInvariance, PTL

(* With one worker a customer has more than one open order only by wish,   *)
(* or because a call after the order failed: one order for each.           *)
THEOREM WantedOrders == Spec => []OpenOrdersAreWanted
<1>1. Lone => OpenOrdersAreWanted
  BY DEF Lone, OpenOrdersAreWanted, Room, Calm
<1> QED
  BY <1>1, LoneInvariance, PTL
(* A draft of which Order's schema makes an order. *)
Sellable(d) == d.product # None /\ d.quantity \notin {None, 0}

(* A draft is found sellable before it waits for a decision or finalizes,  *)
(* and nothing takes that back: a decision leaves the draft alone.         *)
SellableAt(m) ==
  Loaded(m) /\ (State(m).stage = Deciding \/ pc[m] \in Finalizing \cup {"openOrder"}) =>
    Sellable(State(m))

Sells ==
  Workers = 1 =>
    /\ doc # None /\ doc.stage = Deciding => Sellable(doc)
    /\ \A m \in Messages : SellableAt(m)

(* A step of an attempt, whichever. *)
LEMMA SellsStep ==
  ASSUME Sells, Workers = 1, NEW m \in Messages, OthersStay(m), SellableAt(m)',
         doc' # None => doc' = doc \/ doc'.stage # Deciding \/ Sellable(doc')
  PROVE  Sells'
<1>1. \A n \in Messages \ {m} : SellableAt(n)'
  BY DEF Sells, SellableAt, OthersStay, Loaded, State
<1> QED
  BY <1>1 DEF Sells

LEMMA RestIsSellable ==
  ASSUME NEW m, pc'[m] \in Resting \cup Unopened
  PROVE  SellableAt(m)'
BY DEF SellableAt, Loaded

(* A call of an attempt fails. *)
LEMMA RejectSells ==
  ASSUME IInv, Sells, Workers = 1, NEW m \in Messages, m \in Busy, Reject(m), doc' = doc
  PROVE  Sells'
<1>1. Attempting(Place, MemoryType) /\ Resting \subseteq Place /\ tries[m] < MaxAttempts
  BY Typed DEF IInv, Budget, Busy
<1>2. Ends(m)
  BY <1>1, RejectStep
<1> QED
  BY <1>2, SellsStep, RestIsSellable DEF Ends

LEMMA LoadSells ==
  ASSUME IInv, Sells, Workers = 1, NEW m \in Messages, LoadState(m)
  PROVE  Sells'
<1>1. doc' = doc /\ tries' = tries /\ Attempting(Place, MemoryType)
  BY Typed DEF LoadState, conversation, IInv
<1>2. CASE doc # None
  <2> DEFINE s == IF Answers(m, doc.stage) THEN ApplyReply(m, doc) ELSE doc
             place == IF Answers(m, doc.stage) THEN "readCustomer" ELSE "save"
             x == [base |-> doc, state |-> s, customer |-> None]
  <2>1. doc \in DocumentType /\ doc.decision = None
    BY <1>2 DEF IInv, TypeOK, Conversations
  <2>2. s.stage = doc.stage
    BY <2>1, ReplyFills
  <2>3. s.stage = Deciding => s.product = doc.product /\ s.quantity = doc.quantity
    <3>1. CASE Answers(m, doc.stage) /\ doc.stage = Deciding
      <4>1. s = [doc EXCEPT !.decision = IF Text[m].keep THEN "keep" ELSE "replace"]
        BY <3>1 DEF ApplyReply, Deciding
      <4> QED
        BY <2>1, <4>1 DEF DocumentType
    <3>2. CASE ~Answers(m, doc.stage)
      BY <3>2
    <3> QED
      BY <2>2, <3>1, <3>2
  <2>4. mem' = [mem EXCEPT ![m] = x] /\ Go(m, place) /\ place \in {"readCustomer", "save"}
    BY <1>2 DEF LoadState, Hold
  <2> HIDE DEF s, place, x
  <2>5. OthersStay(m) /\ pc'[m] = place /\ mem'[m] = x
    BY <1>1, <2>4 DEF Attempting, Go, OthersStay
  <2>6. State(m)' = s
    BY <2>5 DEF State, x
  <2>7. SellableAt(m)'
    BY <1>2, <2>2, <2>3, <2>4, <2>5, <2>6 DEF Sells, SellableAt, Sellable, Finalizing
  <2> QED
    BY <1>1, <2>5, <2>7, SellsStep
<1>3. CASE doc = None
  <2>1. (Go(m, "findCustomer") \/ Go(m, "settle")) /\ \A n \in Messages \ {m} : mem'[n] = mem[n]
    BY <1>1, <1>3 DEF LoadState, Hold, Attempting
  <2>2. OthersStay(m) /\ pc'[m] \in Resting \cup Unopened
    BY <1>1, <2>1 DEF Attempting, Go, OthersStay, Resting, Unopened
  <2> QED
    BY <1>1, <2>2, SellsStep, RestIsSellable
<1> QED
  BY <1>2, <1>3

(* The customer is found or added, and the conversation opened: the draft  *)
(* is new, and waits for a name.                                           *)
LEMMA OpeningSells ==
  ASSUME IInv, Sells, Workers = 1, NEW m \in Messages,
         FindCustomer(m) \/ InsertCustomer(m) \/ CreateState(m)
  PROVE  Sells'
<1>1. m \in Busy /\ pc[m] \in Unopened /\ Attempting(Place, MemoryType)
  BY Typed DEF FindCustomer, InsertCustomer, AddCustomer, CreateState, Busy, Unopened, IInv
<1>2. CASE Reject(m) /\ doc' = doc
  BY <1>1, <1>2, RejectSells
<1>3. CASE /\ Go(m, "createState") \/ Go(m, "insertCustomer")
           /\ mem' = mem /\ tries' = tries /\ doc' = doc
  <2>1. OthersStay(m) /\ pc'[m] \in Resting \cup Unopened
    BY <1>1, <1>3 DEF Attempting, Go, OthersStay, Unopened
  <2> QED
    BY <1>3, <2>1, SellsStep, RestIsSellable
<1>4. CASE CreateState(m) /\ doc = None
  <2> DEFINE d == [State(m) EXCEPT !.id = opened + 1]
  <2>1. State(m) \in DocumentType /\ State(m).stage # Deciding
    BY <1>1, Typed DEF IInv, Sound, DecidedIsComplete, Unopened, Resting
  <2>2. /\ doc' = d /\ tries' = tries /\ Go(m, "readCustomer")
        /\ mem' = [mem EXCEPT ![m] = [base |-> d, state |-> d, customer |-> None]]
    BY <1>4 DEF CreateState, Hold
  <2>3. d.stage # Deciding
    BY <2>1 DEF DocumentType
  <2> HIDE DEF d
  <2>4. OthersStay(m) /\ pc'[m] = "readCustomer" /\ State(m)' = d
    BY <1>1, <2>2 DEF Attempting, Go, OthersStay, State
  <2>5. SellableAt(m)'
    BY <2>3, <2>4 DEF SellableAt, Finalizing
  <2> QED
    BY <2>2, <2>3, <2>4, <2>5, SellsStep
<1> QED
  BY <1>2, <1>3, <1>4 DEF FindCustomer, InsertCustomer, AddCustomer, CreateState, conversation

LEMMA ReadSells ==
  ASSUME IInv, Lone, Sells, Workers = 1, NEW m \in Messages, ReadCustomer(m)
  PROVE  Sells'
<1> DEFINE d == State(m)
           next == FindNextMissingStage(d, customer)
<1>1. /\ pc[m] = "readCustomer" /\ doc' = doc /\ tries' = tries /\ Loaded(m)
      /\ d \in DocumentType /\ Attempting(Place, MemoryType) /\ customer \in CustomerType
  BY Typed DEF ReadCustomer, conversation, Loaded, Resting, Unopened, IInv, TypeOK,
               FinalizerTypeOK
<1>2. d.stage = Deciding => Sellable(d)
  BY <1>1 DEF Sells, SellableAt
<1>3. next \in Asking \cup {None} /\ (next = None => Sellable(d))
  <2>1. next \in Asking \cup {None} /\ (next = None => Missing(d, customer) = {})
    BY <1>1, NothingMissing
  <2>2. Missing(d, customer) = {} => Sellable(d)
    <3>1. SUFFICES ASSUME Missing(d, customer) = {}
                   PROVE  Sellable(d)
      OBVIOUS
    <3>2. "product" \notin Missing(d, customer) /\ "quantity" \notin Missing(d, customer)
      BY <3>1
    <3> QED
      BY <3>2 DEF Missing, Sellable, Slots
  <2> QED
    BY <2>1, <2>2
<1>4. OthersStay(m)
  BY <1>1 DEF ReadCustomer, Hold, Go, Attempting, OthersStay
<1>5. CASE next # None /\ ~(d.stage = Deciding /\ d.decision # None)
  <2>1. pc'[m] = "save" /\ State(m)' = [d EXCEPT !.stage = next]
    BY <1>1, <1>5 DEF ReadCustomer, Hold, Go, Attempting, State
  <2>2. (State(m)').stage # Deciding
    <3>1. next # Deciding
      BY <1>3, <1>5 DEF Asking, Deciding
    <3> HIDE DEF next
    <3> QED
      BY <1>1, <2>1, <3>1 DEF DocumentType
  <2>3. SellableAt(m)'
    BY <2>1, <2>2 DEF SellableAt, Finalizing
  <2> QED
    BY <1>1, <1>4, <2>3, SellsStep
<1>6. CASE next = None \/ (d.stage = Deciding /\ d.decision # None)
  <2>1. State(m)' = d
    BY <1>1, <1>6 DEF ReadCustomer, Hold, Go, Attempting, State
  <2>2. SellableAt(m)'
    BY <1>2, <1>3, <1>6, <2>1 DEF SellableAt, Sellable
  <2> QED
    BY <1>1, <1>4, <2>2, SellsStep
<1> QED
  BY <1>5, <1>6

LEMMA OpenSells ==
  ASSUME IInv, Sells, Workers = 1, NEW m \in Messages, FindOpenOrder(m)
  PROVE  Sells'
<1>1. /\ pc[m] = "openOrder" /\ doc' = doc /\ tries' = tries /\ Loaded(m)
      /\ State(m) \in DocumentType /\ mem[m] \in MemoryType /\ Attempting(Place, MemoryType)
  BY Typed DEF FindOpenOrder, conversation, Loaded, Resting, Unopened, IInv
<1>2. Sellable(State(m))
  BY <1>1 DEF Sells, SellableAt
<1>3. /\ OthersStay(m)
      /\ (State(m)').product = State(m).product /\ (State(m)').quantity = State(m).quantity
  <2>1. CASE Go(m, "details") /\ mem' = mem
    BY <1>1, <2>1 DEF Go, Attempting, OthersStay, State
  <2>2. CASE \E o \in 1..Len(orders) :
               /\ mem' = [mem EXCEPT ![m].state.pending = o, ![m].state.stage = Deciding]
               /\ Go(m, "save")
    BY <1>1, <2>2 DEF Go, Attempting, OthersStay, State, MemoryType, DocumentType
  <2> QED
    BY <2>1, <2>2 DEF FindOpenOrder
<1>4. SellableAt(m)'
  BY <1>2, <1>3 DEF SellableAt, Sellable
<1> QED
  BY <1>1, <1>3, <1>4, SellsStep

(* With one worker the document becomes what the attempt has made of it.   *)
LEMMA SaveSells ==
  ASSUME IInv, Lone, Sells, Workers = 1, NEW m \in Messages, SaveState(m)
  PROVE  Sells'
<1>1. /\ pc[m] = "save" /\ Loaded(m) /\ State(m) \in DocumentType
      /\ Attempting(Place, MemoryType) /\ Resting \subseteq Place
  BY Typed DEF SaveState, Loaded, Resting, Unopened, IInv
<1>2. doc # None /\ doc = mem[m].base /\ doc \in DocumentType
  BY <1>1 DEF Lone, LoneAt, IInv, TypeOK
<1>3. State(m).id = doc.id
  BY <1>1, <1>2 DEF IInv, Sound, CopyIsOlder
<1>4. doc' = Saved(m) /\ Finish(m)
  BY <1>2, <1>3 DEF SaveState
<1>5. /\ doc'.stage = State(m).stage /\ doc'.product = State(m).product
      /\ doc'.quantity = State(m).quantity
  <2>1. \A f \in Slots \cup {"id", "stage", "emailAsked", "pending", "decision"} :
          doc'[f] = IF State(m)[f] # doc[f] THEN State(m)[f] ELSE doc[f]
    BY <1>1, <1>2, <1>4, SavedType
  <2> QED
    BY <2>1 DEF Slots
<1>6. doc'.stage = Deciding => Sellable(doc')
  BY <1>1, <1>5 DEF Sells, SellableAt, Sellable
<1>7. Ends(m)
  BY <1>1, <1>4, FinishStep
<1> QED
  BY <1>6, <1>7, SellsStep, RestIsSellable DEF Ends

LEMMA DeleteSells ==
  ASSUME IInv, Sells, Workers = 1, NEW m \in Messages, DeleteState(m)
  PROVE  Sells'
<1>1. Finish(m) /\ doc' \in {None, doc}
  BY DEF DeleteState
<1>2. Ends(m)
  BY <1>1, Typed, FinishStep DEF IInv
<1> QED
  BY <1>1, <1>2, SellsStep, RestIsSellable DEF Ends

LEMMA FinalizerSells ==
  ASSUME IInv, Sells, Workers = 1, NEW m \in Messages, FinalizerStep(m), UNCHANGED conversation
  PROVE  Sells'
<1>1. /\ Attempting(Place, MemoryType) /\ Resting \cup Finalizing \cup {"finalized"} \subseteq Place
      /\ FinalizerTypeOK /\ Ready(m) /\ doc' = doc
  BY Typed DEF IInv, Sound, DecidedIsComplete, conversation
<1>2. pc[m] \in Finalizing
  BY DEF FinalizerStep, UpdateCustomerDetails, CancelRead, CancelSave, CancelLog, CreateOrder,
         IncrementOrderCount, Notify, Finalizing
<1>3. m \in Busy /\ Loaded(m) /\ tries[m] < MaxAttempts
  BY <1>2 DEF Busy, Loaded, Finalizing, Resting, Unopened, IInv, Budget
<1>4. CASE Reject(m)
  BY <1>1, <1>3, <1>4, RejectSells
<1>5. CASE mem' = mem /\ OthersStay(m)
  <2>1. State(m)' = State(m) /\ Sellable(State(m))
    BY <1>2, <1>3, <1>5 DEF State, Sells, SellableAt
  <2>2. SellableAt(m)'
    BY <2>1 DEF SellableAt, Sellable
  <2> QED
    BY <1>1, <1>5, <2>2, SellsStep
<1> QED
  BY <1>1, <1>3, <1>4, <1>5, FinalizerGoes

(* What is not the conversation's leaves every draft alone. *)
LEMMA AsideSells ==
  ASSUME IInv, Sells, Workers = 1, UNCHANGED conversation,
         Crash \/ StaffStep \/ \E m \in Messages : Settle(m)
  PROVE  Sells'
<1>1. Attempting(Place, MemoryType) /\ Resting \subseteq Place /\ doc' = doc
  BY Typed DEF IInv, conversation
<1>2. ASSUME NEW n \in Messages
      PROVE  pc'[n] \in Resting \/ (pc'[n] = pc[n] /\ mem'[n] = mem[n])
  <2>1. CASE Crash
    BY <1>1, <2>1, CrashStep DEF Busy, Resting
  <2>2. CASE StaffStep
    BY <2>2 DEF StaffStep, UpdateStatus, attempts
  <2>3. ASSUME NEW m \in Messages, Settle(m)
        PROVE  pc'[n] \in Resting \/ (pc'[n] = pc[n] /\ mem'[n] = mem[n])
    BY <1>1, <2>3, SettleStep DEF Resting
  <2> QED
    BY <2>1, <2>2, <2>3
<1>3. ASSUME NEW n \in Messages
      PROVE  SellableAt(n)'
  BY <1>2, RestIsSellable DEF Sells, SellableAt, Loaded, State
<1> QED
  BY <1>1, <1>3 DEF Sells

LEMMA SellsInductive ==
  ASSUME IInv, Lone, Sells, [Next]_vars
  PROVE  Sells'
<1>1. SUFFICES ASSUME Workers = 1
               PROVE  Sells'
  BY DEF Sells
<1>2. CASE UNCHANGED vars
  BY <1>2 DEF vars, Sells, SellableAt, Sellable, Loaded, State
<1>3. ASSUME NEW m \in Messages, BotStep(m)
      PROVE  Sells'
  BY <1>1, <1>3, LoadSells, OpeningSells, ReadSells, OpenSells, SaveSells, DeleteSells
     DEF BotStep
<1>4. ASSUME NEW m \in Messages, FinalizerStep(m), UNCHANGED conversation
      PROVE  Sells'
  BY <1>1, <1>4, FinalizerSells
<1>5. ASSUME NEW m \in Messages, Fault(m), UNCHANGED conversation
      PROVE  Sells'
  BY <1>1, <1>5, RejectSells DEF Fault, conversation
<1> QED
  BY <1>1, <1>2, <1>3, <1>4, <1>5, AsideSells DEF Next

(* With one worker every draft that is finalized, Order's schema takes: no *)
(* order is cancelled for one it refuses, whatever is tried again.         *)
THEOREM Acceptance == Spec => []FinalizedIsAccepted
<1>1. Init => Sells
  BY DEF Init, InitFinalizer, Sells, SellableAt, Loaded, Resting
<1>2. IInv /\ Lone /\ Sells /\ [Next]_vars => Sells'
  BY SellsInductive
<1>3. IInv /\ Sells => FinalizedIsAccepted
  <2>1. SUFFICES ASSUME IInv, Sells, Workers = 1, NEW m \in Messages,
                        pc[m] \in {"details", "cancelRead", "cancelSave", "cancelLog", "create"}
                 PROVE  OrderValidates(NewOrder(m))
    BY DEF FinalizedIsAccepted
  <2>2. Loaded(m) /\ pc[m] \in Finalizing
    BY <2>1 DEF Loaded, Resting, Unopened, Finalizing
  <2>3. Sellable(State(m)) /\ State(m).quantity \in Nat \cup {None}
    BY <2>1, <2>2 DEF Sells, SellableAt, IInv, Sound, DecidedIsComplete, Ready, Whole, IsDraft
  <2> QED
    BY <2>3 DEF Sellable, OrderValidates, NewOrder, Given
<1> QED
  BY <1>1, <1>2, <1>3, Invariance, LoneInvariance, PTL DEF Spec
=============================================================================
