--------------------------- MODULE ConversationBot ---------------------------
(***************************************************************************)
(* The rule-based bot: it asks one customer for one detail after another   *)
(* and finalizes the order when it has them all.  Between messages the     *)
(* conversation lives in a ConversationState document; an attempt loads    *)
(* it, applies its message to the stage it finds there, and saves the      *)
(* fields it changed, with calls of the database in between.  Nothing but  *)
(* the number of workers keeps two attempts at messages of the customer    *)
(* apart, and messages may be handled in any order: a parse by the AI or a *)
(* retry takes longer than another message.                                *)
(***************************************************************************)
EXTENDS OrderFinalizer

CONSTANTS
  Parses,   \* what parsing a message may find, a set of sets of findings
  Text      \* what a message says when it is taken for an answer

Slots == {"name", "phone", "product", "quantity", "address", "email"}

Findings == {"order", "product", "quantity", "phone", "address"}

Asking == {"awaiting_name", "awaiting_phone", "awaiting_product",
           "awaiting_quantity", "awaiting_address", "awaiting_email"}

Deciding == "awaiting_pending_order_decision"

DocumentType ==
  [id : Nat \ {0}, stage : Asking \cup {Deciding},
   name : Messages \cup {None}, phone : Messages \cup {None},
   product : Messages \cup {None}, quantity : Nat \cup {None},
   address : Messages \cup {None}, email : Messages \cup {None},
   emailAsked : BOOLEAN, pending : Nat \cup {None},
   decision : {None, "keep", "replace"}]

MemoryType ==
  [base : DocumentType \cup {None}, state : DocumentType,
   customer : CustomerType \cup {None}]

ASSUME BotAssumption ==
  /\ Parses \in [Messages -> (SUBSET SUBSET Findings) \ {{}}]
  /\ Text \in [Messages -> [phone : BOOLEAN, number : Nat \cup {None},
                            email : BOOLEAN, digits : BOOLEAN, keep : BOOLEAN]]
  /\ None \notin Asking \cup DocumentType \cup CustomerType \cup MemoryType

VARIABLES
  doc,      \* the ConversationState document, None if there is none
  opened    \* how many there have been; the id of the last

conversation == <<doc, opened>>

vars == <<customer, orders, pc, mem, tries, updates, faults, crashes, doc, opened>>

Init ==
  /\ InitFinalizer
  /\ doc = None
  /\ opened = 0

----------------------------------------------------------------------------
(* The answer to a stage. *)

(* Whether the text of m answers the question of a stage. *)
Answers(m, stage) ==
  /\ stage = "awaiting_phone" => Text[m].phone
  /\ stage = "awaiting_quantity" => Text[m].number # None

(* applyReply of an answer: any text is a name, a product or an address,   *)
(* and what does not say both or keep means replace.                       *)
ApplyReply(m, d) ==
  CASE d.stage = "awaiting_name"     -> [d EXCEPT !.name = m]
    [] d.stage = "awaiting_phone"    -> [d EXCEPT !.phone = m]
    [] d.stage = "awaiting_product"  -> [d EXCEPT !.product = m]
    [] d.stage = "awaiting_quantity" -> [d EXCEPT !.quantity = Text[m].number]
    [] d.stage = "awaiting_address"  -> [d EXCEPT !.address = m]
    [] d.stage = "awaiting_email"    -> [d EXCEPT !.email = IF Text[m].email THEN m ELSE @,
                                                  !.emailAsked = TRUE]
    [] d.stage = Deciding            -> [d EXCEPT !.decision = IF Text[m].keep
                                                               THEN "keep" ELSE "replace"]

(* A name of digits only is the sender's id, or looks like it. *)
HasRealName(c) == c.name # None /\ (c.name = Earlier \/ ~Text[c.name].digits)

(* Mutant: a quantity of 0 is one. *)
Missing_ZeroCounts(d, c) ==
  {s \in Slots :
    CASE s = "name"     -> d.name = None /\ ~HasRealName(c)
      [] s = "phone"    -> d.phone = None /\ c.phone = None
      [] s = "product"  -> d.product = None
      [] s = "quantity" -> d.quantity = None
      [] s = "address"  -> d.address = None /\ c.address = None
      [] s = "email"    -> d.email = None /\ c.email = None /\ ~d.emailAsked}

(* What is missing from a draft for a customer; a quantity of 0 is. *)
Missing(d, c) ==
  {s \in Slots :
    CASE s = "name"     -> d.name = None /\ ~HasRealName(c)
      [] s = "phone"    -> d.phone = None /\ c.phone = None
      [] s = "product"  -> d.product = None
      [] s = "quantity" -> d.quantity \in {None, 0}
      [] s = "address"  -> d.address = None /\ c.address = None
      [] s = "email"    -> d.email = None /\ c.email = None /\ ~d.emailAsked}

(* The stage of the first of them, in the order they are asked for. *)
FindNextMissingStage(d, c) ==
  LET missing == Missing(d, c) IN
  IF "name" \in missing THEN "awaiting_name"
  ELSE IF "phone" \in missing THEN "awaiting_phone"
  ELSE IF "product" \in missing THEN "awaiting_product"
  ELSE IF "quantity" \in missing THEN "awaiting_quantity"
  ELSE IF "address" \in missing THEN "awaiting_address"
  ELSE IF "email" \in missing THEN "awaiting_email"
  ELSE None

----------------------------------------------------------------------------
(* handleConversationMessage. *)

Hold(m, base, now, c) ==
  mem' = [mem EXCEPT ![m] = [base |-> base, state |-> now, customer |-> c]]

(* The document as ConversationState.create makes it from a parse. *)
FreshDocument(m, found) ==
  [id |-> opened + 1, stage |-> "awaiting_name", name |-> None,
   phone    |-> IF "phone" \in found THEN m ELSE None,
   product  |-> IF "product" \in found THEN m ELSE None,
   quantity |-> IF "quantity" \in found THEN 1 ELSE None,
   address  |-> IF "address" \in found THEN m ELSE None,
   email |-> None, emailAsked |-> FALSE, pending |-> None, decision |-> None]

(* The worker takes the message; ConversationState.findOne; applyReply.    *)
(* Without a conversation only an order opens one.                         *)
LoadState(m) ==
  /\ pc[m] = "queued"
  /\ Cardinality(Busy) < Workers
  /\ IF doc # None
     THEN LET answered == Answers(m, doc.stage) IN
          /\ Hold(m, doc, IF answered THEN ApplyReply(m, doc) ELSE doc, None)
          /\ Go(m, IF answered THEN "readCustomer" ELSE "save")
     ELSE \E found \in Parses[m] :
            IF "order" \in found
            THEN Hold(m, None, FreshDocument(m, found), None) /\ Go(m, "findCustomer")
            ELSE Go(m, "settle") /\ UNCHANGED mem
  /\ UNCHANGED <<documents, tries, bounds, conversation>>

(* findOrCreateCustomer: the find ... *)
FindCustomer(m) ==
  /\ pc[m] = "findCustomer"
  /\ Go(m, IF customer.exists THEN "createState" ELSE "insertCustomer")
  /\ UNCHANGED <<documents, mem, tries, bounds, conversation>>

(* ... and the create. *)
InsertCustomer(m) == AddCustomer(m, "createState") /\ UNCHANGED conversation

(* ConversationState.create: one document per customer. *)
CreateState(m) ==
  /\ pc[m] = "createState"
  /\ IF doc # None
     THEN Reject(m) /\ UNCHANGED conversation
     ELSE LET fresh == [State(m) EXCEPT !.id = opened + 1] IN
          /\ doc' = fresh
          /\ opened' = opened + 1
          /\ Hold(m, fresh, fresh, None)
          /\ Go(m, "readCustomer")
          /\ UNCHANGED tries
  /\ UNCHANGED <<documents, bounds>>

(* Mutant: the stage of the next question is not recorded. *)
ReadCustomer_StageKept(m) ==
  /\ pc[m] = "readCustomer"
  /\ LET d == State(m)
         next == FindNextMissingStage(d, customer) IN
     IF d.stage = Deciding /\ d.decision # None
     THEN Hold(m, mem[m].base, d, customer) /\ Go(m, "details")
     ELSE IF next # None
     THEN Hold(m, mem[m].base, d, customer) /\ Go(m, "save")
     ELSE /\ Hold(m, mem[m].base, d, customer)
          /\ Go(m, IF d.pending = None THEN "openOrder" ELSE "details")
  /\ UNCHANGED <<documents, tries, bounds, conversation>>

(* Customer.findOne, and what follows without another wait: a decision     *)
(* finalizes, a missing detail is asked for, else open orders are looked   *)
(* up unless that was done before.                                         *)
ReadCustomer(m) ==
  /\ pc[m] = "readCustomer"
  /\ LET d == State(m)
         next == FindNextMissingStage(d, customer) IN
     IF d.stage = Deciding /\ d.decision # None
     THEN Hold(m, mem[m].base, d, customer) /\ Go(m, "details")
     ELSE IF next # None
     THEN Hold(m, mem[m].base, [d EXCEPT !.stage = next], customer) /\ Go(m, "save")
     ELSE /\ Hold(m, mem[m].base, d, customer)
          /\ Go(m, IF d.pending = None THEN "openOrder" ELSE "details")
  /\ UNCHANGED <<documents, tries, bounds, conversation>>

(* Mutant: only a pending order counts as open. *)
FindOpenOrder_PendingOnly(m) ==
  /\ pc[m] = "openOrder"
  /\ LET open == {o \in 1..Len(orders) : orders[o].status = "pending"} IN
     IF open = {}
     THEN Go(m, "details") /\ UNCHANGED mem
     ELSE \E o \in open :
            /\ \A p \in open : p <= o
            /\ mem' = [mem EXCEPT ![m].state.pending = o, ![m].state.stage = Deciding]
            /\ Go(m, "save")
  /\ UNCHANGED <<documents, tries, bounds, conversation>>

(* Order.findOne of the newest open order. *)
FindOpenOrder(m) ==
  /\ pc[m] = "openOrder"
  /\ LET open == {o \in 1..Len(orders) : orders[o].status \in Open} IN
     IF open = {}
     THEN Go(m, "details") /\ UNCHANGED mem
     ELSE \E o \in open :
            /\ \A p \in open : p <= o
            /\ mem' = [mem EXCEPT ![m].state.pending = o, ![m].state.stage = Deciding]
            /\ Go(m, "save")
  /\ UNCHANGED <<documents, tries, bounds, conversation>>

(* What save writes: the fields changed since the load, over what the      *)
(* document has become meanwhile.                                          *)
Saved(m) ==
  [f \in DOMAIN doc |->
    IF State(m)[f] # mem[m].base[f] THEN State(m)[f] ELSE doc[f]]

(* state.save, which rejects when the document is gone, and the reply,     *)
(* which swallows its errors.                                              *)
SaveState(m) ==
  /\ pc[m] = "save"
  /\ IF doc # None /\ doc.id = State(m).id
     THEN doc' = Saved(m) /\ Finish(m)
     ELSE Reject(m) /\ UNCHANGED doc
  /\ UNCHANGED <<documents, opened, bounds>>

(* Mutant: the conversation is not closed. *)
DeleteState_Kept(m) ==
  /\ pc[m] = "finalized"
  /\ doc' = doc
  /\ Finish(m)
  /\ UNCHANGED <<documents, opened, bounds>>

(* ConversationState.deleteOne, of this document only, and the reply. *)
DeleteState(m) ==
  /\ pc[m] = "finalized"
  /\ doc' = IF doc # None /\ doc.id = State(m).id THEN None ELSE doc
  /\ Finish(m)
  /\ UNCHANGED <<documents, opened, bounds>>

BotStep(m) ==
  \/ LoadState(m) \/ FindCustomer(m) \/ InsertCustomer(m) \/ CreateState(m)
  \/ ReadCustomer(m) \/ FindOpenOrder(m) \/ SaveState(m) \/ DeleteState(m)

Next ==
  \/ \E m \in Messages :
       BotStep(m) \/ ((FinalizerStep(m) \/ Settle(m) \/ Fault(m)) /\ UNCHANGED conversation)
  \/ (Crash \/ StaffStep) /\ UNCHANGED conversation

Spec == Init /\ [][Next]_vars

----------------------------------------------------------------------------
(* Correctness. *)

Place == Resting \cup Finalizing \cup
  {"findCustomer", "insertCustomer", "createState", "readCustomer", "openOrder",
   "save", "finalized"}

(* Every variable keeps its type, and an attempt holds memory exactly      *)
(* while it runs.                                                          *)
TypeOK ==
  /\ FinalizerTypeOK
  /\ pc \in [Messages -> Place]
  /\ mem \in [Messages -> MemoryType \cup {None}]
  /\ doc \in DocumentType \cup {None}
  /\ opened \in Nat
  /\ \A m \in Messages : mem[m] # None <=> m \in Running

(* An order is cancelled only for a conversation that is still open or     *)
(* that an order has come of: whatever fails after the cancellation, and   *)
(* whoever closes the conversation, the customer is not left with neither. *)
CancelledIsCovered ==
  \A o \in 1..Len(orders) :
    LET c == orders[o].cancelledFor IN
    c # 0 => \/ doc # None /\ doc.id = c
             \/ \E p \in 1..Len(orders) : orders[p].conversation = c

(* Whatever fails in between, neither the cancellation before an order nor *)
(* the count after it is left without it (orderFinalizer.ts:54-91).        *)
CustomerIsCovered == CancelledIsCovered /\ CounterNeverAhead

(* The promise of the bot, as the documents hold it. *)
Intake == INSTANCE OrderIntake WITH
  current <- IF doc = None THEN 0 ELSE doc.id,
  filled <- IF doc = None THEN {} ELSE {s \in Slots : doc[s] # None},
  placed <- {orders[o].conversation : o \in OrdersOfBot}

(* The bot keeps it at any number of workers and with any failure.         *)
ImplementsIntake == Intake!Spec

----------------------------------------------------------------------------
(* What holds of one worker only. *)

Undisturbed == Workers = 1 /\ crashes = 0 /\ \A m \in Messages : tries[m] = 0

(* With one worker and nothing going wrong the question a customer has     *)
(* been asked is always the one the stored draft and the customer's        *)
(* details call for: the stage and the draft agree between messages.       *)
StageAsksWhatIsMissing ==
  Undisturbed /\ doc # None /\ Running = {} =>
    LET next == FindNextMissingStage(doc, customer) IN
    doc.stage = IF next = None THEN Deciding ELSE next

(* With one worker no draft is finalized that Order's schema refuses, and  *)
(* no order cancelled for one: an answer of 0 is asked for again, whatever *)
(* is tried again in between, and never stored with a draft that is to be  *)
(* decided on (conversationBot.service.ts:139, findNextMissingStage).      *)
FinalizedIsAccepted ==
  Workers = 1 =>
    \A m \in Messages :
      pc[m] \in {"details", "cancelRead", "cancelSave", "cancelLog", "create"} =>
        OrderValidates(NewOrder(m))

(* With one worker two orders come of a conversation only when the message *)
(* that placed the first was tried again.                                  *)
SecondOrderIsRetry ==
  Workers = 1 =>
    \A o, p \in OrdersOfBot :
      o < p /\ orders[o].conversation = orders[p].conversation =>
        tries[orders[o].by] > 0 \/ crashes > 0

(* With one worker a customer has another open order only for a decision   *)
(* to keep both, or because an attempt that had placed one was tried again.*)
OpenOrdersAreWanted ==
  Workers = 1 /\ updates = 0 /\ crashes = 0 => OpenOrdersAccounted
=============================================================================
