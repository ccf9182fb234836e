----------------------------- MODULE GrokAgent -----------------------------
(***************************************************************************)
(* The AI sales agent: for each message of a customer a language model is  *)
(* asked up to MaxIterations times what to do next.  It may call tools,    *)
(* which change the attempt's copy of the conversation, or answer, which   *)
(* ends the turn.  The model may call any tool at any time; what keeps it  *)
(* from ordering too early are the checks of finalize_order.               *)
(*                                                                         *)
(* The copy is taken at the start of the turn, and the whole draft, the    *)
(* decision and the history are written back from it, calls of the model   *)
(* later, into whatever conversation the customer has then.                *)
(***************************************************************************)
EXTENDS OrderFinalizer

CONSTANTS
  Tells,          \* sets of facts the model may take from a message at once
  MaxIterations   \* calls of the model in a turn: 5 in grokAgentBot.service.ts

Slots == {"name", "phone", "product", "quantity", "address", "email"}

Facts == {"name", "phone", "item", "address", "email"}

DocumentType ==
  [id : Nat \ {0}, name : Messages \cup {None}, phone : Messages \cup {None},
   product : Messages \cup {None}, quantity : {1, None},
   address : Messages \cup {None}, email : Messages \cup {None},
   pending : Nat \cup {None}, decision : {None, "keep", "replace"},
   resolver : Messages \cup {None}, history : Seq(Messages)]

MemoryType ==
  [state : DocumentType \cup {None}, customer : CustomerType, candidate : Nat \cup {None},
   decided : BOOLEAN, round : 0..MaxIterations]

ASSUME AgentAssumption ==
  /\ Tells \in [Messages -> (SUBSET SUBSET Facts) \ {{}}]
  /\ MaxIterations \in Nat \ {0}
  /\ None \notin DocumentType \cup MemoryType

VARIABLES
  doc,        \* the GrokConversationState document, None if there is none
  opened,     \* how many there have been; the id of the last
  overlapped  \* two turns of the customer have run at once

conversation == <<doc, opened>>

vars == <<customer, orders, pc, mem, tries, updates, faults, crashes, doc, opened,
          overlapped>>

Init ==
  /\ InitFinalizer
  /\ doc = None
  /\ opened = 0
  /\ overlapped = FALSE

(* A conversation as the upsert makes it.  The message that resolved its   *)
(* decision is not in the document; emailAsked, which nothing reads, is    *)
(* left out.                                                               *)
FreshDocument(id) ==
  [id |-> id, name |-> None, phone |-> None, product |-> None, quantity |-> None,
   address |-> None, email |-> None, pending |-> None, decision |-> None,
   resolver |-> None, history |-> <<>>]

----------------------------------------------------------------------------
(* The start of a turn. *)

(* The worker takes the message; findOrCreateCustomer. *)
FindCustomer(m) ==
  /\ pc[m] = "queued"
  /\ Cardinality(Busy) < Workers
  /\ Go(m, IF customer.exists THEN "readCustomer" ELSE "insertCustomer")
  /\ overlapped' = (overlapped \/ Running # {})
  /\ UNCHANGED <<documents, mem, tries, bounds, conversation>>

InsertCustomer(m) ==
  AddCustomer(m, "readCustomer") /\ UNCHANGED <<conversation, overlapped>>

ReadCustomer(m) ==
  /\ pc[m] = "readCustomer"
  /\ mem' = [mem EXCEPT ![m] =
       [state |-> None, customer |-> customer, candidate |-> None,
        decided |-> FALSE, round |-> 0]]
  /\ Go(m, "openState")
  /\ UNCHANGED <<documents, tries, bounds, conversation, overlapped>>

(* Mutant: the draft is set also when there is a document. *)
OpenState_Reset(m) ==
  /\ pc[m] = "openState"
  /\ doc' = FreshDocument(IF doc = None THEN opened + 1 ELSE doc.id)
  /\ opened' = IF doc = None THEN opened + 1 ELSE opened
  /\ mem' = [mem EXCEPT ![m].state = doc', ![m].decided = doc'.decision # None]
  /\ Go(m, IF doc'.pending = None THEN "findOpenOrder" ELSE "ask")
  /\ UNCHANGED <<documents, tries, bounds, overlapped>>

(* findOneAndUpdate with upsert; decisionResolvedBeforeThisTurn. *)
OpenState(m) ==
  /\ pc[m] = "openState"
  /\ doc' = IF doc = None THEN FreshDocument(opened + 1) ELSE doc
  /\ opened' = IF doc = None THEN opened + 1 ELSE opened
  /\ mem' = [mem EXCEPT ![m].state = doc', ![m].decided = doc'.decision # None]
  /\ Go(m, IF doc'.pending = None THEN "findOpenOrder" ELSE "ask")
  /\ UNCHANGED <<documents, tries, bounds, overlapped>>

(* The newest open order becomes the candidate the customer is asked about. *)
FindOpenOrder(m) ==
  /\ pc[m] = "findOpenOrder"
  /\ LET open == {o \in 1..Len(orders) : orders[o].status \in Open} IN
     IF open = {}
     THEN UNCHANGED mem
     ELSE \E o \in open :
            /\ \A p \in open : p <= o
            /\ mem' = [mem EXCEPT ![m].candidate = o]
  /\ Go(m, "ask")
  /\ UNCHANGED <<documents, tries, bounds, conversation, overlapped>>

----------------------------------------------------------------------------
(* The loop: the response of the model to one request. *)

(* grokChatCompletion gives up: the customer is asked to send it again. *)
NoResponse(m) ==
  /\ pc[m] = "ask"
  /\ Finish(m)
  /\ UNCHANGED <<documents, bounds, conversation, overlapped>>

(* It answers, and the answer is sent. *)
AnswerText(m) ==
  /\ pc[m] = "ask"
  /\ Go(m, "history")
  /\ UNCHANGED <<documents, mem, tries, bounds, conversation, overlapped>>

----------------------------------------------------------------------------
(* Its tools. *)

(* The save_* tools: the conversation with the facts the model has passed. *)
Told(d, m, facts) ==
  [d EXCEPT !.name     = IF "name" \in facts THEN m ELSE @,
            !.phone    = IF "phone" \in facts THEN m ELSE @,
            !.product  = IF "item" \in facts THEN m ELSE @,
            !.quantity = IF "item" \in facts THEN 1 ELSE @,
            !.address  = IF "address" \in facts THEN m ELSE @,
            !.email    = IF "email" \in facts THEN m ELSE @]

(* resolve_pending_order: only of an open order found in this turn. *)
Resolved(d, m, decision) ==
  IF mem[m].candidate = None \/ decision = None
  THEN d
  ELSE [d EXCEPT !.pending = mem[m].candidate, !.decision = decision, !.resolver = m]

(* missingRequiredFields; a name of digits, which is none, is not told.    *)
Missing(d, c) ==
  {s \in Slots \ {"email"} :
    CASE s = "name"     -> d.name = None /\ c.name = None
      [] s = "phone"    -> d.phone = None /\ c.phone = None
      [] s = "product"  -> d.product = None
      [] s = "quantity" -> d.quantity = None
      [] s = "address"  -> d.address = None /\ c.address = None}

(* Mutant: a decision of the same turn is good enough. *)
Finalizable_SameTurn(m, d) ==
  /\ Missing(d, mem[m].customer) = {}
  /\ d.pending # None => d.decision # None
  /\ mem[m].candidate # None => d.decision # None

(* Mutant: an open order found this turn is not asked about. *)
Finalizable_Unasked(m, d) ==
  /\ Missing(d, mem[m].customer) = {}
  /\ d.pending # None => d.decision # None

(* Mutant: missing details are not checked. *)
Finalizable_Unchecked(m, d) ==
  /\ d.product # None
  /\ d.pending # None => d.decision # None
  /\ mem[m].candidate # None => mem[m].decided

(* What finalize_order checks of a confirmed call. *)
Finalizable(m, d) ==
  /\ Missing(d, mem[m].customer) = {}
  /\ d.pending # None => d.decision # None
  /\ mem[m].candidate # None => mem[m].decided

(* The tools of one response, as calls or as text that is recovered, in    *)
(* any order and with any arguments; a refused one changes nothing.  None  *)
(* of them waits until finalize_order is accepted, which ends the turn, or *)
(* the last one has run.                                                   *)
CallTools(m) ==
  /\ pc[m] = "ask"
  /\ \E facts \in Tells[m], decision \in {None, "keep", "replace"} :
       LET d == Resolved(Told(State(m), m, facts), m, decision) IN
       /\ mem' = [mem EXCEPT ![m].state = d]
       /\ \/ Go(m, "persist")
          \/ Finalizable(m, d) /\ Go(m, "details")
  /\ UNCHANGED <<documents, tries, bounds, conversation, overlapped>>

----------------------------------------------------------------------------
(* What is written back. *)

(* The whole draft, and a decision if there is one: Mongoose leaves        *)
(* undefined fields out of an update.                                      *)
Persisted(m) ==
  [doc EXCEPT !.name = State(m).name, !.phone = State(m).phone,
              !.product = State(m).product, !.quantity = State(m).quantity,
              !.address = State(m).address, !.email = State(m).email,
              !.pending = Given(State(m).pending, @),
              !.decision = Given(State(m).decision, @),
              !.resolver = Given(State(m).resolver, @)]

(* Mutant: the model is asked again and again. *)
PersistState_Endless(m) ==
  /\ pc[m] = "persist"
  /\ doc' = IF doc = None THEN None ELSE Persisted(m)
  /\ mem' = [mem EXCEPT ![m].round = @ + 1]
  /\ Go(m, "ask")
  /\ UNCHANGED <<documents, tries, bounds, opened, overlapped>>

(* The tools have run.  At the last request the customer is put off.       *)
PersistState(m) ==
  /\ pc[m] = "persist"
  /\ doc' = IF doc = None THEN None ELSE Persisted(m)
  /\ mem' = [mem EXCEPT ![m].round = @ + 1]
  /\ Go(m, IF mem'[m].round < MaxIterations THEN "ask" ELSE "history")
  /\ UNCHANGED <<documents, tries, bounds, opened, overlapped>>

(* The history of the turn's start and this message. *)
Remembered(m) ==
  IF doc = None THEN None ELSE [doc EXCEPT !.history = Append(State(m).history, m)]

(* appendHistory at the end of a turn without an order ... *)
AppendHistory(m) ==
  /\ pc[m] = "history"
  /\ doc' = Remembered(m)
  /\ Finish(m)
  /\ UNCHANGED <<documents, bounds, opened, overlapped>>

(* ... and of one with an order, once the confirmation is sent. *)
CloseHistory(m) ==
  /\ pc[m] = "finalized"
  /\ doc' = Remembered(m)
  /\ Go(m, "close")
  /\ UNCHANGED <<documents, mem, tries, bounds, opened, overlapped>>

(* deleteOne of the conversation the customer has now, whichever it is. *)
DeleteState(m) ==
  /\ pc[m] = "close"
  /\ doc' = None
  /\ Finish(m)
  /\ UNCHANGED <<documents, bounds, opened, overlapped>>

AgentStep(m) ==
  \/ FindCustomer(m) \/ InsertCustomer(m) \/ ReadCustomer(m) \/ OpenState(m)
  \/ FindOpenOrder(m) \/ NoResponse(m) \/ AnswerText(m) \/ CallTools(m)
  \/ PersistState(m) \/ AppendHistory(m) \/ CloseHistory(m) \/ DeleteState(m)

(* Only the first request has a call before it that may fail. *)
CallFails(m) == Fault(m) /\ (pc[m] = "ask" => mem[m].round = 0)

Next ==
  \/ \E m \in Messages :
       \/ AgentStep(m)
       \/ (FinalizerStep(m) \/ Settle(m) \/ CallFails(m)) /\ UNCHANGED <<conversation, overlapped>>
  \/ (Crash \/ StaffStep) /\ UNCHANGED <<conversation, overlapped>>

Spec == Init /\ [][Next]_vars

----------------------------------------------------------------------------
(* Correctness. *)

Place == Resting \cup Finalizing \cup
  {"insertCustomer", "readCustomer", "openState", "findOpenOrder", "ask", "persist",
   "history", "finalized", "close"}

(* Every variable keeps its type, and a turn has memory once it has read   *)
(* the customer.                                                           *)
TypeOK ==
  /\ FinalizerTypeOK
  /\ pc \in [Messages -> Place]
  /\ mem \in [Messages -> MemoryType \cup {None}]
  /\ doc \in DocumentType \cup {None}
  /\ opened \in Nat
  /\ overlapped \in BOOLEAN
  /\ \A m \in Messages :
       mem[m] = None <=> pc[m] \in Resting \cup {"insertCustomer", "readCustomer"}

(* A pending order is never on record without its decision, in no order of *)
(* partial updates of two turns, so the agent is never stuck between       *)
(* finalize_order, which wants the decision, and resolve_pending_order,    *)
(* which refuses once the order is on record.                              *)
PendingIsDecided ==
  /\ doc # None => (doc.pending = None <=> doc.decision = None)
  /\ \A m \in Messages : mem[m] # None /\ State(m) # None =>
       (State(m).pending = None <=> State(m).decision = None)

(* An order is placed under a decision of another message than the one     *)
(* that confirms it, so the customer has been heard in between, unless the *)
(* message was tried again (decisionResolvedBeforeThisTurn).               *)
DecisionHadARoundTrip ==
  \A m \in Messages :
    pc[m] = "details" /\ State(m).decision # None /\ tries[m] = 0 /\ crashes = 0 =>
      State(m).resolver # m

(* An order on record is dealt with as the customer has said: the decision *)
(* is there, and the customer has answered since (grokTools.ts:208-241).   *)
DecisionIsTheCustomers == PendingIsDecided /\ DecisionHadARoundTrip

(* While turns do not overlap a customer has another open order only by a  *)
(* decision to keep both, or because a turn was tried again.               *)
OpenOrdersAreWanted ==
  ~overlapped /\ updates = 0 /\ crashes = 0 => OpenOrdersAccounted

(* While turns do not overlap an order is cancelled only for a             *)
(* conversation that is still open or that an order has come of.           *)
CancelledIsCovered ==
  ~overlapped =>
    \A o \in 1..Len(orders) :
      LET c == orders[o].cancelledFor IN
      c # 0 => \/ doc # None /\ doc.id = c
               \/ \E p \in 1..Len(orders) : orders[p].conversation = c

(* What orders there are, and are not any more, is as the customer wants.  *)
OrdersAreWanted == OpenOrdersAreWanted /\ CancelledIsCovered

(* While turns do not overlap the agent keeps what the customer has told   *)
(* it until an order has come of the conversation.                         *)
NothingIsForgotten ==
  [][~overlapped' /\ doc # None =>
       IF doc' = None
       THEN \E o \in OrdersOfBot : orders[o].conversation = doc.id
       ELSE \A s \in Slots : doc[s] # None => doc'[s] # None]_vars
=============================================================================
