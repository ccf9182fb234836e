--------------------------- MODULE DashboardProofs ---------------------------
(***************************************************************************)
(* Theorems of DashboardFeed, for all sets of orders, changes and tabs,    *)
(* and all bounds.                                                         *)
(***************************************************************************)
EXTENDS DashboardFeed, SequenceTheorems, TLAPS

(* What a step of the whole is for the orders.                             *)
OrderNext ==
  \/ \E o \in Orders : CreateOrder(o) \/ AnnounceOrder(o) \/ FailCreation(o)
  \/ \E c \in Changes :
       \/ \E o \in Orders, to \in Status : FindOrder(c, o, to)
       \/ SaveStatus(c) \/ RecordStatus(c) \/ AnnounceChange(c) \/ FailChange(c)
  \/ Crash
  \/ UNCHANGED orderVars

LEMMA StepOfOrders ==
  ASSUME [Next]_vars
  PROVE  OrderNext
<1>1. CASE ServerStep
  BY <1>1 DEF ServerStep, OrderNext
<1>2. ASSUME NEW o \in Orders, EmitOrderNew(o) PROVE OrderNext
  BY <1>2 DEF EmitOrderNew, OrderNext
<1>3. ASSUME NEW c \in Changes, EmitOrderUpdated(c) PROVE OrderNext
  BY <1>3 DEF EmitOrderUpdated, OrderNext
<1>4. CASE ServerCrash
  BY <1>4 DEF ServerCrash, OrderNext
<1>5. ASSUME NEW t \in Tabs, LoadPage(t) \/ LogIn(t) \/ ProfileLoaded(t) \/ MountLayout(t)
      PROVE  UNCHANGED orderVars
  BY <1>5 DEF LoadPage, LogIn, ProfileLoaded, MountLayout
<1>6. ASSUME NEW t \in Tabs, NEW i \in Sockets,
             SocketConnects(t, i) \/ JoinTenant(t, i) \/ SocketDrops(t, i) \/ HandleEvent(t, i)
      PROVE  UNCHANGED orderVars
  BY <1>6 DEF SocketConnects, JoinTenant, SocketDrops, HandleEvent
<1>7. ASSUME NEW t \in Tabs, NEW f \in Fetches,
             FetchOrders(t, f) \/ FindOrders(t, f) \/ OrdersFetched(t, f)
      PROVE  UNCHANGED orderVars
  BY <1>7 DEF FetchOrders, FindOrders, OrdersFetched
<1>8. CASE UNCHANGED vars
  BY <1>8 DEF vars, orderVars, OrderNext
<1>9. UNCHANGED orderVars => OrderNext
  BY DEF OrderNext
<1> QED
  BY <1>1, <1>2, <1>3, <1>4, <1>5, <1>6, <1>7, <1>8, <1>9 DEF Next

----------------------------------------------------------------------------
Entry == [from : Status, to : Status]

(* A change that is under way for the order.                               *)
Underway(c, o) == change[c].at \in {"save", "record", "announce"} /\ change[c].order = o

(* HistoryTells, of one order.                                             *)
Accounted(o) ==
  LET n == Len(history[o])
      Entries == {Reached(o, i) : i \in 0 .. n}
  IN /\ status[o] \in Entries \/ Unrecorded(o, status[o])
     /\ o \notin overlapped =>
          /\ \A i \in 1 .. n : history[o][i].from = Reached(o, i - 1)
          /\ status[o] = Reached(o, n) \/ Unrecorded(o, status[o])

(* Of an order whose changes have not overlapped at most one is under way. *)
(* It found the status that the history ends in, and that is still the     *)
(* order's until it has saved its own.                                     *)
Alone(o) ==
  \A c \in Changes : Underway(c, o) =>
    /\ \A d \in Changes : Underway(d, o) => d = c
    /\ change[c].at = "save" => change[c].from = status[o]
    /\ change[c].at = "record" =>
         change[c].from = Reached(o, Len(history[o])) /\ change[c].to = status[o]

OrderInv(o) ==
  /\ opening[o] = "none" => status[o] = None
  /\ status[o] = None => history[o] = <<>> /\ \A c \in Changes : ~Underway(c, o)
  /\ status[o] # None /\ o \notin broken =>
       Accounted(o) /\ (o \notin overlapped => Alone(o))

ChangeInv ==
  /\ OrderTypeOK
  /\ \A c \in Changes : change[c].at \notin {"idle"} =>
       change[c].order \in Orders /\ {change[c].from, change[c].to} \subseteq Status
  /\ \A o \in Orders : OrderInv(o)

(* An order that a step leaves alone stays sound.                          *)
LEMMA LeftAlone ==
  ASSUME NEW o \in Orders, OrderInv(o),
         opening'[o] = "none" => opening[o] = "none",
         status'[o] = status[o], history'[o] = history[o],
         \A c \in Changes : Underway(c, o) \/ Underway(c, o)' => change'[c] = change[c],
         o \in overlapped => o \in overlapped',
         o \in broken => o \in broken'
  PROVE  OrderInv(o)'
<1>1. \A c \in Changes : Underway(c, o)' <=> Underway(c, o)
  BY DEF Underway
<1>2. \A i : Reached(o, i)' = Reached(o, i)
  BY DEF Reached
<1>3. \A s : Unrecorded(o, s) => Unrecorded(o, s)'
  BY DEF Unrecorded, Underway
<1>4. Accounted(o) /\ o \notin broken' => Accounted(o)'
  BY <1>2, <1>3 DEF Accounted
<1>5. Alone(o) => Alone(o)'
  BY <1>1, <1>2 DEF Alone, Underway
<1> QED
  BY <1>1, <1>4, <1>5 DEF OrderInv

(* So do all whose order is not the change's, when one change moves on.    *)
LEMMA OthersLeftAlone ==
  ASSUME NEW c \in Changes, ChangeInv,
         NEW o \in Orders, change[c].order = o \/ change[c].at = "idle",
         NEW x, change' = [change EXCEPT ![c] = x], x.order = o,
         opening' = opening,
         NEW q \in Orders, q # o,
         status'[q] = status[q], history'[q] = history[q],
         q \in overlapped => q \in overlapped',
         q \in broken => q \in broken'
  PROVE  OrderInv(q)'
<1>1. change \in [Changes -> [at : Resting \cup {"save", "record", "announce"},
                              order : Orders \cup {None},
                              from : Status \cup {None}, to : Status \cup {None}]]
  BY DEF ChangeInv, OrderTypeOK
<1>2. change'[c] = x /\ \A d \in Changes \ {c} : change'[d] = change[d]
  BY <1>1
<1>3. ~Underway(c, q) /\ ~Underway(c, q)'
  BY <1>2 DEF Underway
<1>4. \A d \in Changes : Underway(d, q) \/ Underway(d, q)' => change'[d] = change[d]
  BY <1>2, <1>3
<1>5. OrderInv(q)
  BY DEF ChangeInv
<1> QED
  BY <1>4, <1>5, LeftAlone

(* What the invariant says of a change that is not idle.                   *)
LEMMA FromChange ==
  ASSUME ChangeInv, NEW c \in Changes, change[c].at # "idle"
  PROVE  /\ change[c].order \in Orders
         /\ change[c].from \in Status /\ change[c].to \in Status
         /\ change[c] = [at |-> change[c].at, order |-> change[c].order,
                         from |-> change[c].from, to |-> change[c].to]
BY DEF ChangeInv, OrderTypeOK

(* A change that moves on to another place.                                *)
LEMMA MovesOn ==
  ASSUME ChangeInv, NEW c \in Changes, change[c].at # "idle",
         NEW at \in Resting \cup {"save", "record", "announce"}, at # "idle",
         change' = [change EXCEPT ![c].at = at]
  PROVE  LET x == [change[c] EXCEPT !.at = at] IN
         /\ change' = [change EXCEPT ![c] = x]
         /\ x.order = change[c].order /\ x.at = at
         /\ x.from = change[c].from /\ x.to = change[c].to
         /\ change' \in [Changes -> [at : Resting \cup {"save", "record", "announce"},
                                     order : Orders \cup {None},
                                     from : Status \cup {None}, to : Status \cup {None}]]
         /\ \A d \in Changes : change'[d].at # "idle" =>
              change'[d].order \in Orders /\ {change'[d].from, change'[d].to} \subseteq Status
<1>1. change \in [Changes -> [at : Resting \cup {"save", "record", "announce"},
                              order : Orders \cup {None},
                              from : Status \cup {None}, to : Status \cup {None}]]
  BY DEF ChangeInv, OrderTypeOK
<1>2. \A d \in Changes : change[d].at # "idle" =>
        change[d].order \in Orders /\ {change[d].from, change[d].to} \subseteq Status
  BY DEF ChangeInv
<1> QED
  BY <1>1, <1>2, FromChange

LEMMA CreateStep ==
  ASSUME ChangeInv, NEW o \in Orders, CreateOrder(o)
  PROVE  ChangeInv'
<1> USE OrderAssumption
<1>1. OrderTypeOK /\ OrderTypeOK'
  <2>1. OrderTypeOK /\ NewStatus \in Status
    BY DEF ChangeInv, Status
  <2> QED
    BY <2>1 DEF CreateOrder, OrderTypeOK
<1>2. ASSUME NEW q \in Orders, q # o PROVE OrderInv(q)'
  <2>1. /\ opening'[q] = opening[q] /\ status'[q] = status[q]
        /\ history' = history /\ change' = change
        /\ overlapped' = overlapped /\ broken' = broken
    BY <1>1, <1>2 DEF CreateOrder, OrderTypeOK
  <2>2. OrderInv(q)
    BY DEF ChangeInv
  <2> QED
    BY <2>1, <2>2, LeftAlone
<1>3. OrderInv(o)'
  <2>1. status[o] = None /\ history[o] = <<>> /\ \A c \in Changes : ~Underway(c, o)
    BY DEF ChangeInv, OrderInv, CreateOrder
  <2>2. status'[o] = NewStatus /\ opening'[o] = "stored" /\ history'[o] = <<>> /\ NewStatus # None
    BY <1>1, <2>1 DEF CreateOrder, OrderTypeOK, Status
  <2>3. \A c \in Changes : ~Underway(c, o)'
    BY <2>1 DEF Underway, CreateOrder
  <2>4. Reached(o, 0)' = NewStatus
    BY DEF Reached
  <2>5. Accounted(o)'
    <3>1. Len(history'[o]) = 0
      BY <2>2
    <3>2. 0 \in 0 .. 0 /\ \A i \in 1 .. 0 : FALSE
      OBVIOUS
    <3> QED
      BY <2>2, <2>4, <3>1, <3>2 DEF Accounted
  <2> QED
    BY <2>2, <2>3, <2>5 DEF OrderInv, Alone
<1>4. \A c \in Changes : change'[c].at \notin {"idle"} =>
        change'[c].order \in Orders /\ {change'[c].from, change'[c].to} \subseteq Status
  BY DEF ChangeInv, CreateOrder
<1> QED
  BY <1>1, <1>2, <1>3, <1>4 DEF ChangeInv

LEMMA FindStep ==
  ASSUME ChangeInv, NEW c \in Changes, NEW o \in Orders, NEW to \in Status, FindOrder(c, o, to)
  PROVE  ChangeInv'
<1> DEFINE x == [at |-> "save", order |-> o, from |-> status[o], to |-> to]
<1>1. OrderTypeOK
  BY DEF ChangeInv
<1>2. status[o] \in Status
  BY <1>1 DEF FindOrder, OrderTypeOK
<1>3. /\ change' = [change EXCEPT ![c] = x] /\ change[c].at = "idle"
      /\ UNCHANGED <<status, history, opening, faults, broken>>
      /\ overlapped' = IF Busy(o) THEN overlapped \cup {o} ELSE overlapped
  BY DEF FindOrder
<1>4. change'[c] = x /\ \A d \in Changes \ {c} : change'[d] = change[d]
  BY <1>1, <1>3 DEF OrderTypeOK
<1>5. OrderTypeOK'
  BY <1>1, <1>2, <1>3 DEF OrderTypeOK
<1>6. \A d \in Changes : change'[d].at \notin {"idle"} =>
        change'[d].order \in Orders /\ {change'[d].from, change'[d].to} \subseteq Status
  BY <1>2, <1>4 DEF ChangeInv
<1>7. ASSUME NEW q \in Orders, q # o PROVE OrderInv(q)'
  <2>1. q \in overlapped => q \in overlapped'
    BY <1>3
  <2>2. x.order = o
    OBVIOUS
  <2> HIDE DEF x
  <2> QED
    BY <1>3, <1>7, <2>1, <2>2, OthersLeftAlone
<1>8. OrderInv(o)'
  <2>1. OrderInv(o) /\ status[o] # None
    BY DEF ChangeInv, FindOrder
  <2>2. \A i : Reached(o, i)' = Reached(o, i)
    BY <1>3 DEF Reached
  <2>3. \A s : Unrecorded(o, s) => Unrecorded(o, s)'
    BY <1>3, <1>4 DEF Unrecorded
  <2>4. o \notin overlapped' => o \notin overlapped /\ ~Busy(o)
    BY <1>3
  <2>5. Accounted(o) => Accounted(o)'
    BY <1>3, <2>2, <2>3, <2>4 DEF Accounted
  <2>6. o \notin overlapped' => Alone(o)'
    <3> SUFFICES ASSUME o \notin overlapped' PROVE Alone(o)'
      OBVIOUS
    <3>1. \A d \in Changes : ~Underway(d, o)
      BY <2>4 DEF Busy, Underway, Resting
    <3>2. \A d \in Changes : Underway(d, o)' => d = c
      BY <1>4, <3>1 DEF Underway
    <3> QED
      BY <1>3, <1>4, <3>2 DEF Alone
  <2> QED
    BY <1>3, <2>1, <2>5, <2>6 DEF OrderInv
<1> QED
  BY <1>5, <1>6, <1>7, <1>8 DEF ChangeInv

LEMMA SaveStep ==
  ASSUME ChangeInv, NEW c \in Changes, SaveStatus(c),
         NEW o \in Orders, NEW from \in Status, NEW to \in Status,
         change[c] = [at |-> "save", order |-> o, from |-> from, to |-> to]
  PROVE  ChangeInv'
<1> USE OrderAssumption
<1> DEFINE x == [at |-> "record", order |-> o, from |-> from, to |-> to]
<1>1. OrderTypeOK
  BY DEF ChangeInv
<1>2. /\ change[c].at = "save" /\ change' = [change EXCEPT ![c] = x]
      /\ UNCHANGED <<history, opening, faults, overlapped, broken>>
      /\ IF to = from THEN status' = status ELSE status' = [status EXCEPT ![o] = to]
  <2>1. change[c].at = "save" /\ change[c].order = o /\ change[c].from = from /\ change[c].to = to
    OBVIOUS
  <2>2. change' = [change EXCEPT ![c] = [change[c] EXCEPT !.at = "record"]]
    BY DEF SaveStatus
  <2>3. [change[c] EXCEPT !.at = "record"] = x
    OBVIOUS
  <2>4. change' = [change EXCEPT ![c] = x]
    BY <2>2, <2>3
  <2> QED
    BY <2>1, <2>4 DEF SaveStatus
<1>3. change[c].order = o /\ change[c].from = from /\ change[c].to = to
  OBVIOUS
<1>4. x.order = o /\ x.at = "record" /\ x.from = from /\ x.to = to
  OBVIOUS
<1>5. /\ change' \in [Changes -> [at : Resting \cup {"save", "record", "announce"},
                                  order : Orders \cup {None},
                                  from : Status \cup {None}, to : Status \cup {None}]]
      /\ \A d \in Changes : change'[d].at # "idle" =>
           change'[d].order \in Orders /\ {change'[d].from, change'[d].to} \subseteq Status
  BY <1>1, <1>2 DEF OrderTypeOK, ChangeInv
<1>6. change'[c] = x /\ \A d \in Changes \ {c} : change'[d] = change[d]
  BY <1>1, <1>2 DEF OrderTypeOK
<1> HIDE DEF x
<1>7. OrderTypeOK'
  <2>1. status' \in [Orders -> Status \cup {None}]
    BY <1>1, <1>2 DEF OrderTypeOK
  <2> QED
    BY <1>1, <1>2, <1>5, <2>1 DEF OrderTypeOK
<1>8. /\ \A q \in Orders \ {o} : status'[q] = status[q]
      /\ to = from => status' = status
      /\ to # from => status'[o] = to
  BY <1>1, <1>2, <1>3 DEF OrderTypeOK
<1>9. ASSUME NEW q \in Orders, q # o PROVE OrderInv(q)'
  <2>1. status'[q] = status[q] /\ history'[q] = history[q]
    BY <1>2, <1>8, <1>9
  <2> QED
    BY <1>2, <1>3, <1>4, <1>9, <2>1, OthersLeftAlone
<1>10. OrderInv(o)'
  <2>1. OrderInv(o) /\ Underway(c, o)
    BY <1>2, <1>3 DEF ChangeInv, Underway
  <2>2. status[o] # None /\ status'[o] # None
    BY <1>3, <1>8, <2>1 DEF OrderInv, Status
  <2>3. \A i : Reached(o, i)' = Reached(o, i)
    BY <1>2 DEF Reached
  <2>4. \A s : Unrecorded(o, s) => Unrecorded(o, s)'
    BY <1>2, <1>6 DEF Unrecorded
  <2>5. to # from => Unrecorded(o, status[o])'
    BY <1>4, <1>6, <1>8 DEF Unrecorded
  <2>6. ASSUME o \notin broken, o \notin overlapped
        PROVE  from = status[o] /\ from = Reached(o, Len(history[o])) /\ to = status'[o]
    <3>1. from = status[o] /\ \A d \in Changes : Underway(d, o) => d = c
      BY <1>2, <1>3, <2>1, <2>2, <2>6 DEF OrderInv, Alone
    <3>2. ~Unrecorded(o, status[o])
      BY <1>2, <3>1 DEF Unrecorded, Underway
    <3>3. status[o] = Reached(o, Len(history[o]))
      BY <2>1, <2>2, <2>6, <3>2 DEF OrderInv, Accounted
    <3> QED
      BY <1>8, <3>1, <3>3
  <2>7. ASSUME o \notin broken, o \notin overlapped PROVE Alone(o)'
    <3>1. \A d \in Changes : Underway(d, o) => d = c
      BY <2>1, <2>2, <2>7, <1>2 DEF OrderInv, Alone
    <3>2. \A d \in Changes : Underway(d, o)' => d = c
      BY <1>6, <3>1 DEF Underway
    <3> QED
      BY <1>2, <1>4, <1>6, <2>3, <2>6, <2>7, <3>2 DEF Alone
  <2>8. ASSUME o \notin broken PROVE Accounted(o)'
    <3>1. Accounted(o)
      BY <2>1, <2>2, <2>8 DEF OrderInv
    <3>2. CASE to = from
      BY <1>2, <1>8, <2>3, <2>4, <3>1, <3>2 DEF Accounted
    <3>3. CASE to # from
      BY <1>2, <2>3, <2>5, <3>1, <3>3 DEF Accounted
    <3> QED
      BY <3>2, <3>3
  <2> QED
    BY <1>2, <2>1, <2>2, <2>7, <2>8 DEF OrderInv
<1> QED
  BY <1>5, <1>7, <1>9, <1>10 DEF ChangeInv

LEMMA RecordStep ==
  ASSUME ChangeInv, NEW c \in Changes, RecordStatus(c),
         NEW o \in Orders, NEW from \in Status, NEW to \in Status,
         change[c] = [at |-> "record", order |-> o, from |-> from, to |-> to]
  PROVE  ChangeInv'
<1> USE OrderAssumption
<1> DEFINE x == [at |-> "announce", order |-> o, from |-> from, to |-> to]
           e == [from |-> from, to |-> to]
<1>1. OrderTypeOK
  BY DEF ChangeInv
<1>2. /\ change[c].at = "record" /\ change' = [change EXCEPT ![c] = x]
      /\ UNCHANGED <<status, opening, faults, overlapped, broken>>
      /\ history' = [history EXCEPT ![o] = Append(@, e)]
  <2>1. change[c].at = "record" /\ change[c].order = o /\ change[c].from = from /\ change[c].to = to
    OBVIOUS
  <2>2. change' = [change EXCEPT ![c] = [change[c] EXCEPT !.at = "announce"]]
    BY DEF RecordStatus
  <2>3. [change[c] EXCEPT !.at = "announce"] = x
    OBVIOUS
  <2>4. change' = [change EXCEPT ![c] = x]
    BY <2>2, <2>3
  <2> QED
    BY <2>1, <2>4 DEF RecordStatus
<1>3. change[c].order = o /\ change[c].from = from /\ change[c].to = to
  OBVIOUS
<1>4. x.order = o /\ x.at = "announce"
  OBVIOUS
<1>5. /\ change' \in [Changes -> [at : Resting \cup {"save", "record", "announce"},
                                  order : Orders \cup {None},
                                  from : Status \cup {None}, to : Status \cup {None}]]
      /\ \A d \in Changes : change'[d].at # "idle" =>
           change'[d].order \in Orders /\ {change'[d].from, change'[d].to} \subseteq Status
  BY <1>1, <1>2 DEF OrderTypeOK, ChangeInv
<1>6. change'[c] = x /\ \A d \in Changes \ {c} : change'[d] = change[d]
  BY <1>1, <1>2 DEF OrderTypeOK
<1>7. e \in Entry /\ e.from = from /\ e.to = to
  BY DEF Entry
<1>8. history \in [Orders -> Seq(Entry)]
  BY <1>1 DEF OrderTypeOK, Entry
<1>9. PICK n \in Nat : n = Len(history[o])
  BY <1>8
<1>10. /\ history[o] \in Seq(Entry) /\ n \in Nat /\ n = Len(history[o])
      /\ history'[o] = Append(history[o], e)
      /\ \A q \in Orders \ {o} : history'[q] = history[q]
  BY <1>2, <1>8, <1>9
<1> HIDE DEF x, e
<1>11. /\ history'[o] \in Seq(Entry) /\ Len(history'[o]) = n + 1
      /\ history'[o][n + 1] = e
      /\ \A i \in 1 .. n : history'[o][i] = history[o][i]
  BY <1>7, <1>10
<1>12. OrderTypeOK'
  <2>1. history' \in [Orders -> Seq(Entry)]
    BY <1>1, <1>2, <1>11 DEF OrderTypeOK, Entry
  <2> QED
    BY <1>1, <1>2, <1>5, <2>1 DEF OrderTypeOK, Entry
<1>13. ASSUME NEW q \in Orders, q # o PROVE OrderInv(q)'
  BY <1>2, <1>3, <1>4, <1>10, <1>13, OthersLeftAlone
<1>14. OrderInv(o)'
  <2>1. OrderInv(o) /\ Underway(c, o)
    BY <1>2, <1>3 DEF ChangeInv, Underway
  <2>2. status[o] # None
    BY <2>1 DEF OrderInv
  <2>3. \A i \in 0 .. n : Reached(o, i)' = Reached(o, i)
    BY <1>10, <1>11 DEF Reached
  <2>4. Reached(o, n + 1)' = to
    BY <1>7, <1>10, <1>11 DEF Reached
  <2>5. \A s : Unrecorded(o, s) => Unrecorded(o, s)' \/ s = to
    BY <1>3, <1>6 DEF Unrecorded
  <2>6. ASSUME o \notin broken, o \notin overlapped
        PROVE  /\ \A d \in Changes : Underway(d, o) => d = c
               /\ from = Reached(o, n) /\ to = status[o]
    BY <1>2, <1>3, <1>10, <2>1, <2>2, <2>6 DEF OrderInv, Alone
  <2>7. ASSUME o \notin broken, o \notin overlapped PROVE Alone(o)'
    <3>1. \A d \in Changes : Underway(d, o)' => d = c
      BY <1>6, <2>6, <2>7 DEF Underway
    <3> QED
      BY <1>4, <1>6, <3>1 DEF Alone
  <2>8. ASSUME o \notin broken PROVE Accounted(o)'
    <3>1. Accounted(o)
      BY <2>1, <2>2, <2>8 DEF OrderInv
    <3>2. status[o] \in {Reached(o, i) : i \in 0 .. n} \/ Unrecorded(o, status[o])
      BY <1>10, <3>1 DEF Accounted
    <3>3. {Reached(o, i) : i \in 0 .. n} \subseteq {Reached(o, i)' : i \in 0 .. n + 1}
      BY <1>10, <2>3
    <3>4. to \in {Reached(o, i)' : i \in 0 .. n + 1}
      BY <1>10, <2>4
    <3>5. status[o] \in {Reached(o, i)' : i \in 0 .. n + 1} \/ Unrecorded(o, status[o])'
      BY <1>2, <2>5, <3>2, <3>3, <3>4
    <3>6. ASSUME o \notin overlapped
          PROVE  /\ \A i \in 1 .. n + 1 : history'[o][i].from = Reached(o, i - 1)'
                 /\ status[o] = Reached(o, n + 1)'
      <4>1. \A i \in 1 .. n : history[o][i].from = Reached(o, i - 1)
        BY <1>10, <3>1, <3>6 DEF Accounted
      <4>2. \A i \in 1 .. n : history'[o][i].from = Reached(o, i - 1)'
        BY <1>10, <1>11, <2>3, <4>1
      <4>3. history'[o][n + 1].from = Reached(o, n)'
        BY <1>7, <1>10, <1>11, <2>3, <2>6, <2>8, <3>6
      <4>4. \A i \in 1 .. n + 1 : i \in 1 .. n \/ (i = n + 1 /\ i - 1 = n)
        BY <1>10
      <4> QED
        BY <2>4, <2>6, <2>8, <3>6, <4>2, <4>3, <4>4
    <3> QED
      BY <1>2, <1>11, <3>5, <3>6 DEF Accounted
  <2> QED
    BY <1>2, <2>1, <2>2, <2>7, <2>8 DEF OrderInv
<1> QED
  BY <1>5, <1>12, <1>13, <1>14 DEF ChangeInv

(* A change that ends, announced or with a failed call.                    *)
LEMMA EndStep ==
  ASSUME ChangeInv, NEW c \in Changes, AnnounceChange(c) \/ FailChange(c),
         NEW o \in Orders, change[c].order = o
  PROVE  ChangeInv'
<1>1. OrderTypeOK
  BY DEF ChangeInv
<1>2. PICK at \in {"done", "failed"} :
        /\ change' = [change EXCEPT ![c].at = at]
        /\ at = "failed" => broken' = broken \cup {o}
        /\ at = "done" => broken' = broken /\ change[c].at = "announce"
        /\ UNCHANGED <<status, history, opening, overlapped>>
        /\ change[c].at # "idle"
  BY DEF AnnounceChange, FailChange
<1>3. at \in Resting \cup {"save", "record", "announce"} /\ at # "idle"
  BY DEF Resting
<1> DEFINE x == [change[c] EXCEPT !.at = at]
<1>4. /\ change' = [change EXCEPT ![c] = x] /\ x.order = o /\ x.at = at
      /\ change' \in [Changes -> [at : Resting \cup {"save", "record", "announce"},
                                  order : Orders \cup {None},
                                  from : Status \cup {None}, to : Status \cup {None}]]
      /\ \A d \in Changes : change'[d].at # "idle" =>
           change'[d].order \in Orders /\ {change'[d].from, change'[d].to} \subseteq Status
  BY <1>2, <1>3, MovesOn
<1>5. change'[c] = x /\ \A d \in Changes \ {c} : change'[d] = change[d]
  BY <1>1, <1>4 DEF OrderTypeOK
<1> HIDE DEF x
<1>6. OrderTypeOK'
  <2>1. faults' \in 0 .. MaxFaults
    BY <1>1, OrderAssumption DEF OrderTypeOK, AnnounceChange, FailChange
  <2> QED
    BY <1>1, <1>2, <1>4, <2>1 DEF OrderTypeOK
<1>7. ASSUME NEW q \in Orders, q # o PROVE OrderInv(q)'
  <2>1. q \in broken => q \in broken'
    BY <1>2
  <2>2. /\ opening' = opening /\ status'[q] = status[q] /\ history'[q] = history[q]
        /\ q \in overlapped => q \in overlapped'
    BY <1>2
  <2>3. change' = [change EXCEPT ![c] = x] /\ x.order = o
    BY <1>4
  <2> QED
    BY <1>7, <2>1, <2>2, <2>3, OthersLeftAlone
<1>8. OrderInv(o)'
  <2>1. OrderInv(o)
    BY DEF ChangeInv
  <2>2. ~Underway(c, o)' /\ \A d \in Changes : Underway(d, o)' => Underway(d, o)
    BY <1>4, <1>5 DEF Underway
  <2>3. CASE at = "failed"
    <3>1. o \in broken'
      BY <1>2, <2>3
    <3> QED
      BY <1>2, <2>1, <2>2, <3>1 DEF OrderInv
  <2>4. CASE at = "done"
    <3>1. \A i : Reached(o, i)' = Reached(o, i)
      BY <1>2 DEF Reached
    <3>2. \A s : Unrecorded(o, s) => Unrecorded(o, s)'
      BY <1>2, <1>5, <2>4 DEF Unrecorded
    <3>3. Accounted(o) => Accounted(o)'
      BY <1>2, <3>1, <3>2 DEF Accounted
    <3>4. Alone(o) => Alone(o)'
      BY <1>2, <1>5, <2>2, <3>1 DEF Alone
    <3> QED
      BY <1>2, <2>1, <2>2, <2>4, <3>3, <3>4 DEF OrderInv
  <2> QED
    BY <1>2, <2>3, <2>4
<1> QED
  BY <1>4, <1>6, <1>7, <1>8 DEF ChangeInv

LEMMA CrashStep ==
  ASSUME ChangeInv, Crash
  PROVE  ChangeInv'
<1>1. OrderTypeOK
  BY DEF ChangeInv
<1>2. ASSUME NEW c \in Changes
      PROVE  /\ change'[c] = IF change[c].at \in Resting THEN change[c]
                             ELSE [change[c] EXCEPT !.at = "failed"]
             /\ change'[c].at \in Resting
             /\ change'[c].order = change[c].order
             /\ change'[c].from = change[c].from /\ change'[c].to = change[c].to
             /\ change'[c].at = "idle" => change[c].at = "idle"
             /\ change'[c] \in [at : Resting \cup {"save", "record", "announce"},
                                order : Orders \cup {None},
                                from : Status \cup {None}, to : Status \cup {None}]
  <2>1. change'[c] = IF change[c].at \in Resting THEN change[c]
                     ELSE [change[c] EXCEPT !.at = "failed"]
    BY DEF Crash
  <2>2. change[c] \in [at : Resting \cup {"save", "record", "announce"},
                       order : Orders \cup {None},
                       from : Status \cup {None}, to : Status \cup {None}]
    BY <1>1 DEF OrderTypeOK
  <2> QED
    BY <2>1, <2>2 DEF Resting
<1>3. OrderTypeOK'
  <2>1. DOMAIN change' = Changes /\ change' = [c \in Changes |-> change'[c]]
    BY DEF Crash
  <2>2. change' \in [Changes -> [at : Resting \cup {"save", "record", "announce"},
                                 order : Orders \cup {None},
                                 from : Status \cup {None}, to : Status \cup {None}]]
    BY <1>2, <2>1
  <2>3. /\ faults' \in 0 .. MaxFaults
        /\ opening' \in [Orders -> {"none", "stored", "announced", "silent"}]
        /\ broken' \subseteq Orders
        /\ UNCHANGED <<status, history, overlapped>>
    BY <1>1, OrderAssumption DEF OrderTypeOK, Crash
  <2> QED
    BY <1>1, <2>2, <2>3 DEF OrderTypeOK
<1>4. \A c \in Changes : change'[c].at \notin {"idle"} =>
        change'[c].order \in Orders /\ {change'[c].from, change'[c].to} \subseteq Status
  <2>1. \A c \in Changes : change[c].at \notin {"idle"} =>
          change[c].order \in Orders /\ {change[c].from, change[c].to} \subseteq Status
    BY DEF ChangeInv
  <2>2. ASSUME NEW c \in Changes, change'[c].at # "idle"
        PROVE  change'[c].order \in Orders /\ {change'[c].from, change'[c].to} \subseteq Status
    <3>1. /\ change[c].at # "idle" /\ change'[c].order = change[c].order
          /\ change'[c].from = change[c].from /\ change'[c].to = change[c].to
      <4>1. change[c].at = "idle" => change'[c] = change[c]
        BY <1>2 DEF Resting
      <4> QED
        BY <1>2, <2>2, <4>1
    <3> QED
      BY <2>1, <3>1
  <2> QED
    BY <2>2
<1>5. ASSUME NEW o \in Orders PROVE OrderInv(o)'
  <2>1. OrderInv(o)
    BY DEF ChangeInv
  <2>2. /\ opening'[o] = "none" => opening[o] = "none"
        /\ broken' = broken \cup {q \in Orders : Busy(q)}
        /\ UNCHANGED <<status, history, overlapped>>
    BY DEF Crash
  <2>3. \A c \in Changes : ~Underway(c, o)'
    BY <1>2 DEF Underway, Resting
  <2>4. CASE \E c \in Changes : Underway(c, o)
    <3>1. o \in broken'
      BY <2>2, <2>4 DEF Busy, Underway, Resting
    <3> QED
      BY <2>1, <2>2, <2>3, <3>1 DEF OrderInv
  <2>5. CASE \A c \in Changes : ~Underway(c, o)
    <3>1. \A c \in Changes : ~(Underway(c, o) \/ Underway(c, o)')
      BY <2>3, <2>5
    <3> QED
      BY <2>1, <2>2, <3>1, LeftAlone
  <2> QED
    BY <2>4, <2>5
<1> QED
  BY <1>3, <1>4, <1>5 DEF ChangeInv

(* Steps that only say how far a creation is.                              *)
LEMMA OpeningStep ==
  ASSUME ChangeInv, NEW o \in Orders, AnnounceOrder(o) \/ FailCreation(o)
  PROVE  ChangeInv'
<1>1. OrderTypeOK /\ OrderTypeOK'
  <2>1. OrderTypeOK /\ MaxFaults \in Nat
    BY OrderAssumption DEF ChangeInv
  <2>2. CASE AnnounceOrder(o)
    BY <2>1, <2>2 DEF OrderTypeOK, AnnounceOrder
  <2>3. CASE FailCreation(o)
    <3>1. faults' \in 0 .. MaxFaults /\ broken' \subseteq Orders
      BY <2>1, <2>3 DEF OrderTypeOK, FailCreation
    <3>2. /\ opening' \in [Orders -> {"none", "stored", "announced", "silent"}]
          /\ UNCHANGED <<status, history, change, overlapped>>
      BY <2>1, <2>3 DEF OrderTypeOK, FailCreation
    <3> QED
      BY <2>1, <3>1, <3>2 DEF OrderTypeOK
  <2> QED
    BY <2>1, <2>2, <2>3
<1>2. /\ UNCHANGED <<status, history, change, overlapped>> /\ broken \subseteq broken'
      /\ \A q \in Orders : opening'[q] = "none" => opening[q] = "none"
  BY <1>1 DEF OrderTypeOK, AnnounceOrder, FailCreation
<1>3. ASSUME NEW q \in Orders PROVE OrderInv(q)'
  <2>1. OrderInv(q)
    BY DEF ChangeInv
  <2>2. \A c \in Changes : Underway(c, q) \/ Underway(c, q)' => change'[c] = change[c]
    BY <1>2
  <2> QED
    BY <1>2, <2>1, <2>2, LeftAlone
<1> QED
  BY <1>1, <1>2, <1>3 DEF ChangeInv

LEMMA OrderStep ==
  ASSUME ChangeInv, OrderNext
  PROVE  ChangeInv'
<1>1. ASSUME NEW c \in Changes, SaveStatus(c) PROVE ChangeInv'
  <2>1. change[c].at = "save"
    BY <1>1 DEF SaveStatus
  <2> QED
    BY <1>1, <2>1, FromChange, SaveStep
<1>2. ASSUME NEW c \in Changes, RecordStatus(c) PROVE ChangeInv'
  <2>1. change[c].at = "record"
    BY <1>2 DEF RecordStatus
  <2> QED
    BY <1>2, <2>1, FromChange, RecordStep
<1>3. ASSUME NEW c \in Changes, AnnounceChange(c) \/ FailChange(c) PROVE ChangeInv'
  <2>1. change[c].at # "idle"
    BY <1>3 DEF AnnounceChange, FailChange
  <2> QED
    BY <1>3, <2>1, FromChange, EndStep
<1>4. CASE UNCHANGED orderVars
  <2>1. UNCHANGED <<status, history, opening, change, faults, overlapped, broken>>
    BY <1>4 DEF orderVars
  <2>2. OrderTypeOK'
    BY <2>1 DEF ChangeInv, OrderTypeOK
  <2>3. ASSUME NEW o \in Orders PROVE OrderInv(o)'
    <3>1. OrderInv(o)
      BY DEF ChangeInv
    <3> QED
      BY <2>1, <3>1, LeftAlone
  <2> QED
    BY <2>1, <2>2, <2>3 DEF ChangeInv
<1> QED
  BY <1>1, <1>2, <1>3, <1>4, CreateStep, FindStep, CrashStep, OpeningStep DEF OrderNext

LEMMA OrderInitial == Init => ChangeInv
<1> SUFFICES ASSUME Init PROVE ChangeInv
  OBVIOUS
<1> USE OrderAssumption
<1>1. OrderInit
  BY DEF Init
<1>2. NewStatus \in Status /\ NewStatus # None
  BY DEF Status
<1>3. OrderTypeOK
  <2>1. status \in [Orders -> Status \cup {None}]
    BY <1>1, <1>2 DEF OrderInit
  <2>2. NoChange \in [at : Resting \cup {"save", "record", "announce"},
                      order : Orders \cup {None},
                      from : Status \cup {None}, to : Status \cup {None}]
    BY DEF NoChange, Resting
  <2>3. <<>> \in Seq([from : Status, to : Status])
    OBVIOUS
  <2> QED
    BY <1>1, <2>1, <2>2, <2>3 DEF OrderInit, OrderTypeOK
<1>4. \A c \in Changes : change[c].at = "idle"
  BY <1>1 DEF OrderInit, NoChange
<1>5. ASSUME NEW o \in Orders PROVE OrderInv(o)
  <2>1. \A c \in Changes : ~Underway(c, o)
    BY <1>4 DEF Underway
  <2>2. /\ history[o] = <<>>
        /\ opening[o] = "none" => status[o] = None
        /\ status[o] # None => status[o] = NewStatus
    BY <1>1 DEF OrderInit
  <2>3. Len(history[o]) = 0 /\ Reached(o, 0) = NewStatus
    BY <2>2 DEF Reached
  <2>4. 0 \in 0 .. 0 /\ \A i \in 1 .. 0 : FALSE
    OBVIOUS
  <2>5. status[o] # None => Accounted(o)
    BY <2>2, <2>3, <2>4 DEF Accounted
  <2> QED
    BY <2>1, <2>2, <2>5 DEF OrderInv, Alone
<1> QED
  BY <1>3, <1>4, <1>5 DEF ChangeInv

(* Whatever changes of an order are made at once, its history accounts for *)
(* its status unless a call fails, and chains unless two changes overlap.  *)
(* (orders.repository.ts:49-101.)                                          *)
THEOREM HistoryAccounts == Spec => []HistoryTells
<1>1. ChangeInv /\ [Next]_vars => ChangeInv'
  BY StepOfOrders, OrderStep
<1>2. ChangeInv => HistoryTells
  BY DEF ChangeInv, OrderInv, Accounted, HistoryTells
<1> QED
  BY <1>1, <1>2, OrderInitial, PTL DEF Spec
----------------------------------------------------------------------------
(* What tabs show.  A change that the order's status shows, and its events *)
(* do not yet.                                                             *)
Pending(c, o) == change[c].at \in {"record", "announce"} /\ change[c].order = o

OpeningOK(o) ==
  /\ opening[o] = "none" <=> status[o] = None
  /\ opening[o] = "silent" => o \in broken
  /\ o \notin overlapped \cup broken =>
       /\ opening[o] = "stored" => status[o] = NewStatus
       /\ \A c \in Changes :
            /\ Underway(c, o) => opening[o] = "announced"
            /\ Pending(c, o) => change[c].to = status[o]

(* Statuses that an order may be said to have been announced with last.    *)
Announced(o) ==
  {s \in Status :
     /\ \A c \in Changes : Pending(c, o) => s = change[c].from
     /\ (\A c \in Changes : ~Pending(c, o)) => s = status[o]}

(* What a list should say of it, having all that was announced.            *)
Views(o) == IF opening[o] = "announced" THEN {<<s>> : s \in Announced(o)} ELSE {<<>>}

About(q, o) == {k \in 1 .. Len(q) : q[k].order = o}

(* A list that says x of an order says what it should once it has the      *)
(* events that are on their way: the last one gives the status, and a new  *)
(* order's first puts it in the list.                                      *)
Leads(q, x, o, views) ==
  IF About(q, o) = {}
  THEN x \in views
  ELSE /\ \E k \in About(q, o) : (\A j \in About(q, o) : j <= k) /\ <<q[k].status>> \in views
       /\ IF \E k \in About(q, o) : q[k].kind = "new"
          THEN /\ x = <<>>
               /\ \A k \in About(q, o) : q[k].kind = "new" <=> \A j \in About(q, o) : k <= j
          ELSE Len(x) = 1

(* Only the current socket is, or will be, in the room, and only what is   *)
(* in the room is sent events.                                             *)
Wire(t, i) ==
  /\ i > current[t] => socket[t][i] = NoSocket
  /\ socket[t][i].joined \/ socket[t][i].join # "no" => i = current[t]
  /\ socket[t][i].joined \/ socket[t][i].join = "sent" => socket[t][i].link = "up"
  /\ socket[t][i].join = "kept" => i = 2
  /\ inbox[t][i] # <<>> => socket[t][i].joined

Line(t) ==
  /\ page[t] = "closed" => current[t] = 0
  /\ page[t] \in {"guarded", "entering"} => current[t] = 1
  /\ page[t] = "open" => current[t] # 0
  /\ \A i \in Sockets : Wire(t, i)

Fresh(t, o) ==
  o \notin missed[t] \cup overlapped \cup broken =>
    \A i \in Sockets :
      (\A j \in Sockets : j # i => inbox[t][j] = <<>>) =>
        Leads(inbox[t][i], shown[t][o], o, Views(o))

(* An answer that no event was near says what it should.                   *)
AnswerFresh(t, f, o) ==
  fetch[t][f].at = "answered" /\ o \notin fetch[t][f].overlap \cup overlapped \cup broken =>
    /\ fetch[t][f].orders[o] \in Views(o)
    /\ \A i \in Sockets : About(inbox[t][i], o) = {}

SocketType == [link : {"none", "connecting", "up"}, joined : BOOLEAN,
               join : {"no", "kept", "sent"}]

(* The types of what tabs and their sockets hold. *)
TabTypeOK ==
  /\ page \in [Tabs -> {"closed", "guarded", "entering", "open"}]
  /\ user \in [Tabs -> BOOLEAN]
  /\ current \in [Tabs -> {0, 1, 2}]
  /\ socket \in [Tabs -> [Sockets -> SocketType]]
  /\ inbox \in [Tabs -> [Sockets -> Seq(Event)]]
  /\ shown \in [Tabs -> [Orders -> Seq(Status)]]
  /\ fetched \in [Tabs -> 0 .. MaxFetches]
  /\ drops \in 0 .. MaxDrops
  /\ missed \in [Tabs -> SUBSET Orders]

Answer == [at : {"idle", "asked", "answered"},
           orders : [Orders -> Seq(Status)] \cup {None}, overlap : SUBSET Orders]

FetchTypeOK ==
  /\ fetch \in [Tabs -> [Fetches -> Answer]]
  /\ \A t \in Tabs, f \in Fetches :
       fetch[t][f].at = "answered" => fetch[t][f].orders \in [Orders -> Seq(Status)]

FeedInv ==
  /\ TabTypeOK
  /\ FetchTypeOK
  /\ ChangeInv
  /\ \A o \in Orders : OpeningOK(o)
  /\ \A t \in Tabs : Line(t)
  /\ \A t \in Tabs, o \in Orders : Fresh(t, o)
  /\ \A t \in Tabs, f \in Fetches, o \in Orders : AnswerFresh(t, f, o)

----------------------------------------------------------------------------
(* Queues of events.                                                       *)
LEMMA AboutTail ==
  ASSUME NEW q \in Seq(Event), q # <<>>, NEW o
  PROVE  /\ Tail(q) \in Seq(Event) /\ Head(q) = q[1] /\ Head(q) \in Event
         /\ \A k \in 1 .. Len(Tail(q)) : Tail(q)[k] = q[k + 1]
         /\ About(Tail(q), o) = {k \in 1 .. Len(q) - 1 : k + 1 \in About(q, o)}
         /\ 1 \in About(q, o) <=> Head(q).order = o
<1>1. /\ Len(q) \in Nat \ {0} /\ Head(q) = q[1] /\ Tail(q) \in Seq(Event)
      /\ Len(Tail(q)) = Len(q) - 1
      /\ \A k \in 1 .. Len(q) : q[k] \in Event
      /\ \A k \in 1 .. Len(Tail(q)) : Tail(q)[k] = q[k + 1]
  OBVIOUS
<1>2. About(Tail(q), o) = {k \in 1 .. Len(q) - 1 : k + 1 \in About(q, o)}
  BY <1>1 DEF About
<1> QED
  BY <1>1, <1>2 DEF About

LEMMA AboutAppend ==
  ASSUME NEW q \in Seq(Event), NEW e \in Event, NEW o
  PROVE  /\ Append(q, e) \in Seq(Event) /\ Append(q, e) # <<>>
         /\ \A k \in 1 .. Len(q) : Append(q, e)[k] = q[k]
         /\ Append(q, e)[Len(q) + 1] = e
         /\ About(Append(q, e), o) =
              About(q, o) \cup (IF e.order = o THEN {Len(q) + 1} ELSE {})
         /\ About(q, o) \subseteq 1 .. Len(q) /\ Len(q) \in Nat
<1>1. /\ Len(q) \in Nat /\ Append(q, e) \in Seq(Event)
      /\ Len(Append(q, e)) = Len(q) + 1
      /\ \A k \in 1 .. Len(q) : Append(q, e)[k] = q[k]
      /\ Append(q, e)[Len(q) + 1] = e
  OBVIOUS
<1>2. 1 .. (Len(q) + 1) = (1 .. Len(q)) \cup {Len(q) + 1}
  BY <1>1
<1>3. About(Append(q, e), o) =
        About(q, o) \cup (IF e.order = o THEN {Len(q) + 1} ELSE {})
  BY <1>1, <1>2 DEF About
<1> QED
  BY <1>1, <1>3 DEF About

(* A larger set of views does no harm.                                     *)
LEMMA LeadsMore ==
  ASSUME NEW q, NEW x, NEW o, NEW few, NEW more, few \subseteq more, Leads(q, x, o, few)
  PROVE  Leads(q, x, o, more)
BY DEF Leads

(* The list that has handled the first event is led on by the others.      *)
LEMMA HandledLeads ==
  ASSUME NEW q \in Seq(Event), q # <<>>, NEW x \in Seq(Status), NEW o, NEW views,
         Leads(q, x, o, views)
  PROVE  Leads(Tail(q), IF Head(q).order = o THEN Corrected(x, Head(q)) ELSE x, o, views)
<1> DEFINE mine == About(q, o)
           rest == About(Tail(q), o)
           e == Head(q)
<1>1. /\ rest = {k \in 1 .. Len(q) - 1 : k + 1 \in mine}
      /\ \A k \in 1 .. Len(Tail(q)) : Tail(q)[k] = q[k + 1]
      /\ 1 \in mine <=> e.order = o
      /\ e = q[1] /\ e \in Event
  BY AboutTail
<1>2. Len(q) \in Nat /\ mine \subseteq 1 .. Len(q) /\ Len(Tail(q)) = Len(q) - 1
  BY DEF About
<1>3. \A k \in rest : k \in Nat \ {0} /\ k + 1 \in mine /\ Tail(q)[k] = q[k + 1]
  BY <1>1, <1>2
<1>4. \A k \in mine : k # 1 => k - 1 \in rest /\ (k - 1) + 1 = k
  BY <1>1, <1>2
<1>5. mine = {} => rest = {}
  BY <1>1
<1>6. ASSUME mine # {}
      PROVE  /\ \E k \in mine : (\A j \in mine : j <= k) /\ <<q[k].status>> \in views
             /\ IF \E k \in mine : q[k].kind = "new"
                THEN /\ x = <<>>
                     /\ \A k \in mine : q[k].kind = "new" <=> \A j \in mine : k <= j
                ELSE Len(x) = 1
  BY <1>6 DEF Leads
<1>7. PICK y : y = IF e.order = o THEN Corrected(x, e) ELSE x
  OBVIOUS
<1>8. ASSUME e.order = o
      PROVE  y = <<e.status>> /\ \A k \in rest : Tail(q)[k].kind # "new"
  <2>1. 1 \in mine /\ \A k \in mine : 1 <= k
    BY <1>1, <1>2, <1>8
  <2>2. CASE e.kind = "new"
    <3>1. x = <<>> /\ \A k \in mine : q[k].kind = "new" => k <= 1
      BY <1>1, <1>6, <2>1, <2>2
    <3>2. y = <<e.status>>
      BY <1>7, <1>8, <2>2, <3>1 DEF Corrected
    <3>3. ASSUME NEW k \in rest PROVE Tail(q)[k].kind # "new"
      <4>1. k + 1 \in mine /\ Tail(q)[k] = q[k + 1]
        BY <1>3
      <4>2. ~(k + 1 <= 1)
        BY <1>3
      <4> QED
        BY <3>1, <4>1, <4>2
    <3> QED
      BY <3>2, <3>3
  <2>3. CASE e.kind # "new"
    <3>1. \A k \in mine : q[k].kind # "new"
      BY <1>1, <1>6, <2>1, <2>3
    <3>2. Len(x) = 1
      BY <1>6, <2>1, <3>1
    <3>3. x # <<>>
      <4>1. x = <<>> => Len(x) = 0
        OBVIOUS
      <4> QED
        BY <3>2, <4>1
    <3>4. y = [x EXCEPT ![1] = e.status]
      BY <1>1, <1>7, <1>8, <2>3, <3>3 DEF Corrected, Event
    <3>5. y = <<e.status>>
      BY <1>1, <3>2, <3>4 DEF Event
    <3> QED
      BY <1>3, <3>1, <3>5
  <2> QED
    BY <2>2, <2>3
<1>9. ASSUME NEW last \in mine, \A j \in mine : j <= last, <<q[last].status>> \in views,
              rest # {}
       PROVE  \E k \in rest : (\A j \in rest : j <= k) /\ <<Tail(q)[k].status>> \in views
  <2>1. last # 1
    BY <1>3, <1>9
  <2>2. last - 1 \in rest /\ last \in Nat /\ Tail(q)[last - 1] = q[last]
    BY <1>1, <1>2, <1>3, <1>4, <1>9, <2>1
  <2>3. \A j \in rest : j <= last - 1
    BY <1>3, <1>9, <2>2
  <2> QED
    BY <1>9, <2>2, <2>3
<1> HIDE DEF e
<1>10. Leads(Tail(q), y, o, views)
  <2>1. CASE e.order = o /\ rest = {}
    <3>1. \A k \in mine : k = 1
      BY <1>4, <2>1
    <3>2. <<e.status>> \in views
      BY <1>1, <1>6, <2>1, <3>1
    <3> QED
      BY <1>8, <2>1, <3>2 DEF Leads
  <2>2. CASE e.order = o /\ rest # {}
    <3>1. \E k \in rest : (\A j \in rest : j <= k) /\ <<Tail(q)[k].status>> \in views
      BY <1>5, <1>6, <1>9, <2>2
    <3>2. Len(y) = 1
      BY <1>8, <2>2
    <3> QED
      BY <1>8, <2>2, <3>1, <3>2 DEF Leads
  <2>3. CASE e.order # o /\ mine = {}
    BY <1>5, <1>7, <2>3 DEF Leads
  <2>4. CASE e.order # o /\ mine # {}
    <3>1. 1 \notin mine /\ \A k \in mine : k - 1 \in rest
      BY <1>1, <1>4, <2>4
    <3>2. rest # {}
      BY <2>4, <3>1
    <3>3. \E k \in rest : (\A j \in rest : j <= k) /\ <<Tail(q)[k].status>> \in views
      BY <1>6, <1>9, <2>4, <3>2
    <3>4. (\E k \in rest : Tail(q)[k].kind = "new") <=> \E k \in mine : q[k].kind = "new"
      BY <1>1, <1>2, <1>3, <1>4, <3>1
    <3>5. ASSUME \E k \in mine : q[k].kind = "new", NEW k \in rest
          PROVE  Tail(q)[k].kind = "new" <=> \A j \in rest : k <= j
      <4>1. k + 1 \in mine /\ Tail(q)[k] = q[k + 1] /\ k \in Nat
        BY <1>3
      <4>2. Tail(q)[k].kind = "new" <=> \A j \in mine : k + 1 <= j
        BY <1>6, <2>4, <3>5, <4>1
      <4>3. (\A j \in mine : k + 1 <= j) <=> \A j \in rest : k <= j
        BY <1>2, <1>3, <1>4, <3>1, <4>1
      <4> QED
        BY <4>2, <4>3
    <3> QED
      BY <1>6, <1>7, <2>4, <3>2, <3>3, <3>4, <3>5 DEF Leads
  <2> QED
    BY <2>1, <2>2, <2>3, <2>4
<1> QED
  BY <1>7, <1>10 DEF e

(* An announced change is the last event of the order.                     *)
LEMMA UpdateLeads ==
  ASSUME NEW q \in Seq(Event), NEW x, NEW o, NEW views, NEW more, NEW e \in Event,
         e.order = o, e.kind = "updated", <<e.status>> \in more,
         \A v \in views : Len(v) = 1,
         Leads(q, x, o, views)
  PROVE  Leads(Append(q, e), x, o, more)
<1> DEFINE mine == About(q, o)
           n == Len(q) + 1
<1>1. /\ About(Append(q, e), o) = mine \cup {n}
      /\ \A k \in mine : Append(q, e)[k] = q[k] /\ k \in 1 .. Len(q)
      /\ Append(q, e)[n] = e /\ Len(q) \in Nat
  BY AboutAppend
<1>2. \A k \in mine \cup {n} : k <= n
  BY <1>1
<1>3. \E k \in mine \cup {n} :
        (\A j \in mine \cup {n} : j <= k) /\ <<Append(q, e)[k].status>> \in more
  BY <1>1, <1>2
<1>4. (\E k \in mine \cup {n} : Append(q, e)[k].kind = "new") <=> \E k \in mine : q[k].kind = "new"
  BY <1>1
<1>5. ASSUME \E k \in mine : q[k].kind = "new"
      PROVE  /\ x = <<>>
             /\ \A k \in mine \cup {n} : Append(q, e)[k].kind = "new" <=>
                  \A j \in mine \cup {n} : k <= j
  <2>1. /\ x = <<>> /\ \A k \in mine : q[k].kind = "new" <=> \A j \in mine : k <= j
    BY <1>5 DEF Leads
  <2>2. \A k \in mine : Append(q, e)[k].kind = "new" <=> \A j \in mine \cup {n} : k <= j
    BY <1>1, <1>2, <2>1
  <2>3. ~ \A j \in mine \cup {n} : n <= j
    BY <1>1, <1>5
  <2> QED
    BY <1>1, <2>1, <2>2, <2>3
<1>6. ASSUME ~ \E k \in mine : q[k].kind = "new"
      PROVE  Len(x) = 1
  BY <1>6 DEF Leads
<1> QED
  BY <1>1, <1>3, <1>4, <1>5, <1>6 DEF Leads

(* A new order is the first event of it.                                   *)
LEMMA NewLeads ==
  ASSUME NEW q \in Seq(Event), NEW x, NEW o, NEW more, NEW e \in Event,
         e.order = o, e.kind = "new", <<e.status>> \in more,
         Leads(q, x, o, {<<>>})
  PROVE  Leads(Append(q, e), x, o, more)
<1> DEFINE n == Len(q) + 1
<1>1. About(q, o) = {} /\ x = <<>>
  BY DEF Leads
<1>2. About(Append(q, e), o) = {n} /\ Append(q, e)[n] = e /\ n \in Nat
  BY <1>1, AboutAppend
<1> QED
  BY <1>1, <1>2 DEF Leads

(* So is an event of another order nothing to this one.                    *)
LEMMA OtherLeads ==
  ASSUME NEW q \in Seq(Event), NEW x, NEW o, NEW views, NEW e \in Event, e.order # o,
         Leads(q, x, o, views)
  PROVE  Leads(Append(q, e), x, o, views)
<1>1. /\ About(Append(q, e), o) = About(q, o)
      /\ \A k \in About(q, o) : Append(q, e)[k] = q[k]
  <2>1. About(Append(q, e), o) = About(q, o) \cup (IF e.order = o THEN {Len(q) + 1} ELSE {})
    BY AboutAppend
  <2>2. /\ \A k \in 1 .. Len(q) : Append(q, e)[k] = q[k]
        /\ About(q, o) \subseteq 1 .. Len(q)
    BY AboutAppend
  <2> QED
    BY <2>1, <2>2
<1> QED
  BY <1>1 DEF Leads

----------------------------------------------------------------------------
(* What steps of the orders leave of what lists should say.                *)
StillSaid(o) ==
  /\ OpeningOK(o)'
  /\ o \notin overlapped' \cup broken' =>
       o \notin overlapped \cup broken /\ Views(o) \subseteq Views(o)'

LEMMA OtherStillSaid ==
  ASSUME NEW o \in Orders, OpeningOK(o),
         opening'[o] = opening[o], status'[o] = status[o],
         \A c \in Changes : Underway(c, o) \/ Underway(c, o)' => change'[c] = change[c],
         overlapped \subseteq overlapped', broken \subseteq broken'
  PROVE  StillSaid(o)
<1>1. \A c \in Changes : Underway(c, o)' <=> Underway(c, o)
  BY DEF Underway
<1>2. \A c \in Changes : /\ Pending(c, o)' <=> Pending(c, o)
                         /\ Pending(c, o) => change'[c] = change[c]
  BY DEF Underway, Pending
<1>3. Announced(o)' = Announced(o)
  BY <1>2 DEF Announced
<1>4. Views(o)' = Views(o)
  BY <1>3 DEF Views
<1>5. OpeningOK(o)'
  BY <1>1, <1>2 DEF OpeningOK
<1> QED
  BY <1>4, <1>5 DEF StillSaid

(* While changes of an order do not overlap, one at most is pending.       *)
LEMMA OnePending ==
  ASSUME ChangeInv, NEW o \in Orders, OpeningOK(o), o \notin overlapped \cup broken,
         NEW c \in Changes, Underway(c, o)
  PROVE  /\ opening[o] = "announced" /\ status[o] \in Status
         /\ \A d \in Changes : Underway(d, o) => d = c
         /\ change[c].at = "save" => change[c].from = status[o]
         /\ Pending(c, o) => change[c].to = status[o]
<1>1. OrderInv(o) /\ status[o] \in Status \cup {None}
  BY DEF ChangeInv, OrderTypeOK
<1>2. status[o] # None /\ Alone(o)
  BY <1>1 DEF OrderInv
<1> QED
  BY <1>1, <1>2 DEF OpeningOK, Alone

LEMMA CreationStillSaid ==
  ASSUME ChangeInv, \A q \in Orders : OpeningOK(q), NEW p \in Orders,
         CreateOrder(p) \/ FailCreation(p)
  PROVE  \A o \in Orders : StillSaid(o)
<1> SUFFICES ASSUME NEW o \in Orders PROVE StillSaid(o)
  OBVIOUS
<1>1. /\ opening \in [Orders -> {"none", "stored", "announced", "silent"}]
      /\ status \in [Orders -> Status \cup {None}]
      /\ NewStatus # None
  BY OrderAssumption DEF ChangeInv, OrderTypeOK, Status
<1>2. change' = change /\ overlapped' = overlapped /\ broken \subseteq broken'
  BY DEF CreateOrder, FailCreation
<1>3. CASE o # p
  <2>1. opening'[o] = opening[o] /\ status'[o] = status[o]
    BY <1>1, <1>3 DEF CreateOrder, FailCreation
  <2> QED
    BY <1>2, <2>1, OtherStillSaid
<1>4. CASE o = p /\ CreateOrder(p)
  <2>1. /\ opening[o] = "none" /\ opening'[o] = "stored" /\ status'[o] = NewStatus
    BY <1>1, <1>4 DEF CreateOrder
  <2>2. Views(o) = {<<>>} /\ Views(o)' = {<<>>}
    BY <2>1 DEF Views
  <2>3. \A c \in Changes : ~Underway(c, o)
    BY <2>1 DEF ChangeInv, OrderInv, OpeningOK
  <2>4. \A c \in Changes : ~Underway(c, o)' /\ ~Pending(c, o)'
    BY <1>2, <2>3 DEF Underway, Pending
  <2>5. broken' = broken
    BY <1>4 DEF CreateOrder
  <2> QED
    BY <1>1, <1>2, <2>1, <2>2, <2>4, <2>5 DEF StillSaid, OpeningOK
<1>5. CASE o = p /\ FailCreation(p)
  <2>1. opening[o] = "stored" /\ opening'[o] = "silent" /\ status' = status /\ o \in broken'
    BY <1>1, <1>5 DEF FailCreation
  <2> QED
    BY <2>1 DEF StillSaid, OpeningOK
<1> QED
  BY <1>3, <1>4, <1>5

LEMMA FindStillSaid ==
  ASSUME ChangeInv, \A q \in Orders : OpeningOK(q), NEW c \in Changes,
         NEW p \in Orders, NEW to \in Status, FindOrder(c, p, to)
  PROVE  \A o \in Orders : StillSaid(o)
<1> SUFFICES ASSUME NEW o \in Orders PROVE StillSaid(o)
  OBVIOUS
<1> DEFINE x == [at |-> "save", order |-> p, from |-> status[p], to |-> to]
<1>1. /\ change[c].at = "idle" /\ status[p] # None
      /\ change'[c] = x /\ \A d \in Changes \ {c} : change'[d] = change[d]
      /\ status' = status /\ opening' = opening /\ broken' = broken
      /\ overlapped' = IF Busy(p) THEN overlapped \cup {p} ELSE overlapped
  BY DEF FindOrder, ChangeInv, OrderTypeOK
<1>2. CASE o # p
  <2>1. \A d \in Changes : Underway(d, o) \/ Underway(d, o)' => change'[d] = change[d]
    BY <1>1, <1>2 DEF Underway
  <2> QED
    BY <1>1, <2>1, OtherStillSaid
<1>3. CASE o = p
  <2>1. \A d \in Changes : Pending(d, o) => d # c
    BY <1>1 DEF Pending
  <2>2. \A d \in Changes : Pending(d, o)' <=> Pending(d, o)
    BY <1>1, <2>1 DEF Pending
  <2>3. \A d \in Changes : Pending(d, o) => change'[d] = change[d]
    BY <1>1, <2>1
  <2>4. Announced(o)' = Announced(o)
    BY <1>1, <2>2, <2>3 DEF Announced
  <2>5. Views(o)' = Views(o)
    BY <1>1, <2>4 DEF Views
  <2>6. ASSUME o \notin overlapped' \cup broken'
        PROVE  opening[o] = "announced" /\ \A d \in Changes : ~Underway(d, o)
    <3>1. ~Busy(o) /\ o \notin broken /\ opening[o] # "none"
      BY <1>1, <1>3, <2>6 DEF OpeningOK
    <3>2. opening[o] # "stored" /\ opening[o] # "silent"
      BY <3>1 DEF Busy, OpeningOK
    <3>3. opening[o] \in {"none", "stored", "announced", "silent"}
      BY DEF ChangeInv, OrderTypeOK
    <3> QED
      BY <3>1, <3>2, <3>3 DEF Busy, Underway, Resting
  <2>7. OpeningOK(o)'
    <3>1. o \notin overlapped' \cup broken' => opening'[o] = "announced"
      BY <1>1, <2>6
    <3>2. o \notin overlapped' \cup broken' => \A d \in Changes : ~Pending(d, o)'
      BY <2>2, <2>6 DEF Underway, Pending
    <3> QED
      BY <1>1, <3>1, <3>2 DEF OpeningOK
  <2> QED
    BY <1>1, <2>5, <2>7 DEF StillSaid
<1> QED
  BY <1>2, <1>3

(* What a change that moves on leaves of the others.                       *)
LEMMA ChangeMoves ==
  ASSUME ChangeInv, NEW c \in Changes, change[c].at # "idle",
         NEW at \in {"record", "announce", "done", "failed"},
         change' = [change EXCEPT ![c].at = at]
  PROVE  /\ change'[c].at = at /\ change'[c].order = change[c].order
         /\ change'[c].from = change[c].from /\ change'[c].to = change[c].to
         /\ \A d \in Changes \ {c} : change'[d] = change[d]
BY FromChange DEF ChangeInv, OrderTypeOK

LEMMA SaveStillSaid ==
  ASSUME ChangeInv, \A q \in Orders : OpeningOK(q), NEW c \in Changes, SaveStatus(c)
  PROVE  \A o \in Orders : StillSaid(o)
<1> SUFFICES ASSUME NEW o \in Orders PROVE StillSaid(o)
  OBVIOUS
<1>1. /\ change[c].order \in Orders /\ change[c].from \in Status /\ change[c].to \in Status
      /\ change[c].at = "save" /\ change' = [change EXCEPT ![c].at = "record"]
      /\ UNCHANGED <<opening, overlapped, broken>>
      /\ status \in [Orders -> Status \cup {None}]
      /\ IF change[c].to = change[c].from
           THEN UNCHANGED status
           ELSE status' = [status EXCEPT ![change[c].order] = change[c].to]
  BY FromChange DEF SaveStatus, ChangeInv, OrderTypeOK
<1>2. /\ change'[c].at = "record" /\ change'[c].order = change[c].order
      /\ change'[c].from = change[c].from /\ change'[c].to = change[c].to
      /\ \A d \in Changes \ {c} : change'[d] = change[d]
  BY <1>1, ChangeMoves
<1>3. CASE o # change[c].order
  <2>1. \A d \in Changes : Underway(d, o) \/ Underway(d, o)' => change'[d] = change[d]
    BY <1>2, <1>3 DEF Underway
  <2>2. status'[o] = status[o]
    BY <1>1, <1>3
  <2> QED
    BY <1>1, <2>1, <2>2, OtherStillSaid
<1>4. CASE o = change[c].order
  <2>1. status[o] # None
    <3>1. Underway(c, o)
      BY <1>1, <1>4 DEF Underway
    <3> QED
      BY <3>1 DEF ChangeInv, OrderInv
  <2>2. status'[o] # None
    BY <1>1, <1>4, <2>1, OrderAssumption
  <2>3. ASSUME o \notin overlapped \cup broken
        PROVE  /\ \A d \in Changes : ~Pending(d, o)
               /\ \A d \in Changes : Pending(d, o)' => d = c
               /\ opening[o] = "announced" /\ change[c].from = status[o]
               /\ status'[o] = change[c].to
    <3>1. Underway(c, o)
      BY <1>1, <1>4 DEF Underway
    <3>2. /\ opening[o] = "announced" /\ change[c].from = status[o]
          /\ \A d \in Changes : Underway(d, o) => d = c
      BY <1>1, <2>3, <3>1, OnePending
    <3>3. \A d \in Changes : ~Pending(d, o)
      BY <1>1, <3>2 DEF Pending, Underway
    <3>4. \A d \in Changes : Pending(d, o)' => d = c
      BY <1>2, <3>3 DEF Pending
    <3>5. status'[o] = change[c].to
      BY <1>1, <1>4, <3>2
    <3> QED
      BY <3>2, <3>3, <3>4, <3>5
  <2>4. OpeningOK(o)'
    <3>1. ASSUME o \notin overlapped' \cup broken', NEW d \in Changes
          PROVE  /\ opening'[o] = "announced"
                 /\ Pending(d, o)' => change'[d].to = status'[o]
      BY <1>1, <1>2, <2>3, <3>1
    <3>2. /\ opening'[o] = "none" <=> status'[o] = None
          /\ opening'[o] = "silent" => o \in broken'
      BY <1>1, <2>1, <2>2 DEF OpeningOK
    <3> QED
      BY <3>1, <3>2 DEF OpeningOK
  <2>5. ASSUME o \notin overlapped \cup broken PROVE Views(o) \subseteq Views(o)'
    <3>1. Pending(c, o)'
      BY <1>2, <1>4 DEF Pending
    <3>2. Announced(o) \subseteq {status[o]} /\ Announced(o)' = {change[c].from}
      BY <1>1, <1>2, <2>3, <2>5, <3>1 DEF Announced
    <3> QED
      BY <1>1, <2>3, <2>5, <3>2 DEF Views
  <2> QED
    BY <1>1, <2>4, <2>5 DEF StillSaid
<1> QED
  BY <1>3, <1>4

LEMMA RecordStillSaid ==
  ASSUME ChangeInv, \A q \in Orders : OpeningOK(q), NEW c \in Changes, RecordStatus(c)
  PROVE  \A o \in Orders : StillSaid(o)
<1> SUFFICES ASSUME NEW o \in Orders PROVE StillSaid(o)
  OBVIOUS
<1>1. /\ change[c].at = "record" /\ change' = [change EXCEPT ![c].at = "announce"]
      /\ UNCHANGED <<status, opening, overlapped, broken>>
  BY DEF RecordStatus
<1>2. /\ change'[c].at = "announce" /\ change'[c].order = change[c].order
      /\ change'[c].from = change[c].from /\ change'[c].to = change[c].to
      /\ \A d \in Changes \ {c} : change'[d] = change[d]
  BY <1>1, ChangeMoves
<1>3. \A d \in Changes : Underway(d, o)' <=> Underway(d, o)
  BY <1>1, <1>2 DEF Underway
<1>4. \A d \in Changes : Pending(d, o)' <=> Pending(d, o)
  BY <1>1, <1>2 DEF Pending
<1>5. \A d \in Changes : change'[d].from = change[d].from /\ change'[d].to = change[d].to
  BY <1>2
<1>6. Views(o)' = Views(o)
  <2>1. Announced(o)' = Announced(o)
    BY <1>1, <1>4, <1>5 DEF Announced
  <2> QED
    BY <1>1, <2>1 DEF Views
<1>7. OpeningOK(o)'
  BY <1>1, <1>3, <1>4, <1>5 DEF OpeningOK
<1> QED
  BY <1>1, <1>6, <1>7 DEF StillSaid

LEMMA FailStillSaid ==
  ASSUME ChangeInv, \A q \in Orders : OpeningOK(q), NEW c \in Changes, FailChange(c)
  PROVE  \A o \in Orders : StillSaid(o)
<1> SUFFICES ASSUME NEW o \in Orders PROVE StillSaid(o)
  OBVIOUS
<1>1. /\ change[c].at \in {"save", "record"} /\ change' = [change EXCEPT ![c].at = "failed"]
      /\ UNCHANGED <<status, opening, overlapped>> /\ broken' = broken \cup {change[c].order}
  BY DEF FailChange
<1>2. /\ change'[c].order = change[c].order
      /\ \A d \in Changes \ {c} : change'[d] = change[d]
  BY <1>1, ChangeMoves
<1>3. CASE o # change[c].order
  <2>1. \A d \in Changes : Underway(d, o) \/ Underway(d, o)' => change'[d] = change[d]
    BY <1>2, <1>3 DEF Underway
  <2> QED
    BY <1>1, <2>1, OtherStillSaid
<1>4. CASE o = change[c].order
  BY <1>1, <1>4 DEF StillSaid, OpeningOK
<1> QED
  BY <1>3, <1>4

LEMMA CrashStillSaid ==
  ASSUME ChangeInv, \A q \in Orders : OpeningOK(q), Crash
  PROVE  \A o \in Orders : StillSaid(o)
<1> SUFFICES ASSUME NEW o \in Orders PROVE StillSaid(o)
  OBVIOUS
<1>1. /\ \A c \in Changes : change'[c] = IF change[c].at \in Resting THEN change[c]
                                         ELSE [change[c] EXCEPT !.at = "failed"]
      /\ opening'[o] = IF opening[o] = "stored" THEN "silent" ELSE opening[o]
      /\ broken' = broken \cup {q \in Orders : Busy(q)}
      /\ UNCHANGED <<status, overlapped>>
  BY DEF Crash
<1>2. \A c \in Changes : change'[c].at \in Resting
  BY <1>1, CrashStep DEF Resting, ChangeInv, OrderTypeOK
<1>3. CASE Busy(o)
  BY <1>1, <1>3 DEF StillSaid, OpeningOK
<1>4. CASE ~Busy(o)
  <2>1. /\ opening[o] # "stored"
        /\ \A c \in Changes : Underway(c, o) => change[c].at \in Resting
    BY <1>4 DEF Busy, Underway
  <2>2. \A c \in Changes : ~(Underway(c, o) \/ Underway(c, o)')
    BY <1>2, <2>1 DEF Underway, Resting
  <2> QED
    BY <1>1, <2>1, <2>2, OtherStillSaid
<1> QED
  BY <1>3, <1>4

(* What is announced is what lists should say from now on.                 *)
LEMMA ChangeIsSaid ==
  ASSUME ChangeInv, \A q \in Orders : OpeningOK(q), NEW c \in Changes, AnnounceChange(c)
  PROVE  /\ \A o \in Orders : o # change[c].order => StillSaid(o)
         /\ change[c].to \in Status
         /\ \E o \in Orders :
              /\ o = change[c].order /\ OpeningOK(o)'
              /\ o \notin overlapped' \cup broken' =>
                   /\ o \notin overlapped \cup broken
                   /\ \A v \in Views(o) : Len(v) = 1
                   /\ <<change[c].to>> \in Views(o)'
<1>1. /\ change[c].at = "announce" /\ change' = [change EXCEPT ![c].at = "done"]
      /\ UNCHANGED <<status, opening, overlapped, broken>>
  BY DEF AnnounceChange
<1>2. /\ change'[c].at = "done" /\ change'[c].order = change[c].order
      /\ \A d \in Changes \ {c} : change'[d] = change[d]
  BY <1>1, ChangeMoves
<1>3. ASSUME NEW o \in Orders, o # change[c].order PROVE StillSaid(o)
  <2>1. \A d \in Changes : Underway(d, o) \/ Underway(d, o)' => change'[d] = change[d]
    BY <1>2, <1>3 DEF Underway
  <2> QED
    BY <1>1, <2>1, OtherStillSaid
<1>4. PICK o \in Orders : o = change[c].order /\ change[c].to \in Status
  BY <1>1, FromChange
<1>5. Underway(c, o) /\ Pending(c, o)
  BY <1>1, <1>4 DEF Underway, Pending
<1>6. \A d \in Changes : /\ Underway(d, o)' => Underway(d, o) /\ d # c /\ change'[d] = change[d]
                         /\ Pending(d, o)' => Pending(d, o) /\ d # c /\ change'[d] = change[d]
  BY <1>2 DEF Underway, Pending
<1>7. OpeningOK(o)'
  BY <1>1, <1>6 DEF OpeningOK
<1>8. ASSUME o \notin overlapped \cup broken
      PROVE  (\A v \in Views(o) : Len(v) = 1) /\ <<change[c].to>> \in Views(o)'
  <2>1. /\ opening[o] = "announced" /\ change[c].to = status[o]
        /\ \A d \in Changes : Underway(d, o) => d = c
    BY <1>5, <1>8, OnePending
  <2>2. \A d \in Changes : ~Pending(d, o)'
    BY <1>6, <2>1 DEF Pending, Underway
  <2>3. change[c].to \in Announced(o)'
    BY <1>1, <1>4, <2>1, <2>2 DEF Announced
  <2> QED
    BY <1>1, <2>1, <2>3 DEF Views
<1> QED
  BY <1>1, <1>3, <1>4, <1>7, <1>8

LEMMA OrderIsSaid ==
  ASSUME ChangeInv, \A q \in Orders : OpeningOK(q), NEW p \in Orders, AnnounceOrder(p)
  PROVE  /\ \A o \in Orders : o # p => StillSaid(o)
         /\ OpeningOK(p)'
         /\ p \notin overlapped' \cup broken' =>
              p \notin overlapped \cup broken /\ Views(p) = {<<>>} /\ <<NewStatus>> \in Views(p)'
<1>1. /\ opening \in [Orders -> {"none", "stored", "announced", "silent"}]
      /\ opening[p] = "stored" /\ opening' = [opening EXCEPT ![p] = "announced"]
      /\ UNCHANGED <<status, change, overlapped, broken>>
  BY DEF AnnounceOrder, ChangeInv, OrderTypeOK
<1>2. ASSUME NEW o \in Orders, o # p PROVE StillSaid(o)
  <2>1. \A d \in Changes : Underway(d, o) \/ Underway(d, o)' => change'[d] = change[d]
    BY <1>1
  <2>2. opening'[o] = opening[o] /\ status'[o] = status[o]
    BY <1>1, <1>2
  <2> QED
    BY <1>1, <2>1, <2>2, OtherStillSaid
<1>3. opening'[p] = "announced"
  BY <1>1
<1>4. ASSUME p \notin overlapped \cup broken
      PROVE  status[p] = NewStatus /\ \A d \in Changes : ~Underway(d, p)
  BY <1>1, <1>4 DEF OpeningOK
<1>5. OpeningOK(p)'
  <2>1. status[p] # None
    BY <1>1 DEF OpeningOK
  <2>2. p \notin overlapped \cup broken => \A d \in Changes : ~Pending(d, p)'
    BY <1>1, <1>4 DEF Underway, Pending
  <2> QED
    BY <1>1, <1>3, <2>1, <2>2 DEF OpeningOK
<1>6. ASSUME p \notin overlapped \cup broken PROVE <<NewStatus>> \in Views(p)'
  <2>1. NewStatus \in Status
    BY OrderAssumption DEF Status
  <2>2. \A d \in Changes : ~Pending(d, p)'
    BY <1>1, <1>4, <1>6 DEF Underway, Pending
  <2>3. NewStatus \in Announced(p)'
    BY <1>1, <1>4, <1>6, <2>1, <2>2 DEF Announced
  <2> QED
    BY <1>3, <2>3 DEF Views
<1>7. Views(p) = {<<>>}
  BY <1>1 DEF Views
<1> QED
  BY <1>1, <1>2, <1>5, <1>6, <1>7

----------------------------------------------------------------------------
(* Steps of a tab's connection.                                            *)
LEMMA WireSame ==
  ASSUME NEW t \in Tabs, Line(t), page'[t] = page[t], current'[t] = current[t],
         socket'[t] = socket[t], inbox'[t] = inbox[t]
  PROVE  Line(t)'
BY DEF Line, Wire

LEMMA ConnectKeeps ==
  ASSUME TabTypeOK, NEW t \in Tabs, Line(t), current[t] \in {0, 1}, Connect(t), inbox' = inbox
  PROVE  /\ current' \in [Tabs -> {0, 1, 2}] /\ socket' \in [Tabs -> [Sockets -> SocketType]]
         /\ current'[t] # 0 /\ (current[t] = 0 => current'[t] = 1)
         /\ \A u \in Tabs \ {t} : current'[u] = current[u] /\ socket'[u] = socket[u]
         /\ \A i \in Sockets : Wire(t, i)'
<1>1. /\ current \in [Tabs -> {0, 1, 2}] /\ socket \in [Tabs -> [Sockets -> SocketType]]
      /\ \A i \in Sockets : Wire(t, i) /\ socket[t][i] \in SocketType
  BY DEF TabTypeOK, Line
<1>2. CASE current[t] # 0 /\ socket[t][current[t]].link = "up"
  <2>1. UNCHANGED <<current, socket>>
    BY <1>2 DEF Connect
  <2> QED
    BY <1>1, <1>2, <2>1 DEF Wire
<1>3. CASE ~(current[t] # 0 /\ socket[t][current[t]].link = "up")
  <2>1. PICK i \in {1, 2} : i = current[t] + 1 /\ i \in Sockets /\ i > current[t]
    BY DEF Sockets
  <2>2. /\ current' = [current EXCEPT ![t] = i]
        /\ socket' = [socket EXCEPT ![t][i].link = "connecting"]
    BY <1>3, <2>1 DEF Connect
  <2>3. [socket[t][i] EXCEPT !.link = "connecting"] \in SocketType
    BY <1>1, <2>1 DEF SocketType
  <2>4. /\ current'[t] = i /\ current' \in [Tabs -> {0, 1, 2}]
        /\ \A u \in Tabs \ {t} : current'[u] = current[u]
    BY <1>1, <2>2, <2>1
  <2>5. /\ socket' \in [Tabs -> [Sockets -> SocketType]]
        /\ socket'[t][i] = [socket[t][i] EXCEPT !.link = "connecting"]
        /\ \A k \in Sockets \ {i} : socket'[t][k] = socket[t][k]
        /\ \A u \in Tabs \ {t} : socket'[u] = socket[u]
    BY <1>1, <2>2, <2>1, <2>3
  <2>6. Wire(t, i)'
    <3>1. socket[t][i] = NoSocket /\ inbox[t][i] = <<>>
      BY <1>1, <2>1 DEF Wire, NoSocket
    <3>2. socket'[t][i].joined = FALSE /\ socket'[t][i].join = "no"
      <4>1. /\ socket[t][i].joined = FALSE /\ socket[t][i].join = "no"
            /\ socket[t][i] \in SocketType
        BY <1>1, <2>1, <3>1 DEF NoSocket
      <4> QED
        BY <2>5, <4>1 DEF SocketType
    <3>3. inbox'[t][i] = <<>> /\ ~(i > current'[t])
      BY <2>1, <2>4, <3>1
    <3> QED
      BY <2>1, <2>4, <3>2, <3>3 DEF Wire
  <2>7. ASSUME NEW k \in Sockets, k # i PROVE Wire(t, k)'
    <3>1. socket'[t][k] = socket[t][k] /\ Wire(t, k) /\ k \in {1, 2}
      BY <1>1, <2>5, <2>7 DEF Sockets
    <3>2. socket[t][k].joined = FALSE /\ socket[t][k].join = "no" /\ inbox[t][k] = <<>>
      <4>1. CASE k = current[t]
        <5>1. socket[t][k].link # "up" /\ k = 1
          BY <1>3, <2>1, <3>1, <4>1
        <5> QED
          BY <1>1, <3>1, <5>1 DEF Wire, SocketType
      <4>2. CASE k # current[t]
        BY <1>1, <3>1, <4>2 DEF Wire, SocketType
      <4> QED
        BY <4>1, <4>2
    <3>3. k > i => socket[t][k] = NoSocket
      BY <2>1, <3>1 DEF Wire
    <3> QED
      BY <2>4, <3>1, <3>2, <3>3 DEF Wire
  <2>8. current'[t] # 0 /\ (current[t] = 0 => current'[t] = 1)
    BY <2>1, <2>4
  <2>9. \A k \in Sockets : Wire(t, k)'
    BY <2>6, <2>7
  <2> QED
    BY <2>4, <2>5, <2>8, <2>9
<1> QED
  BY <1>2, <1>3

LEMMA PageStep ==
  ASSUME TabTypeOK, \A u \in Tabs : Line(u), NEW t \in Tabs,
         LoadPage(t) \/ LogIn(t) \/ ProfileLoaded(t) \/ MountLayout(t)
  PROVE  TabTypeOK' /\ \A u \in Tabs : Line(u)'
<1> USE DEF TabTypeOK
<1>1. CASE ProfileLoaded(t)
  <2>1. /\ page' = [page EXCEPT ![t] = "entering"] /\ page[t] = "guarded"
        /\ user' = [user EXCEPT ![t] = TRUE]
        /\ UNCHANGED <<current, socket, inbox, shown, fetched, drops, missed>>
    BY <1>1 DEF ProfileLoaded
  <2>2. TabTypeOK'
    BY <2>1
  <2>3. ASSUME NEW u \in Tabs PROVE Line(u)'
    BY <2>1 DEF Line, Wire
  <2> QED
    BY <2>2, <2>3
<1>2. CASE LoadPage(t) \/ LogIn(t) \/ MountLayout(t)
  <2>1. /\ Connect(t) /\ UNCHANGED <<inbox, shown, fetched, drops, missed>>
        /\ user' \in [Tabs -> BOOLEAN]
    BY <1>2 DEF LoadPage, LogIn, MountLayout
  <2>2. \/ /\ page[t] = "closed" /\ page' = [page EXCEPT ![t] = "guarded"]
        \/ /\ page[t] = "closed" /\ page' = [page EXCEPT ![t] = "entering"]
        \/ /\ page[t] = "entering" /\ page' = [page EXCEPT ![t] = "open"]
    BY <1>2 DEF LoadPage, LogIn, MountLayout
  <2>3. /\ page' \in [Tabs -> {"closed", "guarded", "entering", "open"}]
        /\ \A u \in Tabs \ {t} : page'[u] = page[u]
        /\ page'[t] \in {"guarded", "entering"} => page[t] = "closed"
        /\ page'[t] # "closed"
    BY <2>2
  <2>4. /\ page[t] = "closed" => current[t] = 0
        /\ page[t] = "entering" => current[t] = 1
        /\ page[t] \in {"closed", "entering"}
    BY <2>2 DEF Line
  <2>5. /\ current' \in [Tabs -> {0, 1, 2}] /\ socket' \in [Tabs -> [Sockets -> SocketType]]
        /\ current'[t] # 0 /\ (current[t] = 0 => current'[t] = 1)
        /\ \A u \in Tabs \ {t} : current'[u] = current[u] /\ socket'[u] = socket[u]
        /\ \A i \in Sockets : Wire(t, i)'
    BY <2>1, <2>4, ConnectKeeps
  <2>6. TabTypeOK'
    BY <2>1, <2>3, <2>5
  <2>7. Line(t)'
    BY <2>3, <2>4, <2>5 DEF Line
  <2>8. ASSUME NEW u \in Tabs, u # t PROVE Line(u)'
    BY <2>1, <2>3, <2>5, <2>8, WireSame
  <2> QED
    BY <2>6, <2>7, <2>8
<1> QED
  BY <1>1, <1>2

LEMMA ConnectsStep ==
  ASSUME TabTypeOK, \A u \in Tabs : Line(u), NEW t \in Tabs, NEW i \in Sockets,
         SocketConnects(t, i)
  PROVE  TabTypeOK' /\ \A u \in Tabs : Line(u)'
<1> DEFINE up == [socket[t] EXCEPT ![i] = Opened(@)]
           all == IF user[t] THEN [up EXCEPT ![current[t]] = Asking(@)] ELSE up
<1>1. /\ socket \in [Tabs -> [Sockets -> SocketType]] /\ current[t] \in {0, 1, 2}
      /\ \A k \in Sockets : Wire(t, k) /\ socket[t][k] \in SocketType
  BY DEF TabTypeOK, Line
<1>2. /\ socket[t][i].link = "connecting" /\ socket' = [socket EXCEPT ![t] = all]
      /\ UNCHANGED <<page, user, current, inbox, shown, fetched, drops, missed>>
  BY DEF SocketConnects
<1>3. current[t] \in Sockets /\ current[t] >= i /\ i \in {1, 2} /\ Sockets = {1, 2}
  BY <1>1, <1>2 DEF Wire, NoSocket, Sockets
<1>4. \A s \in SocketType :
        /\ Opened(s) \in SocketType /\ Asking(s) \in SocketType
        /\ Opened(s).link = "up" /\ Opened(s).joined = s.joined
        /\ Opened(s).join = IF s.join = "kept" THEN "sent" ELSE s.join
        /\ Asking(s).link = s.link /\ Asking(s).joined = s.joined
        /\ Asking(s).join = IF s.link = "up" THEN "sent" ELSE "kept"
  BY DEF SocketType, Opened, Asking
<1>5. /\ up \in [Sockets -> SocketType] /\ up[i] = Opened(socket[t][i])
      /\ \A k \in Sockets \ {i} : up[k] = socket[t][k]
  BY <1>1, <1>4
<1>6. /\ all \in [Sockets -> SocketType]
      /\ \A k \in Sockets :
           all[k] = IF user[t] /\ k = current[t] THEN Asking(up[k]) ELSE up[k]
  BY <1>3, <1>4, <1>5
<1> HIDE DEF up, all
<1>7. socket' \in [Tabs -> [Sockets -> SocketType]] /\ socket'[t] = all
      /\ \A u \in Tabs \ {t} : socket'[u] = socket[u]
  BY <1>1, <1>2, <1>6
<1>8. TabTypeOK'
  BY <1>2, <1>7 DEF TabTypeOK
<1>9. ASSUME NEW k \in Sockets PROVE Wire(t, k)'
  <2>1. /\ socket'[t][k] = all[k] /\ inbox'[t][k] = inbox[t][k] /\ current'[t] = current[t]
        /\ Wire(t, k) /\ socket[t][k] \in SocketType /\ up[k] \in SocketType
        /\ k \in {1, 2}
    BY <1>1, <1>2, <1>3, <1>5, <1>7
  <2>2. k > current[t] => all[k] = NoSocket
    BY <1>3, <1>5, <1>6, <2>1 DEF Wire
  <2>3. all[k].joined = socket[t][k].joined
    BY <1>4, <1>5, <1>6, <2>1
  <2>4. all[k].join # "no" => k = current[t]
    BY <1>4, <1>5, <1>6, <2>1 DEF Wire
  <2>5. all[k].joined => all[k].link = "up"
    BY <1>4, <1>5, <1>6, <2>1 DEF Wire
  <2>6. all[k].join = "sent" => all[k].link = "up"
    BY <1>4, <1>5, <1>6, <2>1 DEF Wire
  <2>7. all[k].join = "kept" => k = 2
    BY <1>3, <1>4, <1>5, <1>6, <2>1 DEF Wire
  <2> QED
    BY <2>1, <2>2, <2>3, <2>4, <2>5, <2>6, <2>7 DEF Wire
<1>10. ASSUME NEW u \in Tabs, u # t PROVE Line(u)'
  BY <1>2, <1>7, <1>10, WireSame
<1>11. Line(t)'
  BY <1>2, <1>9 DEF Line
<1> QED
  BY <1>8, <1>10, <1>11

LEMMA JoinStep ==
  ASSUME TabTypeOK, \A u \in Tabs : Line(u), NEW t \in Tabs, NEW i \in Sockets,
         JoinTenant(t, i)
  PROVE  TabTypeOK' /\ \A u \in Tabs : Line(u)'
<1>1. /\ socket \in [Tabs -> [Sockets -> SocketType]] /\ socket[t][i].join = "sent"
      /\ socket' = [socket EXCEPT ![t][i].joined = TRUE, ![t][i].join = "no"]
      /\ UNCHANGED <<page, user, current, inbox, shown, fetched, drops, missed>>
  BY DEF TabTypeOK, JoinTenant
<1>2. /\ socket'[t][i] = [socket[t][i] EXCEPT !.joined = TRUE, !.join = "no"]
      /\ \A k \in Sockets \ {i} : socket'[t][k] = socket[t][k]
      /\ \A u \in Tabs \ {t} : socket'[u] = socket[u]
      /\ socket[t][i] \in SocketType
  BY <1>1
<1>3. socket' \in [Tabs -> [Sockets -> SocketType]]
  <2>1. [socket[t][i] EXCEPT !.joined = TRUE, !.join = "no"] \in SocketType
    BY <1>2 DEF SocketType
  <2> QED
    BY <1>1, <2>1
<1>4. TabTypeOK'
  BY <1>1, <1>3 DEF TabTypeOK
<1>5. ASSUME NEW k \in Sockets PROVE Wire(t, k)'
  <2>1. Wire(t, k) /\ Wire(t, i)
    BY DEF Line
  <2>2. CASE k = i
    <3>1. /\ socket'[t][k].joined = TRUE /\ socket'[t][k].join = "no"
          /\ socket'[t][k].link = socket[t][k].link
      BY <1>2, <2>2 DEF SocketType
    <3>2. socket[t][i].link = "up" /\ i = current[t] /\ ~(i > current[t])
      BY <1>1, <2>1 DEF Wire, Sockets
    <3> QED
      BY <1>1, <2>2, <3>1, <3>2 DEF Wire
  <2>3. CASE k # i
    BY <1>1, <1>2, <2>1, <2>3 DEF Wire
  <2> QED
    BY <2>2, <2>3
<1>6. Line(t)'
  BY <1>1, <1>5 DEF Line
<1>7. ASSUME NEW u \in Tabs, u # t PROVE Line(u)'
  BY <1>1, <1>2, <1>7, WireSame
<1> QED
  BY <1>4, <1>6, <1>7

----------------------------------------------------------------------------
(* Steps of events and fetches.                                            *)
LEMMA OneBox ==
  ASSUME TabTypeOK, NEW t \in Tabs, Line(t)
  PROVE  \A i, j \in Sockets : inbox[t][i] # <<>> /\ inbox[t][j] # <<>> => i = j
BY DEF Line, Wire

LEMMA AllSaid ==
  ASSUME TabTypeOK, NEW t \in Tabs, NEW o \in Orders, Line(t), Fresh(t, o),
         o \notin missed[t] \cup overlapped \cup broken,
         \A i \in Sockets : About(inbox[t][i], o) = {}
  PROVE  shown[t][o] \in Views(o)
<1>1. PICK i \in Sockets : \A j \in Sockets : j # i => inbox[t][j] = <<>>
  <2>1. CASE \E i \in Sockets : inbox[t][i] # <<>>
    BY <2>1, OneBox
  <2>2. CASE \A i \in Sockets : inbox[t][i] = <<>>
    BY <2>2 DEF Sockets
  <2> QED
    BY <2>1, <2>2
<1>2. Leads(inbox[t][i], shown[t][o], o, Views(o))
  BY <1>1 DEF Fresh
<1> QED
  BY <1>2 DEF Leads

(* A tab that a step leaves alone. *)
LEMMA FreshSame ==
  ASSUME NEW t \in Tabs, NEW o \in Orders, Fresh(t, o), StillSaid(o),
         inbox'[t] = inbox[t], shown'[t] = shown[t], missed'[t] = missed[t]
  PROVE  Fresh(t, o)'
<1> SUFFICES ASSUME o \notin missed'[t] \cup overlapped' \cup broken',
                    NEW i \in Sockets, \A j \in Sockets : j # i => inbox'[t][j] = <<>>
             PROVE  Leads(inbox'[t][i], shown'[t][o], o, Views(o)')
  BY DEF Fresh
<1>1. /\ o \notin missed[t] \cup overlapped \cup broken /\ Views(o) \subseteq Views(o)'
      /\ \A j \in Sockets : j # i => inbox[t][j] = <<>>
  BY DEF StillSaid
<1>2. Leads(inbox[t][i], shown[t][o], o, Views(o))
  BY <1>1 DEF Fresh
<1> QED
  BY <1>1, <1>2, LeadsMore

LEMMA AnswerSame ==
  ASSUME NEW t \in Tabs, NEW f \in Fetches, NEW o \in Orders, AnswerFresh(t, f, o), StillSaid(o),
         inbox'[t] = inbox[t], fetch'[t][f] = fetch[t][f]
  PROVE  AnswerFresh(t, f, o)'
BY DEF AnswerFresh, StillSaid

(* An answer in which the orders concerned are noted.                      *)
Noted(t, os) ==
  \A f \in Fetches :
    /\ fetch'[t][f].at = fetch[t][f].at /\ fetch'[t][f].orders = fetch[t][f].orders
    /\ fetch[t][f].at = "answered" => fetch'[t][f].overlap = fetch[t][f].overlap \cup os

LEMMA NotingTyped ==
  ASSUME FetchTypeOK, NEW t \in Tabs, NEW os \in SUBSET Orders
  PROVE  /\ Noting(t, os) \in [Fetches -> Answer]
         /\ fetch'[t] = Noting(t, os) => Noted(t, os)
<1>1. ASSUME NEW f \in Fetches
      PROVE  /\ Noting(t, os)[f] \in Answer
             /\ Noting(t, os)[f].at = fetch[t][f].at
             /\ Noting(t, os)[f].orders = fetch[t][f].orders
             /\ fetch[t][f].at = "answered" =>
                  Noting(t, os)[f].overlap = fetch[t][f].overlap \cup os
  <2>1. /\ fetch[t][f] \in Answer
        /\ Noting(t, os)[f] = IF fetch[t][f].at = "answered"
                              THEN [fetch[t][f] EXCEPT !.overlap = @ \cup os]
                              ELSE fetch[t][f]
    BY DEF FetchTypeOK, Noting
  <2> QED
    BY <2>1 DEF Answer
<1>2. Noting(t, os) = [f \in Fetches |-> Noting(t, os)[f]]
  BY DEF Noting
<1> QED
  BY <1>1, <1>2 DEF Noted

LEMMA AnswerNoted ==
  ASSUME NEW t \in Tabs, NEW f \in Fetches, NEW o \in Orders, NEW os,
         AnswerFresh(t, f, o), Noted(t, os),
         o \notin os => /\ StillSaid(o)
                        /\ \A i \in Sockets : About(inbox[t][i], o) = {} =>
                                              About(inbox'[t][i], o) = {}
  PROVE  AnswerFresh(t, f, o)'
<1> SUFFICES ASSUME fetch'[t][f].at = "answered",
                    o \notin fetch'[t][f].overlap \cup overlapped' \cup broken'
             PROVE  /\ fetch'[t][f].orders[o] \in Views(o)'
                    /\ \A i \in Sockets : About(inbox'[t][i], o) = {}
  BY DEF AnswerFresh
<1>1. /\ fetch[t][f].at = "answered" /\ fetch'[t][f].orders = fetch[t][f].orders
      /\ o \notin os /\ o \notin fetch[t][f].overlap
  BY DEF Noted
<1>2. o \notin overlapped \cup broken /\ Views(o) \subseteq Views(o)'
  BY <1>1 DEF StillSaid
<1>3. /\ fetch[t][f].orders[o] \in Views(o)
      /\ \A i \in Sockets : About(inbox[t][i], o) = {}
  BY <1>1, <1>2 DEF AnswerFresh
<1> QED
  BY <1>1, <1>2, <1>3

(* Events that are lost, of orders that are noted as missed.               *)
LEMMA FreshLost ==
  ASSUME TabTypeOK, NEW t \in Tabs, NEW o \in Orders, Line(t), Fresh(t, o), StillSaid(o),
         shown'[t] = shown[t], missed[t] \subseteq missed'[t],
         \A i \in Sockets : \/ inbox'[t][i] = inbox[t][i]
                            \/ inbox'[t][i] = <<>> /\ (o \notin missed'[t] => About(inbox[t][i], o) = {})
  PROVE  Fresh(t, o)'
<1> SUFFICES ASSUME o \notin missed'[t] \cup overlapped' \cup broken',
                    NEW i \in Sockets, \A j \in Sockets : j # i => inbox'[t][j] = <<>>
             PROVE  Leads(inbox'[t][i], shown'[t][o], o, Views(o)')
  BY DEF Fresh
<1>1. o \notin missed[t] \cup overlapped \cup broken /\ Views(o) \subseteq Views(o)'
  BY DEF StillSaid
<1>2. About(<<>>, o) = {}
  BY DEF About
<1>3. CASE \A j \in Sockets : About(inbox[t][j], o) = {}
  <2>1. shown[t][o] \in Views(o)
    BY <1>1, <1>3, AllSaid
  <2>2. About(inbox'[t][i], o) = {}
    BY <1>2, <1>3
  <2> QED
    BY <1>1, <2>1, <2>2 DEF Leads
<1>4. CASE \E j \in Sockets : About(inbox[t][j], o) # {}
  <2>1. PICK j \in Sockets : About(inbox[t][j], o) # {}
    BY <1>4
  <2>2. inbox'[t][j] = inbox[t][j] /\ inbox[t][j] # <<>>
    BY <1>2, <2>1
  <2>3. j = i
    BY <2>2
  <2>4. \A k \in Sockets : k # i => inbox[t][k] = <<>>
    BY <2>2, <2>3, OneBox
  <2>5. Leads(inbox[t][i], shown[t][o], o, Views(o))
    BY <1>1, <2>4 DEF Fresh
  <2> QED
    BY <1>1, <2>2, <2>3, <2>5, LeadsMore
<1> QED
  BY <1>3, <1>4

LEMMA Lost ==
  ASSUME TabTypeOK, NEW t \in Tabs, NEW is \in SUBSET Sockets, NEW o \in Orders,
         o \notin LosingOrders(t, is)
  PROVE  \A i \in is : About(inbox[t][i], o) = {}
<1> SUFFICES ASSUME NEW i \in is PROVE About(inbox[t][i], o) = {}
  OBVIOUS
<1>1. inbox[t][i] \in Seq(Event)
  BY DEF TabTypeOK
<1>2. DOMAIN inbox[t][i] = 1 .. Len(inbox[t][i])
  BY <1>1
<1> QED
  BY <1>2 DEF LosingOrders, About

(* What a step has to leave of the tabs.                                   *)
TabsKept ==
  /\ TabTypeOK' /\ FetchTypeOK'
  /\ \A t \in Tabs : Line(t)'
  /\ \A t \in Tabs, o \in Orders : Fresh(t, o)'
  /\ \A t \in Tabs, f \in Fetches, o \in Orders : AnswerFresh(t, f, o)'

(* A step of the orders that says nothing of them.                         *)
LEMMA SilentStep ==
  ASSUME FeedInv, \A o \in Orders : StillSaid(o), UNCHANGED tabVars
  PROVE  TabsKept
<1>1. UNCHANGED <<page, user, current, socket, inbox, shown, fetch, fetched, drops, missed>>
  BY DEF tabVars
<1>2. TabTypeOK' /\ FetchTypeOK'
  BY <1>1 DEF FeedInv, TabTypeOK, FetchTypeOK
<1>3. ASSUME NEW t \in Tabs PROVE Line(t)'
  BY <1>1, WireSame DEF FeedInv
<1>4. ASSUME NEW t \in Tabs, NEW o \in Orders PROVE Fresh(t, o)'
  BY <1>1, FreshSame DEF FeedInv
<1>5. ASSUME NEW t \in Tabs, NEW f \in Fetches, NEW o \in Orders PROVE AnswerFresh(t, f, o)'
  BY <1>1, AnswerSame DEF FeedInv
<1> QED
  BY <1>2, <1>3, <1>4, <1>5 DEF TabsKept

LEMMA NothingChanges ==
  ASSUME \A o \in Orders : OpeningOK(o), UNCHANGED orderVars
  PROVE  \A o \in Orders : StillSaid(o) /\ Views(o)' = Views(o)
<1>1. UNCHANGED <<status, history, opening, change, faults, overlapped, broken>>
  BY DEF orderVars
<1>2. ASSUME NEW o \in Orders PROVE StillSaid(o)
  BY <1>1, OtherStillSaid
<1>3. ASSUME NEW o \in Orders PROVE Views(o)' = Views(o)
  BY <1>1 DEF Views, Announced, Pending
<1> QED
  BY <1>2, <1>3

(* A step of a tab's connection concerns no list.                          *)
LEMMA ConnectionStep ==
  ASSUME FeedInv, UNCHANGED orderVars, NEW t \in Tabs,
         \/ LoadPage(t) \/ LogIn(t) \/ ProfileLoaded(t) \/ MountLayout(t)
         \/ \E i \in Sockets : SocketConnects(t, i) \/ JoinTenant(t, i)
  PROVE  TabsKept
<1>1. UNCHANGED <<inbox, shown, fetch, missed>>
  BY DEF LoadPage, LogIn, ProfileLoaded, MountLayout, SocketConnects, JoinTenant
<1>2. TabTypeOK /\ \A u \in Tabs : Line(u)
  BY DEF FeedInv
<1>3. TabTypeOK' /\ \A u \in Tabs : Line(u)'
  BY <1>2, PageStep, ConnectsStep, JoinStep
<1>4. FetchTypeOK'
  BY <1>1 DEF FeedInv, FetchTypeOK
<1>5. \A o \in Orders : StillSaid(o)
  BY NothingChanges DEF FeedInv
<1>6. ASSUME NEW u \in Tabs, NEW o \in Orders PROVE Fresh(u, o)'
  BY <1>1, <1>5, FreshSame DEF FeedInv
<1>7. ASSUME NEW u \in Tabs, NEW f \in Fetches, NEW o \in Orders PROVE AnswerFresh(u, f, o)'
  BY <1>1, <1>5, AnswerSame DEF FeedInv
<1> QED
  BY <1>3, <1>4, <1>6, <1>7 DEF TabsKept

(* An event reaches the socket that is in the room, or nobody.             *)
LEMMA EmitStep ==
  ASSUME FeedInv, NEW e \in Event, Emit(e),
         \A o \in Orders : o # e.order => StillSaid(o),
         e.order \notin overlapped' \cup broken' =>
           /\ e.order \notin overlapped \cup broken
           /\ \A q \in Seq(Event), x \in Seq(Status) :
                Leads(q, x, e.order, Views(e.order)) =>
                  Leads(Append(q, e), x, e.order, Views(e.order)')
  PROVE  TabsKept
<1>1. /\ inbox' = [t \in Tabs |-> [i \in Sockets |->
                     IF socket[t][i].joined THEN Append(inbox[t][i], e) ELSE inbox[t][i]]]
      /\ missed' = [t \in Tabs |-> IF Joined(t) = {} THEN missed[t] \cup {e.order} ELSE missed[t]]
      /\ fetch' = [t \in Tabs |-> Noting(t, {e.order})]
      /\ UNCHANGED <<page, user, current, socket, shown, fetched, drops>>
  BY DEF Emit
<1>2. TabTypeOK /\ FetchTypeOK /\ e.order \in Orders
  BY DEF FeedInv, Event
<1>3. ASSUME NEW t \in Tabs, NEW i \in Sockets
      PROVE  /\ inbox[t][i] \in Seq(Event)
             /\ inbox'[t][i] = IF socket[t][i].joined THEN Append(inbox[t][i], e) ELSE inbox[t][i]
             /\ inbox'[t][i] \in Seq(Event)
             /\ inbox'[t][i] = <<>> => inbox[t][i] = <<>> /\ ~socket[t][i].joined
  <2>1. /\ inbox[t][i] \in Seq(Event)
        /\ inbox'[t][i] = IF socket[t][i].joined THEN Append(inbox[t][i], e) ELSE inbox[t][i]
    BY <1>1, <1>2 DEF TabTypeOK
  <2>2. Append(inbox[t][i], e) \in Seq(Event) /\ Append(inbox[t][i], e) # <<>>
    BY <2>1, AboutAppend
  <2> QED
    BY <2>1, <2>2
<1>4. TabTypeOK'
  <2>1. inbox' \in [Tabs -> [Sockets -> Seq(Event)]]
    <3>1. \A t \in Tabs : inbox'[t] \in [Sockets -> Seq(Event)]
      BY <1>1, <1>3
    <3> QED
      BY <1>1, <3>1
  <2>2. missed' \in [Tabs -> SUBSET Orders]
    BY <1>1, <1>2 DEF TabTypeOK
  <2> QED
    BY <1>1, <1>2, <2>1, <2>2 DEF TabTypeOK
<1>5. \A t \in Tabs : fetch'[t] \in [Fetches -> Answer] /\ Noted(t, {e.order})
  BY <1>1, <1>2, NotingTyped
<1>6. FetchTypeOK'
  <2>1. fetch' \in [Tabs -> [Fetches -> Answer]]
    BY <1>1, <1>5
  <2> QED
    BY <1>2, <1>5, <2>1 DEF FetchTypeOK, Noted
<1>7. ASSUME NEW t \in Tabs PROVE Line(t)'
  <2>1. Line(t)
    BY DEF FeedInv
  <2>2. ASSUME NEW i \in Sockets PROVE Wire(t, i)'
    <3>1. Wire(t, i)
      BY <2>1 DEF Line
    <3>2. inbox'[t][i] # <<>> => socket'[t][i].joined
      BY <1>1, <1>3, <3>1 DEF Wire
    <3> QED
      BY <1>1, <3>1, <3>2 DEF Wire
  <2> QED
    BY <1>1, <2>1, <2>2 DEF Line
<1>8. ASSUME NEW t \in Tabs, NEW o \in Orders PROVE Fresh(t, o)'
  <2> SUFFICES ASSUME o \notin missed'[t] \cup overlapped' \cup broken',
                      NEW i \in Sockets, \A j \in Sockets : j # i => inbox'[t][j] = <<>>
               PROVE  Leads(inbox'[t][i], shown'[t][o], o, Views(o)')
    BY DEF Fresh
  <2>1. /\ o \notin missed[t] /\ Fresh(t, o) /\ Line(t)
        /\ o = e.order => Joined(t) # {}
    BY <1>1 DEF FeedInv
  <2>2. \A j \in Sockets : j # i => inbox[t][j] = <<>> /\ ~socket[t][j].joined
    BY <1>3
  <2>3. o \notin overlapped \cup broken
    BY DEF StillSaid
  <2>4. Leads(inbox[t][i], shown[t][o], o, Views(o))
    BY <2>1, <2>2, <2>3 DEF Fresh
  <2>5. shown'[t][o] = shown[t][o] /\ shown[t][o] \in Seq(Status) /\ inbox[t][i] \in Seq(Event)
    BY <1>1, <1>2 DEF TabTypeOK
  <2>6. CASE o = e.order
    <3>1. socket[t][i].joined
      BY <2>1, <2>2, <2>6 DEF Joined
    <3>2. inbox'[t][i] = Append(inbox[t][i], e)
      BY <1>3, <3>1
    <3> QED
      BY <2>4, <2>5, <2>6, <3>2
  <2>7. CASE o # e.order
    <3>1. Views(o) \subseteq Views(o)'
      BY <2>7 DEF StillSaid
    <3>2. Leads(inbox[t][i], shown[t][o], o, Views(o)')
      BY <2>4, <3>1, LeadsMore
    <3>3. Leads(Append(inbox[t][i], e), shown[t][o], o, Views(o)')
      BY <2>5, <2>7, <3>2, OtherLeads
    <3> QED
      BY <1>3, <2>5, <3>2, <3>3
  <2> QED
    BY <2>6, <2>7
<1>9. ASSUME NEW t \in Tabs, NEW f \in Fetches, NEW o \in Orders PROVE AnswerFresh(t, f, o)'
  <2>1. AnswerFresh(t, f, o) /\ Noted(t, {e.order})
    BY <1>5 DEF FeedInv
  <2>2. ASSUME o # e.order, NEW i \in Sockets, About(inbox[t][i], o) = {}
        PROVE  About(inbox'[t][i], o) = {}
    <3>1. About(Append(inbox[t][i], e), o) = About(inbox[t][i], o) \cup {}
      <4>1. About(Append(inbox[t][i], e), o) =
              About(inbox[t][i], o) \cup (IF e.order = o THEN {Len(inbox[t][i]) + 1} ELSE {})
        BY <1>3, AboutAppend
      <4> QED
        BY <2>2, <4>1
    <3> QED
      BY <1>3, <2>2, <3>1
  <2> QED
    BY <2>1, <2>2, AnswerNoted
<1> QED
  BY <1>4, <1>6, <1>7, <1>8, <1>9 DEF TabsKept

LEMMA EmitNewStep ==
  ASSUME FeedInv, NEW p \in Orders, EmitOrderNew(p)
  PROVE  TabsKept /\ \A o \in Orders : OpeningOK(o)'
<1> DEFINE e == [kind |-> "new", order |-> p, status |-> NewStatus]
<1>1. AnnounceOrder(p) /\ Emit(e)
  BY DEF EmitOrderNew
<1>2. e \in Event /\ e.order = p /\ e.kind = "new" /\ e.status = NewStatus
  BY OrderAssumption DEF Event, Status
<1> HIDE DEF e
<1>3. /\ \A o \in Orders : o # p => StillSaid(o)
      /\ OpeningOK(p)'
      /\ p \notin overlapped' \cup broken' =>
           p \notin overlapped \cup broken /\ Views(p) = {<<>>} /\ <<NewStatus>> \in Views(p)'
  BY <1>1, OrderIsSaid DEF FeedInv
<1>4. ASSUME p \notin overlapped' \cup broken', NEW q \in Seq(Event), NEW x \in Seq(Status),
             Leads(q, x, p, Views(p))
      PROVE  Leads(Append(q, e), x, p, Views(p)')
  BY <1>2, <1>3, <1>4, NewLeads
<1>5. TabsKept
  BY <1>1, <1>2, <1>3, <1>4, EmitStep
<1> QED
  BY <1>3, <1>5 DEF StillSaid

LEMMA EmitUpdatedStep ==
  ASSUME FeedInv, NEW c \in Changes, EmitOrderUpdated(c)
  PROVE  TabsKept /\ \A o \in Orders : OpeningOK(o)'
<1>1. /\ AnnounceChange(c)
      /\ Emit([kind |-> "updated", order |-> change[c].order, status |-> change[c].to])
  BY DEF EmitOrderUpdated
<1>2. /\ \A o \in Orders : o # change[c].order => StillSaid(o)
      /\ change[c].to \in Status
  BY <1>1, ChangeIsSaid DEF FeedInv
<1>3. PICK p \in Orders :
        /\ p = change[c].order /\ OpeningOK(p)'
        /\ p \notin overlapped' \cup broken' =>
             /\ p \notin overlapped \cup broken
             /\ \A v \in Views(p) : Len(v) = 1
             /\ <<change[c].to>> \in Views(p)'
  BY <1>1, ChangeIsSaid DEF FeedInv
<1>4. PICK e \in Event : /\ Emit(e) /\ e.order = p
                         /\ e.kind = "updated" /\ e.status = change[c].to
  BY <1>1, <1>2, <1>3 DEF Event
<1>5. ASSUME p \notin overlapped' \cup broken', NEW q \in Seq(Event), NEW x \in Seq(Status),
             Leads(q, x, p, Views(p))
      PROVE  Leads(Append(q, e), x, p, Views(p)')
  BY <1>3, <1>5, <1>4, UpdateLeads
<1>6. TabsKept
  BY <1>2, <1>3, <1>5, <1>4, EmitStep
<1> QED
  BY <1>2, <1>3, <1>6 DEF StillSaid

LEMMA HandleStep ==
  ASSUME FeedInv, UNCHANGED orderVars, NEW t \in Tabs, NEW i \in Sockets, HandleEvent(t, i)
  PROVE  TabsKept
<1> DEFINE e == Head(inbox[t][i])
<1>1. /\ inbox[t][i] # <<>>
      /\ shown' = [shown EXCEPT ![t][e.order] = Corrected(@, e)]
      /\ fetch' = [fetch EXCEPT ![t] = Noting(t, {e.order})]
      /\ inbox' = [inbox EXCEPT ![t][i] = Tail(@)]
      /\ UNCHANGED <<page, user, current, socket, fetched, drops, missed>>
  BY DEF HandleEvent
<1>2. /\ TabTypeOK /\ FetchTypeOK /\ inbox[t][i] \in Seq(Event)
      /\ inbox \in [Tabs -> [Sockets -> Seq(Event)]] /\ shown \in [Tabs -> [Orders -> Seq(Status)]]
  BY DEF FeedInv, TabTypeOK
<1>3. /\ Tail(inbox[t][i]) \in Seq(Event) /\ e \in Event
      /\ e.order \in Orders /\ e.status \in Status
  BY <1>1, <1>2, AboutTail DEF Event
<1> HIDE DEF e
<1>4. /\ inbox' \in [Tabs -> [Sockets -> Seq(Event)]] /\ inbox'[t][i] = Tail(inbox[t][i])
      /\ \A k \in Sockets \ {i} : inbox'[t][k] = inbox[t][k]
      /\ \A u \in Tabs \ {t} : inbox'[u] = inbox[u]
  BY <1>1, <1>2, <1>3
<1>5. \A x \in Seq(Status) : Corrected(x, e) \in Seq(Status)
  <2> SUFFICES ASSUME NEW x \in Seq(Status) PROVE Corrected(x, e) \in Seq(Status)
    OBVIOUS
  <2>1. CASE e.kind = "new"
    BY <1>3, <2>1 DEF Corrected
  <2>2. CASE e.kind # "new" /\ x = <<>>
    BY <1>3, <2>2 DEF Corrected, Event
  <2>3. CASE e.kind # "new" /\ x # <<>>
    <3>1. Corrected(x, e) = [x EXCEPT ![1] = e.status]
      BY <1>3, <2>3 DEF Corrected, Event
    <3>2. 1 \in 1 .. Len(x)
      BY <2>3
    <3> QED
      BY <1>3, <3>1, <3>2, ExceptSeq
  <2> QED
    BY <2>1, <2>2, <2>3
<1>6. /\ shown' \in [Tabs -> [Orders -> Seq(Status)]]
      /\ \A u \in Tabs \ {t} : shown'[u] = shown[u]
      /\ \A o \in Orders :
           shown'[t][o] = IF e.order = o THEN Corrected(shown[t][o], e) ELSE shown[t][o]
  BY <1>1, <1>2, <1>3, <1>5
<1>7. TabTypeOK'
  BY <1>1, <1>2, <1>4, <1>6 DEF TabTypeOK
<1>8. Noting(t, {e.order}) \in [Fetches -> Answer]
  BY <1>2, <1>3, NotingTyped
<1>9. /\ fetch' \in [Tabs -> [Fetches -> Answer]] /\ Noted(t, {e.order})
      /\ \A u \in Tabs \ {t} : fetch'[u] = fetch[u]
  <2>1. fetch \in [Tabs -> [Fetches -> Answer]]
    BY <1>2 DEF FetchTypeOK
  <2>2. fetch' \in [Tabs -> [Fetches -> Answer]] /\ fetch'[t] = Noting(t, {e.order})
    BY <1>1, <1>8, <2>1
  <2>3. Noted(t, {e.order})
    BY <1>2, <1>3, <2>2, NotingTyped
  <2> QED
    BY <1>1, <2>1, <2>2, <2>3
<1>10. FetchTypeOK'
  BY <1>2, <1>9 DEF FetchTypeOK, Noted
<1>11. \A o \in Orders : StillSaid(o) /\ Views(o)' = Views(o)
  BY NothingChanges DEF FeedInv
<1>12. Tail(inbox[t][i]) # <<>> => inbox[t][i] # <<>>
  BY <1>1
<1>13. ASSUME NEW u \in Tabs PROVE Line(u)'
  <2>1. Line(u)
    BY DEF FeedInv
  <2>2. \A k \in Sockets : inbox'[u][k] # <<>> => inbox[u][k] # <<>>
    BY <1>4, <1>12
  <2> QED
    BY <1>1, <2>1, <2>2 DEF Line, Wire
<1>14. ASSUME NEW o \in Orders PROVE Fresh(t, o)'
  <2> SUFFICES ASSUME o \notin missed'[t] \cup overlapped' \cup broken',
                      NEW k \in Sockets, \A j \in Sockets : j # k => inbox'[t][j] = <<>>
               PROVE  Leads(inbox'[t][k], shown'[t][o], o, Views(o)')
    BY DEF Fresh
  <2>1. /\ o \notin missed[t] \cup overlapped \cup broken /\ Fresh(t, o) /\ Line(t)
    BY <1>1, <1>11 DEF FeedInv, StillSaid
  <2>2. \A j \in Sockets : j # i => inbox[t][j] = <<>>
    BY <1>1, <1>2, <2>1, OneBox
  <2>3. Leads(inbox[t][i], shown[t][o], o, Views(o))
    BY <2>1, <2>2 DEF Fresh
  <2>4. shown[t][o] \in Seq(Status)
    BY <1>2
  <2>5. Leads(Tail(inbox[t][i]), shown'[t][o], o, Views(o))
    <3>1. Leads(Tail(inbox[t][i]),
                IF Head(inbox[t][i]).order = o
                THEN Corrected(shown[t][o], Head(inbox[t][i])) ELSE shown[t][o], o, Views(o))
      BY <1>1, <1>2, <2>3, <2>4, HandledLeads
    <3> QED
      BY <1>6, <3>1 DEF e
  <2>6. inbox'[t][k] = Tail(inbox[t][i])
    BY <1>4, <2>2
  <2> QED
    BY <1>11, <2>5, <2>6
<1>15. ASSUME NEW u \in Tabs, NEW o \in Orders PROVE Fresh(u, o)'
  <2>1. CASE u = t
    BY <1>14, <2>1
  <2>2. CASE u # t
    BY <1>1, <1>4, <1>6, <1>11, <2>2, FreshSame DEF FeedInv
  <2> QED
    BY <2>1, <2>2
<1>16. ASSUME NEW u \in Tabs, NEW f \in Fetches, NEW o \in Orders PROVE AnswerFresh(u, f, o)'
  <2>1. CASE u # t
    BY <1>4, <1>9, <1>11, <2>1, AnswerSame DEF FeedInv
  <2>2. CASE u = t
    <3>1. ASSUME NEW k \in Sockets, About(inbox[t][k], o) = {} PROVE About(inbox'[t][k], o) = {}
      <4>1. CASE k = i
        <5>1. About(Tail(inbox[t][i]), o) =
                {n \in 1 .. Len(inbox[t][i]) - 1 : n + 1 \in About(inbox[t][i], o)}
          BY <1>1, <1>2, AboutTail
        <5> QED
          BY <1>4, <3>1, <4>1, <5>1
      <4>2. CASE k # i
        BY <1>4, <3>1, <4>2
      <4> QED
        BY <4>1, <4>2
    <3>2. AnswerFresh(t, f, o)
      BY DEF FeedInv
    <3> QED
      BY <1>9, <1>11, <2>2, <3>1, <3>2, AnswerNoted
  <2> QED
    BY <2>1, <2>2
<1> QED
  BY <1>7, <1>10, <1>13, <1>15, <1>16 DEF TabsKept

LEMMA DroppedTyped ==
  ASSUME NEW s \in SocketType
  PROVE  /\ Dropped(s) \in SocketType /\ Dropped(s).joined = FALSE
         /\ Dropped(s).join = IF s.join = "sent" THEN "no" ELSE s.join
         /\ s = NoSocket => Dropped(s) = NoSocket
<1>1. /\ Dropped(s) \in SocketType /\ Dropped(s).joined = FALSE
      /\ Dropped(s).join = IF s.join = "sent" THEN "no" ELSE s.join
      /\ Dropped(s).link = IF s.link = "up" THEN "connecting" ELSE s.link
  BY DEF SocketType, Dropped
<1>2. \A x \in SocketType :
        x.link = "none" /\ x.joined = FALSE /\ x.join = "no" => x = NoSocket
  BY DEF SocketType, NoSocket
<1> QED
  BY <1>1, <1>2 DEF NoSocket

(* A wire that is cut.                                                     *)
LEMMA WireCut ==
  ASSUME NEW t \in Tabs, NEW i \in Sockets, Wire(t, i), socket[t][i] \in SocketType,
         socket'[t][i] = Dropped(socket[t][i]), inbox'[t][i] = <<>>, current'[t] = current[t]
  PROVE  Wire(t, i)'
<1>1. /\ socket'[t][i].joined = FALSE
      /\ socket'[t][i].join = IF socket[t][i].join = "sent" THEN "no" ELSE socket[t][i].join
      /\ socket[t][i] = NoSocket => socket'[t][i] = NoSocket
  <2>1. PICK s \in SocketType : s = socket[t][i]
    OBVIOUS
  <2>2. /\ Dropped(s).joined = FALSE
        /\ Dropped(s).join = IF s.join = "sent" THEN "no" ELSE s.join
        /\ s = NoSocket => Dropped(s) = NoSocket
    BY DroppedTyped
  <2>3. socket'[t][i] = Dropped(s)
    BY <2>1
  <2> QED
    BY <2>1, <2>2, <2>3
<1> QED
  BY <1>1 DEF Wire

LEMMA DropStep ==
  ASSUME FeedInv, UNCHANGED orderVars, NEW t \in Tabs, NEW i \in Sockets, SocketDrops(t, i)
  PROVE  TabsKept
<1> DEFINE lost == LosingOrders(t, {i})
<1>1. /\ drops < MaxDrops /\ drops' = drops + 1
      /\ socket' = [socket EXCEPT ![t][i] = Dropped(@)]
      /\ inbox' = [inbox EXCEPT ![t][i] = <<>>]
      /\ missed' = [missed EXCEPT ![t] = @ \cup lost]
      /\ fetch' = [fetch EXCEPT ![t] = Noting(t, lost)]
      /\ UNCHANGED <<page, user, current, shown, fetched>>
  BY DEF SocketDrops
<1>2. /\ TabTypeOK /\ FetchTypeOK /\ lost \in SUBSET Orders
      /\ socket \in [Tabs -> [Sockets -> SocketType]]
      /\ inbox \in [Tabs -> [Sockets -> Seq(Event)]]
      /\ missed \in [Tabs -> SUBSET Orders] /\ drops \in 0 .. MaxDrops
      /\ fetch \in [Tabs -> [Fetches -> Answer]]
  BY DEF FeedInv, TabTypeOK, FetchTypeOK, LosingOrders
<1>3. /\ Noting(t, lost) \in [Fetches -> Answer]
      /\ fetch'[t] = Noting(t, lost) => Noted(t, lost)
  BY <1>2, NotingTyped
<1>4. ASSUME NEW o \in Orders, o \notin lost PROVE About(inbox[t][i], o) = {}
  BY <1>2, <1>4, Lost
<1> HIDE DEF lost
<1>5. /\ fetch' \in [Tabs -> [Fetches -> Answer]] /\ Noted(t, lost)
      /\ \A u \in Tabs \ {t} : fetch'[u] = fetch[u]
  BY <1>1, <1>2, <1>3
<1>6. FetchTypeOK'
  BY <1>2, <1>5 DEF FetchTypeOK, Noted
<1>7. /\ socket' \in [Tabs -> [Sockets -> SocketType]]
      /\ socket'[t][i] = Dropped(socket[t][i])
      /\ \A k \in Sockets \ {i} : socket'[t][k] = socket[t][k]
      /\ \A u \in Tabs \ {t} : socket'[u] = socket[u]
  BY <1>1, <1>2, DroppedTyped
<1>8. <<>> \in Seq(Event)
  OBVIOUS
<1>9. /\ inbox' \in [Tabs -> [Sockets -> Seq(Event)]] /\ inbox'[t][i] = <<>>
      /\ \A k \in Sockets \ {i} : inbox'[t][k] = inbox[t][k]
      /\ \A u \in Tabs \ {t} : inbox'[u] = inbox[u]
  BY <1>1, <1>2, <1>8
<1>10. /\ missed' \in [Tabs -> SUBSET Orders] /\ missed'[t] = missed[t] \cup lost
       /\ \A u \in Tabs \ {t} : missed'[u] = missed[u]
  BY <1>1, <1>2
<1>11. drops' \in 0 .. MaxDrops
  BY <1>1, <1>2, FeedAssumption
<1>12. TabTypeOK'
  BY <1>1, <1>2, <1>7, <1>9, <1>10, <1>11 DEF TabTypeOK
<1>13. \A o \in Orders : StillSaid(o)
  BY NothingChanges DEF FeedInv
<1>14. ASSUME NEW u \in Tabs PROVE Line(u)'
  <2>1. Line(u)
    BY DEF FeedInv
  <2>2. CASE u # t
    BY <1>1, <1>7, <1>9, <2>1, <2>2, WireSame
  <2>3. CASE u = t
    <3>1. ASSUME NEW k \in Sockets PROVE Wire(t, k)'
      <4>1. Wire(t, k) /\ socket[t][k] \in SocketType
        BY <1>2, <2>1, <2>3 DEF Line
      <4>2. CASE k = i
        BY <1>1, <1>7, <1>9, <4>1, <4>2, WireCut
      <4>3. CASE k # i
        BY <1>1, <1>7, <1>9, <4>1, <4>3 DEF Wire
      <4> QED
        BY <4>2, <4>3
    <3> QED
      BY <1>1, <2>1, <2>3, <3>1 DEF Line
  <2> QED
    BY <2>2, <2>3
<1>15. ASSUME NEW u \in Tabs, NEW o \in Orders PROVE Fresh(u, o)'
  <2>1. CASE u # t
    BY <1>1, <1>9, <1>10, <1>13, <2>1, FreshSame DEF FeedInv
  <2>2. CASE u = t
    <3>1. \A k \in Sockets :
            \/ inbox'[t][k] = inbox[t][k]
            \/ inbox'[t][k] = <<>> /\ (o \notin missed'[t] => About(inbox[t][k], o) = {})
      BY <1>4, <1>9, <1>10
    <3>2. Line(t) /\ Fresh(t, o) /\ StillSaid(o)
      BY <1>13 DEF FeedInv
    <3>3. shown'[t] = shown[t] /\ missed[t] \subseteq missed'[t]
      BY <1>1, <1>10
    <3> QED
      BY <1>2, <2>2, <3>1, <3>2, <3>3, FreshLost
  <2> QED
    BY <2>1, <2>2
<1>16. ASSUME NEW u \in Tabs, NEW f \in Fetches, NEW o \in Orders PROVE AnswerFresh(u, f, o)'
  <2>1. CASE u # t
    BY <1>5, <1>9, <1>13, <2>1, AnswerSame DEF FeedInv
  <2>2. CASE u = t
    <3>1. AnswerFresh(t, f, o)
      BY DEF FeedInv
    <3>2. About(<<>>, o) = {}
      BY DEF About
    <3>3. \A k \in Sockets : About(inbox[t][k], o) = {} => About(inbox'[t][k], o) = {}
      BY <1>9, <3>2
    <3> QED
      BY <1>5, <1>13, <2>2, <3>1, <3>3, AnswerNoted
  <2> QED
    BY <2>1, <2>2
<1> QED
  BY <1>6, <1>12, <1>14, <1>15, <1>16 DEF TabsKept

LEMMA ServerCrashStep ==
  ASSUME FeedInv, ServerCrash
  PROVE  TabsKept /\ \A o \in Orders : OpeningOK(o)'
<1>1. /\ Crash
      /\ socket' = [t \in Tabs |-> [i \in Sockets |-> Dropped(socket[t][i])]]
      /\ inbox' = [t \in Tabs |-> [i \in Sockets |-> <<>>]]
      /\ missed' = [t \in Tabs |-> missed[t] \cup LosingOrders(t, Sockets)]
      /\ fetch' = [t \in Tabs |-> Noting(t, LosingOrders(t, Sockets))]
      /\ UNCHANGED <<page, user, current, shown, fetched, drops>>
  BY DEF ServerCrash
<1>2. /\ TabTypeOK /\ FetchTypeOK
      /\ \A t \in Tabs : LosingOrders(t, Sockets) \in SUBSET Orders
      /\ socket \in [Tabs -> [Sockets -> SocketType]]
      /\ missed \in [Tabs -> SUBSET Orders]
  BY DEF FeedInv, TabTypeOK, LosingOrders
<1>3. \A o \in Orders : StillSaid(o)
  BY <1>1, CrashStillSaid DEF FeedInv
<1>4. \A t \in Tabs : fetch'[t] \in [Fetches -> Answer] /\ Noted(t, LosingOrders(t, Sockets))
  BY <1>1, <1>2, NotingTyped
<1>5. FetchTypeOK'
  <2>1. fetch' \in [Tabs -> [Fetches -> Answer]]
    BY <1>1, <1>4
  <2> QED
    BY <1>2, <1>4, <2>1 DEF FetchTypeOK, Noted
<1>6. \A t \in Tabs, i \in Sockets :
        socket'[t][i] = Dropped(socket[t][i]) /\ inbox'[t][i] = <<>>
  BY <1>1
<1>7. TabTypeOK'
  <2>1. socket' \in [Tabs -> [Sockets -> SocketType]]
    BY <1>1, <1>2, DroppedTyped
  <2>2. inbox' \in [Tabs -> [Sockets -> Seq(Event)]]
    <3>1. <<>> \in Seq(Event)
      OBVIOUS
    <3> QED
      BY <1>1, <3>1
  <2>3. missed' \in [Tabs -> SUBSET Orders]
    BY <1>1, <1>2
  <2> QED
    BY <1>1, <1>2, <2>1, <2>2, <2>3 DEF TabTypeOK
<1>8. ASSUME NEW t \in Tabs PROVE Line(t)'
  <2>1. Line(t)
    BY DEF FeedInv
  <2>2. ASSUME NEW i \in Sockets PROVE Wire(t, i)'
    <3>1. Wire(t, i) /\ socket[t][i] \in SocketType
      BY <1>2, <2>1 DEF Line
    <3> QED
      BY <1>1, <1>6, <3>1, WireCut
  <2> QED
    BY <1>1, <2>1, <2>2 DEF Line
<1>9. ASSUME NEW t \in Tabs, NEW o \in Orders PROVE Fresh(t, o)'
  <2>1. Line(t) /\ Fresh(t, o) /\ StillSaid(o)
    BY <1>3 DEF FeedInv
  <2>2. missed'[t] = missed[t] \cup LosingOrders(t, Sockets) /\ shown'[t] = shown[t]
    BY <1>1
  <2>3. o \notin missed'[t] => \A i \in Sockets : About(inbox[t][i], o) = {}
    BY <1>2, <2>2, Lost
  <2> QED
    BY <1>2, <1>6, <2>1, <2>2, <2>3, FreshLost
<1>10. ASSUME NEW t \in Tabs, NEW f \in Fetches, NEW o \in Orders PROVE AnswerFresh(t, f, o)'
  <2>1. AnswerFresh(t, f, o)
    BY DEF FeedInv
  <2>2. \A i \in Sockets : About(inbox'[t][i], o) = {}
    BY <1>6 DEF About
  <2> QED
    BY <1>3, <1>4, <2>1, <2>2, AnswerNoted
<1> QED
  BY <1>3, <1>5, <1>7, <1>8, <1>9, <1>10 DEF TabsKept, StillSaid

LEMMA FetchStep ==
  ASSUME FeedInv, UNCHANGED orderVars, NEW t \in Tabs, NEW f \in Fetches, FetchOrders(t, f)
  PROVE  TabsKept
<1>1. /\ fetched[t] < MaxFetches
      /\ fetch' = [fetch EXCEPT ![t][f].at = "asked"]
      /\ fetched' = [fetched EXCEPT ![t] = @ + 1]
      /\ UNCHANGED <<page, user, current, socket, inbox, shown, drops, missed>>
  BY DEF FetchOrders
<1>2. /\ TabTypeOK /\ FetchTypeOK
      /\ fetched \in [Tabs -> 0 .. MaxFetches] /\ fetch \in [Tabs -> [Fetches -> Answer]]
  BY DEF FeedInv, TabTypeOK, FetchTypeOK
<1>3. fetched' \in [Tabs -> 0 .. MaxFetches]
  <2>1. fetched[t] + 1 \in 0 .. MaxFetches
    BY <1>1, <1>2, FeedAssumption
  <2> QED
    BY <1>1, <1>2, <2>1
<1>4. TabTypeOK'
  BY <1>1, <1>2, <1>3 DEF TabTypeOK
<1>5. [fetch[t][f] EXCEPT !.at = "asked"] \in Answer
  <2>1. fetch[t][f] \in Answer
    BY <1>2
  <2> QED
    BY <2>1 DEF Answer
<1>6. /\ fetch' \in [Tabs -> [Fetches -> Answer]] /\ fetch'[t][f].at = "asked"
      /\ \A u \in Tabs, g \in Fetches : (u # t \/ g # f) => fetch'[u][g] = fetch[u][g]
  <2>1. fetch[t][f] \in Answer
    BY <1>2
  <2>2. [fetch[t][f] EXCEPT !.at = "asked"].at = "asked"
    BY <2>1 DEF Answer
  <2> QED
    BY <1>1, <1>2, <1>5, <2>2
<1>7. FetchTypeOK'
  BY <1>2, <1>6 DEF FetchTypeOK
<1>8. \A o \in Orders : StillSaid(o)
  BY NothingChanges DEF FeedInv
<1>9. \A u \in Tabs : Line(u)'
  BY <1>1, WireSame DEF FeedInv
<1>10. \A u \in Tabs, o \in Orders : Fresh(u, o)'
  BY <1>1, <1>8, FreshSame DEF FeedInv
<1>11. ASSUME NEW u \in Tabs, NEW g \in Fetches, NEW o \in Orders PROVE AnswerFresh(u, g, o)'
  <2>1. CASE u = t /\ g = f
    BY <1>6, <2>1 DEF AnswerFresh
  <2>2. CASE u # t \/ g # f
    BY <1>1, <1>6, <1>8, <2>2, AnswerSame DEF FeedInv
  <2> QED
    BY <2>1, <2>2
<1> QED
  BY <1>4, <1>7, <1>9, <1>10, <1>11 DEF TabsKept

(* The server answers with what is stored, which is what lists should say  *)
(* of an order that is not in change.                                      *)
LEMMA FoundIsSaid ==
  ASSUME FeedInv, NEW t \in Tabs, NEW o \in Orders,
         o \notin InChange(t) \cup overlapped \cup broken
  PROVE  /\ (IF status[o] = None THEN <<>> ELSE <<status[o]>>) \in Views(o)
         /\ \A i \in Sockets : About(inbox[t][i], o) = {}
<1>1. /\ status[o] \in Status \cup {None} /\ OpeningOK(o)
      /\ opening[o] \in {"none", "stored", "announced", "silent"}
  BY DEF FeedInv, ChangeInv, OrderTypeOK
<1>2. /\ opening[o] # "stored" /\ \A c \in Changes : ~Pending(c, o)
      /\ o \notin LosingOrders(t, Sockets)
  BY DEF InChange, Pending
<1>3. \A i \in Sockets : About(inbox[t][i], o) = {}
  BY <1>2, Lost DEF FeedInv
<1>4. CASE opening[o] = "none"
  <2>1. status[o] = None /\ Views(o) = {<<>>}
    BY <1>1, <1>4 DEF OpeningOK, Views
  <2> QED
    BY <1>3, <2>1
<1>5. CASE opening[o] = "announced"
  <2>1. status[o] # None /\ status[o] \in Status
    BY <1>1, <1>5 DEF OpeningOK
  <2>2. status[o] \in Announced(o)
    BY <1>2, <2>1 DEF Announced
  <2> QED
    BY <1>3, <1>5, <2>1, <2>2 DEF Views
<1> QED
  BY <1>1, <1>2, <1>3, <1>4, <1>5 DEF OpeningOK

LEMMA FindOrdersStep ==
  ASSUME FeedInv, UNCHANGED orderVars, NEW t \in Tabs, NEW f \in Fetches, FindOrders(t, f)
  PROVE  TabsKept
<1> DEFINE found == [o \in Orders |-> IF status[o] = None THEN <<>> ELSE <<status[o]>>]
           x == [at |-> "answered", overlap |-> InChange(t), orders |-> found]
<1>1. /\ fetch' = [fetch EXCEPT ![t][f] = x]
      /\ UNCHANGED <<page, user, current, socket, inbox, shown, fetched, drops, missed>>
  BY DEF FindOrders
<1>2. /\ TabTypeOK /\ FetchTypeOK /\ fetch \in [Tabs -> [Fetches -> Answer]]
      /\ status \in [Orders -> Status \cup {None}]
  BY DEF FeedInv, FetchTypeOK, ChangeInv, OrderTypeOK
<1>3. found \in [Orders -> Seq(Status)] /\ InChange(t) \subseteq Orders
  BY <1>2 DEF InChange, LosingOrders
<1>4. /\ x \in Answer /\ x.at = "answered" /\ x.orders = found /\ x.overlap = InChange(t)
      /\ \A o \in Orders : found[o] = IF status[o] = None THEN <<>> ELSE <<status[o]>>
  BY <1>3 DEF Answer
<1> HIDE DEF x, found
<1>5. /\ fetch' \in [Tabs -> [Fetches -> Answer]] /\ fetch'[t][f] = x
      /\ \A u \in Tabs, g \in Fetches : (u # t \/ g # f) => fetch'[u][g] = fetch[u][g]
  BY <1>1, <1>2, <1>4
<1>6. TabTypeOK'
  BY <1>1, <1>2 DEF TabTypeOK
<1>7. FetchTypeOK'
  BY <1>2, <1>3, <1>4, <1>5 DEF FetchTypeOK
<1>8. \A o \in Orders : StillSaid(o) /\ Views(o)' = Views(o)
  BY NothingChanges DEF FeedInv
<1>9. \A u \in Tabs : Line(u)'
  BY <1>1, WireSame DEF FeedInv
<1>10. \A u \in Tabs, o \in Orders : Fresh(u, o)'
  BY <1>1, <1>8, FreshSame DEF FeedInv
<1>11. ASSUME NEW u \in Tabs, NEW g \in Fetches, NEW o \in Orders PROVE AnswerFresh(u, g, o)'
  <2>1. CASE u = t /\ g = f
    <3> SUFFICES ASSUME o \notin InChange(t) \cup overlapped' \cup broken'
                 PROVE  /\ found[o] \in Views(o)'
                        /\ \A i \in Sockets : About(inbox'[t][i], o) = {}
      BY <1>4, <1>5, <2>1 DEF AnswerFresh
    <3>1. o \notin InChange(t) \cup overlapped \cup broken
      BY <1>8 DEF StillSaid
    <3> QED
      BY <1>1, <1>4, <1>8, <3>1, FoundIsSaid
  <2>2. CASE u # t \/ g # f
    BY <1>1, <1>5, <1>8, <2>2, AnswerSame DEF FeedInv
  <2> QED
    BY <2>1, <2>2
<1> QED
  BY <1>6, <1>7, <1>9, <1>10, <1>11 DEF TabsKept

LEMMA FetchedStep ==
  ASSUME FeedInv, UNCHANGED orderVars, NEW t \in Tabs, NEW f \in Fetches, OrdersFetched(t, f)
  PROVE  TabsKept
<1>1. /\ fetch[t][f].at = "answered"
      /\ shown' = [shown EXCEPT ![t] = fetch[t][f].orders]
      /\ missed' = [missed EXCEPT ![t] = fetch[t][f].overlap]
      /\ fetch' = [fetch EXCEPT ![t][f] = NoFetch]
      /\ UNCHANGED <<page, user, current, socket, inbox, fetched, drops>>
  BY DEF OrdersFetched
<1>2. /\ TabTypeOK /\ FetchTypeOK /\ fetch \in [Tabs -> [Fetches -> Answer]]
      /\ shown \in [Tabs -> [Orders -> Seq(Status)]] /\ missed \in [Tabs -> SUBSET Orders]
      /\ fetch[t][f].orders \in [Orders -> Seq(Status)] /\ fetch[t][f].overlap \subseteq Orders
  BY <1>1 DEF FeedInv, FetchTypeOK, TabTypeOK, Answer
<1>3. TabTypeOK'
  BY <1>1, <1>2 DEF TabTypeOK
<1>4. NoFetch \in Answer /\ NoFetch.at = "idle"
  BY DEF NoFetch, Answer
<1>5. /\ fetch' \in [Tabs -> [Fetches -> Answer]] /\ fetch'[t][f] = NoFetch
      /\ \A u \in Tabs, g \in Fetches : (u # t \/ g # f) => fetch'[u][g] = fetch[u][g]
  BY <1>1, <1>2, <1>4
<1>6. FetchTypeOK'
  BY <1>2, <1>4, <1>5 DEF FetchTypeOK
<1>7. \A o \in Orders : StillSaid(o) /\ Views(o)' = Views(o)
  BY NothingChanges DEF FeedInv
<1>8. \A u \in Tabs : Line(u)'
  BY <1>1, WireSame DEF FeedInv
<1>9. ASSUME NEW u \in Tabs, NEW o \in Orders PROVE Fresh(u, o)'
  <2>1. CASE u = t
    <3> SUFFICES ASSUME o \notin missed'[t] \cup overlapped' \cup broken', NEW i \in Sockets
                 PROVE  Leads(inbox'[t][i], shown'[t][o], o, Views(o)')
      BY <2>1 DEF Fresh
    <3>1. missed'[t] = fetch[t][f].overlap /\ shown'[t] = fetch[t][f].orders
      BY <1>1, <1>2
    <3>2. o \notin fetch[t][f].overlap \cup overlapped \cup broken
      BY <1>7, <3>1 DEF StillSaid
    <3>3. AnswerFresh(t, f, o)
      BY DEF FeedInv
    <3>4. fetch[t][f].orders[o] \in Views(o) /\ About(inbox[t][i], o) = {}
      BY <1>1, <3>2, <3>3 DEF AnswerFresh
    <3> QED
      BY <1>1, <1>7, <3>1, <3>4 DEF Leads
  <2>2. CASE u # t
    BY <1>1, <1>7, <2>2, FreshSame DEF FeedInv
  <2> QED
    BY <2>1, <2>2
<1>10. ASSUME NEW u \in Tabs, NEW g \in Fetches, NEW o \in Orders PROVE AnswerFresh(u, g, o)'
  <2>1. CASE u = t /\ g = f
    BY <1>4, <1>5, <2>1 DEF AnswerFresh
  <2>2. CASE u # t \/ g # f
    BY <1>1, <1>5, <1>7, <2>2, AnswerSame DEF FeedInv
  <2> QED
    BY <2>1, <2>2
<1> QED
  BY <1>3, <1>6, <1>8, <1>9, <1>10 DEF TabsKept

LEMMA FeedStep ==
  ASSUME FeedInv, [Next]_vars
  PROVE  FeedInv'
<1>1. ChangeInv'
  BY StepOfOrders, OrderStep DEF FeedInv
<1>2. CASE ServerStep
  <2>1. ChangeInv /\ \A q \in Orders : OpeningOK(q)
    BY DEF FeedInv
  <2>2. UNCHANGED tabVars
    BY <1>2 DEF ServerStep
  <2>3. \A o \in Orders : StillSaid(o)
    <3>1. ASSUME NEW p \in Orders, CreateOrder(p) \/ FailCreation(p)
          PROVE  \A o \in Orders : StillSaid(o)
      BY <2>1, <3>1, CreationStillSaid
    <3>2. ASSUME NEW c \in Changes, NEW p \in Orders, NEW to \in Status, FindOrder(c, p, to)
          PROVE  \A o \in Orders : StillSaid(o)
      BY <2>1, <3>2, FindStillSaid
    <3>3. ASSUME NEW c \in Changes, SaveStatus(c) \/ RecordStatus(c) \/ FailChange(c)
          PROVE  \A o \in Orders : StillSaid(o)
      BY <2>1, <3>3, SaveStillSaid, RecordStillSaid, FailStillSaid
    <3> QED
      BY <1>2, <3>1, <3>2, <3>3 DEF ServerStep
  <2>4. TabsKept
    BY <2>2, <2>3, SilentStep
  <2> QED
    BY <1>1, <2>3, <2>4 DEF TabsKept, FeedInv, StillSaid
<1>3. ASSUME TabsKept /\ \A o \in Orders : OpeningOK(o)'
      PROVE  FeedInv'
  BY <1>1, <1>3 DEF TabsKept, FeedInv
<1>4. ASSUME NEW o \in Orders, EmitOrderNew(o) PROVE FeedInv'
  BY <1>3, <1>4, EmitNewStep
<1>5. ASSUME NEW c \in Changes, EmitOrderUpdated(c) PROVE FeedInv'
  BY <1>3, <1>5, EmitUpdatedStep
<1>6. CASE ServerCrash
  BY <1>3, <1>6, ServerCrashStep
<1>7. ASSUME UNCHANGED orderVars, TabsKept PROVE FeedInv'
  <2>1. \A o \in Orders : OpeningOK(o)'
    BY <1>7, NothingChanges DEF FeedInv, StillSaid
  <2> QED
    BY <1>3, <1>7, <2>1
<1>8. ASSUME NEW t \in Tabs, LoadPage(t) \/ LogIn(t) \/ ProfileLoaded(t) \/ MountLayout(t)
      PROVE  FeedInv'
  <2>1. UNCHANGED orderVars
    BY <1>8 DEF LoadPage, LogIn, ProfileLoaded, MountLayout
  <2> QED
    BY <1>7, <1>8, <2>1, ConnectionStep
<1>9. ASSUME NEW t \in Tabs, NEW i \in Sockets,
             SocketConnects(t, i) \/ JoinTenant(t, i) \/ SocketDrops(t, i) \/ HandleEvent(t, i)
      PROVE  FeedInv'
  <2>1. UNCHANGED orderVars
    BY <1>9 DEF SocketConnects, JoinTenant, SocketDrops, HandleEvent
  <2> QED
    BY <1>7, <1>9, <2>1, ConnectionStep, DropStep, HandleStep
<1>10. ASSUME NEW t \in Tabs, NEW f \in Fetches,
              FetchOrders(t, f) \/ FindOrders(t, f) \/ OrdersFetched(t, f)
       PROVE  FeedInv'
  <2>1. UNCHANGED orderVars
    BY <1>10 DEF FetchOrders, FindOrders, OrdersFetched
  <2> QED
    BY <1>7, <1>10, <2>1, FetchStep, FindOrdersStep, FetchedStep
<1>11. CASE UNCHANGED vars
  <2>1. UNCHANGED orderVars /\ UNCHANGED tabVars
    BY <1>11 DEF vars, orderVars, tabVars
  <2>2. \A o \in Orders : StillSaid(o)
    BY <2>1, NothingChanges DEF FeedInv
  <2> QED
    BY <1>7, <2>1, <2>2, SilentStep
<1> QED
  BY <1>2, <1>4, <1>5, <1>6, <1>8, <1>9, <1>10, <1>11 DEF Next

LEMMA FeedInitial == Init => FeedInv
<1> SUFFICES ASSUME Init PROVE FeedInv
  OBVIOUS
<1>1. ChangeInv
  BY OrderInitial
<1>2. /\ page = [t \in Tabs |-> "closed"] /\ user = [t \in Tabs |-> FALSE]
      /\ current = [t \in Tabs |-> 0]
      /\ socket = [t \in Tabs |-> [i \in Sockets |-> NoSocket]]
      /\ inbox = [t \in Tabs |-> [i \in Sockets |-> <<>>]]
      /\ shown = [t \in Tabs |-> [o \in Orders |-> <<>>]]
      /\ fetch = [t \in Tabs |-> [f \in Fetches |-> NoFetch]]
      /\ fetched = [t \in Tabs |-> 0] /\ drops = 0 /\ missed = [t \in Tabs |-> Orders]
  BY DEF Init
<1>3. NoSocket \in SocketType /\ NoFetch \in Answer /\ NoFetch.at = "idle"
  BY DEF NoSocket, SocketType, NoFetch, Answer
<1>4. TabTypeOK
  <2>1. <<>> \in Seq(Event) /\ <<>> \in Seq(Status)
    OBVIOUS
  <2>2. 0 \in 0 .. MaxFetches /\ 0 \in 0 .. MaxDrops
    BY FeedAssumption
  <2> QED
    BY <1>2, <1>3, <2>1, <2>2 DEF TabTypeOK
<1>5. FetchTypeOK
  BY <1>2, <1>3 DEF FetchTypeOK
<1>6. \A t \in Tabs : Line(t)
  BY <1>2 DEF Line, Wire, NoSocket, Sockets
<1>7. \A t \in Tabs, o \in Orders : Fresh(t, o)
  BY <1>2 DEF Fresh
<1>8. \A t \in Tabs, f \in Fetches, o \in Orders : AnswerFresh(t, f, o)
  BY <1>2, <1>3 DEF AnswerFresh
<1>9. ASSUME NEW o \in Orders PROVE OpeningOK(o)
  <2>1. /\ status[o] = IF o \in Existing THEN NewStatus ELSE None
        /\ opening[o] = IF o \in Existing THEN "announced" ELSE "none"
        /\ \A c \in Changes : change[c].at = "idle"
    BY DEF Init, OrderInit, NoChange
  <2>2. NewStatus # None
    BY OrderAssumption DEF Status
  <2> QED
    BY <2>1, <2>2 DEF OpeningOK, Underway, Pending
<1> QED
  BY <1>1, <1>4, <1>5, <1>6, <1>7, <1>8, <1>9 DEF FeedInv

(* Whatever orders are made and changed while tabs load, connect, fetch,   *)
(* and lose their connections or the server: the parts hold together.      *)
THEOREM FeedInvariance == Spec => []FeedInv
BY FeedInitial, FeedStep, PTL DEF Spec

(* Every variable keeps its type; a tab makes two sockets at most.         *)
THEOREM TypeCorrect == Spec => []TypeOK
<1>1. FeedInv => TypeOK
  <2> SUFFICES ASSUME FeedInv PROVE TypeOK
    OBVIOUS
  <2>1. OrderTypeOK /\ TabTypeOK /\ FetchTypeOK
    BY DEF FeedInv, ChangeInv
  <2>2. \A t \in Tabs, f \in Fetches : fetch[t][f].at \in {"idle", "asked", "answered"}
    BY <2>1 DEF FetchTypeOK, Answer
  <2> QED
    BY <2>1, <2>2 DEF TypeOK, TabTypeOK, SocketType, Sockets
<1> QED
  BY <1>1, FeedInvariance, PTL

(* However events and answers overtake each other, a tab that nothing is   *)
(* on its way to shows each order once and as it is stored, unless one of  *)
(* the named things has come between (stores/orders.ts:14-43,              *)
(* composables/useSocket.ts:11-36, realtime/emitters.ts).                  *)
THEOREM TabsShowWhatIsStored == Spec => []ShownIsStored
<1>1. FeedInv => ShownIsStored
  <2> SUFFICES ASSUME FeedInv, NEW t \in Tabs, Quiet(t),
                      NEW o \in Orders \ (missed[t] \cup overlapped \cup broken)
               PROVE  shown[t][o] = IF status[o] = None THEN <<>> ELSE <<status[o]>>
    BY DEF ShownIsStored
  <2>1. /\ TabTypeOK /\ Line(t) /\ Fresh(t, o) /\ OpeningOK(o)
        /\ opening[o] \in {"none", "stored", "announced", "silent"}
    BY DEF FeedInv, ChangeInv, OrderTypeOK
  <2>2. /\ \A i \in Sockets : About(inbox[t][i], o) = {}
        /\ opening[o] # "stored" /\ \A c \in Changes : ~Pending(c, o)
    BY DEF Quiet, About, Busy, Pending, Resting
  <2>3. shown[t][o] \in Views(o)
    BY <2>1, <2>2, AllSaid
  <2>4. CASE opening[o] = "none"
    BY <2>1, <2>3, <2>4 DEF OpeningOK, Views
  <2>5. CASE opening[o] = "announced"
    BY <2>1, <2>2, <2>3, <2>5 DEF OpeningOK, Views, Announced
  <2> QED
    BY <2>1, <2>2, <2>4, <2>5 DEF OpeningOK
<1> QED
  BY <1>1, FeedInvariance, PTL
=============================================================================
