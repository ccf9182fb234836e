---------------------------- MODULE DashboardFeed ----------------------------
(***************************************************************************)
(* The dashboards that show the orders.  A tab fetches the list, and is    *)
(* pushed new orders and changes over a socket, which it asks to be put in *)
(* its tenant's room each time it connects; a fetch replaces what it       *)
(* shows, an event corrects it.  Fetches and events travel apart, several  *)
(* fetches may be under way, and what is announced while a tab is in no    *)
(* room never reaches it.                                                  *)
(*                                                                         *)
(* One tenant; all its orders fit on one page, unfiltered.                 *)
(***************************************************************************)
EXTENDS OrderStatus

CONSTANTS
  Tabs,
  Fetches,        \* fetches of a tab that may be under way at once
  MaxFetches,     \* how many a tab makes
  MaxDrops        \* how many connections are lost

ASSUME FeedAssumption == {MaxFetches, MaxDrops} \subseteq Nat

VARIABLES
  page,       \* how far the tab is in loading the dashboard
  user,       \* whether its auth store has the user's profile
  current,    \* which socket the variable socket of useSocket holds, 0 for none
  socket,     \* the sockets it has made: link, room, and a join under way
  inbox,      \* the events on their way over each of them
  shown,      \* per order, the statuses of its entries in the list, first one first
  fetch,      \* its requests for the list
  fetched, drops,
  missed      \* auxiliary: orders whose last change may have passed the tab by

tabVars == <<page, user, current, socket, inbox, shown, fetch, fetched, drops, missed>>

vars == <<status, history, opening, change, faults, overlapped, broken,
          page, user, current, socket, inbox, shown, fetch, fetched, drops, missed>>

(* App.vue makes one socket and AppLayout.vue may make a second.           *)
Sockets == {1, 2}

NoSocket == [link |-> "none", joined |-> FALSE, join |-> "no"]

NoFetch == [at |-> "idle", orders |-> None, overlap |-> {}]

Init ==
  /\ OrderInit
  /\ page = [t \in Tabs |-> "closed"]
  /\ user = [t \in Tabs |-> FALSE]
  /\ current = [t \in Tabs |-> 0]
  /\ socket = [t \in Tabs |-> [i \in Sockets |-> NoSocket]]
  /\ inbox = [t \in Tabs |-> [i \in Sockets |-> <<>>]]
  /\ shown = [t \in Tabs |-> [o \in Orders |-> <<>>]]
  /\ fetch = [t \in Tabs |-> [f \in Fetches |-> NoFetch]]
  /\ fetched = [t \in Tabs |-> 0]
  /\ drops = 0
  /\ missed = [t \in Tabs |-> Orders]

----------------------------------------------------------------------------
(* Events.                                                                 *)

Joined(t) == {i \in Sockets : socket[t][i].joined}

(* The fetches of a tab, with some orders noted in those whose answer has  *)
(* left the server: it may overtake, or be overtaken by, the event.        *)
Noting(t, os) ==
  [f \in Fetches |-> IF fetch[t][f].at = "answered"
                     THEN [fetch[t][f] EXCEPT !.overlap = @ \cup os] ELSE fetch[t][f]]

(* io.to(room).emit: to the sockets in the room as it is now.              *)
Emit(e) ==
  /\ inbox' = [t \in Tabs |-> [i \in Sockets |->
                 IF socket[t][i].joined THEN Append(inbox[t][i], e) ELSE inbox[t][i]]]
  /\ missed' = [t \in Tabs |-> IF Joined(t) = {} THEN missed[t] \cup {e.order} ELSE missed[t]]
  /\ fetch' = [t \in Tabs |-> Noting(t, {e.order})]
  /\ UNCHANGED <<page, user, current, socket, shown, fetched, drops>>

EmitOrderNew(o) ==
  /\ AnnounceOrder(o)
  /\ Emit([kind |-> "new", order |-> o, status |-> NewStatus])

EmitOrderUpdated(c) ==
  /\ AnnounceChange(c)
  /\ Emit([kind |-> "updated", order |-> change[c].order, status |-> change[c].to])

(* onOrderNew prepends, whatever is there; onOrderUpdated corrects the     *)
(* first entry of the order, if there is one.                              *)
Corrected(entries, e) ==
  CASE e.kind = "new" -> <<e.status>> \o entries
    [] e.kind = "updated" /\ entries = <<>> -> entries
    [] OTHER -> [entries EXCEPT ![1] = e.status]

HandleEvent(t, i) ==
  /\ inbox[t][i] # <<>>
  /\ LET e == Head(inbox[t][i]) IN
       /\ shown' = [shown EXCEPT ![t][e.order] = Corrected(@, e)]
       /\ fetch' = [fetch EXCEPT ![t] = Noting(t, {e.order})]
  /\ inbox' = [inbox EXCEPT ![t][i] = Tail(@)]
  /\ UNCHANGED <<orderVars, page, user, current, socket, fetched, drops, missed>>

----------------------------------------------------------------------------
(* Connections.                                                            *)

(* connect() makes a socket unless the one there is is connected: a socket *)
(* still connecting is replaced, not closed.                               *)
Connect(t) ==
  IF current[t] # 0 /\ socket[t][current[t]].link = "up"
  THEN UNCHANGED <<current, socket>>
  ELSE LET i == current[t] + 1 IN
       /\ current' = [current EXCEPT ![t] = i]
       /\ socket' = [socket EXCEPT ![t][i].link = "connecting"]

(* The page is loaded with a token in local storage: App.vue connects, and *)
(* the router's guard asks for the profile.                                *)
LoadPage(t) ==
  /\ page[t] = "closed"
  /\ page' = [page EXCEPT ![t] = "guarded"]
  /\ Connect(t)
  /\ UNCHANGED <<orderVars, user, inbox, shown, fetch, fetched, drops, missed>>

(* Or the user signs in: the profile is there before LoginView.vue connects. *)
LogIn(t) ==
  /\ page[t] = "closed"
  /\ page' = [page EXCEPT ![t] = "entering"]
  /\ user' = [user EXCEPT ![t] = TRUE]
  /\ Connect(t)
  /\ UNCHANGED <<orderVars, inbox, shown, fetch, fetched, drops, missed>>

ProfileLoaded(t) ==
  /\ page[t] = "guarded"
  /\ page' = [page EXCEPT ![t] = "entering"]
  /\ user' = [user EXCEPT ![t] = TRUE]
  /\ UNCHANGED <<orderVars, current, socket, inbox, shown, fetch, fetched, drops, missed>>

(* AppLayout.vue is mounted, and connects again.                           *)
MountLayout(t) ==
  /\ page[t] = "entering"
  /\ page' = [page EXCEPT ![t] = "open"]
  /\ Connect(t)
  /\ UNCHANGED <<orderVars, user, inbox, shown, fetch, fetched, drops, missed>>

(* A socket's connect handler emits join:tenant on the socket that the     *)
(* variable holds by then, which keeps it until it is itself connected.    *)
Asking(s) == [s EXCEPT !.join = IF s.link = "up" THEN "sent" ELSE "kept"]

Opened(s) == [s EXCEPT !.link = "up", !.join = IF @ = "kept" THEN "sent" ELSE @]

(* Mutant: each socket joins by itself.                                    *)
SocketConnects_Itself(t, i) ==
  /\ socket[t][i].link = "connecting"
  /\ LET up == [socket[t] EXCEPT ![i] = Opened(@)] IN
       socket' = [socket EXCEPT ![t] =
                    IF user[t] THEN [up EXCEPT ![i] = Asking(@)] ELSE up]
  /\ UNCHANGED <<orderVars, page, user, current, inbox, shown, fetch, fetched, drops, missed>>

SocketConnects(t, i) ==
  /\ socket[t][i].link = "connecting"
  /\ LET up == [socket[t] EXCEPT ![i] = Opened(@)] IN
       socket' = [socket EXCEPT ![t] =
                    IF user[t] THEN [up EXCEPT ![current[t]] = Asking(@)] ELSE up]
  /\ UNCHANGED <<orderVars, page, user, current, inbox, shown, fetch, fetched, drops, missed>>

JoinTenant(t, i) ==
  /\ socket[t][i].join = "sent"
  /\ socket' = [socket EXCEPT ![t][i].joined = TRUE, ![t][i].join = "no"]
  /\ UNCHANGED <<orderVars, page, user, current, inbox, shown, fetch, fetched, drops, missed>>

(* A lost connection leaves the room and takes along what was under way;   *)
(* the client connects again by itself.                                    *)
Dropped(s) ==
  [s EXCEPT !.link = IF @ = "up" THEN "connecting" ELSE @,
            !.joined = FALSE, !.join = IF @ = "sent" THEN "no" ELSE @]

LosingOrders(t, is) ==
  {o \in Orders : \E i \in is : \E k \in DOMAIN inbox[t][i] : inbox[t][i][k].order = o}

SocketDrops(t, i) ==
  /\ drops < MaxDrops
  /\ socket[t][i].link = "up"
  /\ drops' = drops + 1
  /\ socket' = [socket EXCEPT ![t][i] = Dropped(@)]
  /\ inbox' = [inbox EXCEPT ![t][i] = <<>>]
  /\ missed' = [missed EXCEPT ![t] = @ \cup LosingOrders(t, {i})]
  /\ fetch' = [fetch EXCEPT ![t] = Noting(t, LosingOrders(t, {i}))]
  /\ UNCHANGED <<orderVars, page, user, current, shown, fetched>>

ServerCrash ==
  /\ Crash
  /\ socket' = [t \in Tabs |-> [i \in Sockets |-> Dropped(socket[t][i])]]
  /\ inbox' = [t \in Tabs |-> [i \in Sockets |-> <<>>]]
  /\ missed' = [t \in Tabs |-> missed[t] \cup LosingOrders(t, Sockets)]
  /\ fetch' = [t \in Tabs |-> Noting(t, LosingOrders(t, Sockets))]
  /\ UNCHANGED <<page, user, current, shown, fetched, drops>>

----------------------------------------------------------------------------
(* Fetches.                                                                *)

(* OrdersView.vue fetches when mounted, on a page and on new filters -     *)
(* applyFilters twice at once.                                             *)
FetchOrders(t, f) ==
  /\ page[t] = "open"
  /\ fetched[t] < MaxFetches
  /\ fetch[t][f].at = "idle"
  /\ fetch' = [fetch EXCEPT ![t][f].at = "asked"]
  /\ fetched' = [fetched EXCEPT ![t] = @ + 1]
  /\ UNCHANGED <<orderVars, page, user, current, socket, inbox, shown, drops, missed>>

(* Orders with a change that is saved, or an order that is stored, and is  *)
(* not announced, or whose event has not arrived.                          *)
InChange(t) ==
  {o \in Orders :
     \/ opening[o] = "stored"
     \/ \E c \in Changes : change[c].order = o /\ change[c].at \in {"record", "announce"}}
  \cup LosingOrders(t, Sockets)

FindOrders(t, f) ==
  /\ fetch[t][f].at = "asked"
  /\ fetch' = [fetch EXCEPT ![t][f] =
       [at |-> "answered", overlap |-> InChange(t),
        orders |-> [o \in Orders |-> IF status[o] = None THEN <<>> ELSE <<status[o]>>]]]
  /\ UNCHANGED <<orderVars, page, user, current, socket, inbox, shown, fetched, drops, missed>>

OrdersFetched(t, f) ==
  /\ fetch[t][f].at = "answered"
  /\ shown' = [shown EXCEPT ![t] = fetch[t][f].orders]
  /\ missed' = [missed EXCEPT ![t] = fetch[t][f].overlap]
  /\ fetch' = [fetch EXCEPT ![t][f] = NoFetch]
  /\ UNCHANGED <<orderVars, page, user, current, socket, inbox, fetched, drops>>

----------------------------------------------------------------------------
ServerStep ==
  /\ \/ \E o \in Orders : CreateOrder(o) \/ FailCreation(o)
     \/ \E c \in Changes :
          \/ \E o \in Orders, to \in Status : FindOrder(c, o, to)
          \/ SaveStatus(c)
          \/ RecordStatus(c)
          \/ FailChange(c)
  /\ UNCHANGED tabVars

Next ==
  \/ ServerStep
  \/ \E o \in Orders : EmitOrderNew(o)
  \/ \E c \in Changes : EmitOrderUpdated(c)
  \/ ServerCrash
  \/ \E t \in Tabs :
       \/ LoadPage(t) \/ LogIn(t) \/ ProfileLoaded(t) \/ MountLayout(t)
       \/ \E i \in Sockets :
            SocketConnects(t, i) \/ JoinTenant(t, i) \/ SocketDrops(t, i) \/ HandleEvent(t, i)
       \/ \E f \in Fetches : FetchOrders(t, f) \/ FindOrders(t, f) \/ OrdersFetched(t, f)

Spec == Init /\ [][Next]_vars

----------------------------------------------------------------------------
Event == [kind : {"new", "updated"}, order : Orders, status : Status]

TypeOK ==
  /\ OrderTypeOK
  /\ page \in [Tabs -> {"closed", "guarded", "entering", "open"}]
  /\ user \in [Tabs -> BOOLEAN]
  /\ current \in [Tabs -> {0} \cup Sockets]
  /\ socket \in [Tabs -> [Sockets -> [link : {"none", "connecting", "up"}, joined : BOOLEAN,
                                      join : {"no", "kept", "sent"}]]]
  /\ inbox \in [Tabs -> [Sockets -> Seq(Event)]]
  /\ shown \in [Tabs -> [Orders -> Seq(Status)]]
  /\ \A t \in Tabs, f \in Fetches : fetch[t][f].at \in {"idle", "asked", "answered"}
  /\ fetched \in [Tabs -> 0 .. MaxFetches]
  /\ drops \in 0 .. MaxDrops
  /\ missed \in [Tabs -> SUBSET Orders]

(* Nothing is on its way to the tab. *)
Quiet(t) ==
  /\ \A i \in Sockets : inbox[t][i] = <<>>
  /\ \A f \in Fetches : fetch[t][f].at = "idle"
  /\ \A o \in Orders : ~Busy(o)

(* Once nothing is on its way to it, a tab shows each order once and as it *)
(* is stored - unless the order's last change was announced while the tab  *)
(* was in no room or lost its connection, or was made or announced while   *)
(* an answer to a fetch was on its way, or overlapped another, or failed.  *)
(* (stores/orders.ts:14-43 merges answers and events without comparing     *)
(* them; composables/useSocket.ts:11-36 may make two sockets.)             *)
ShownIsStored ==
  \A t \in Tabs : Quiet(t) =>
    \A o \in Orders \ (missed[t] \cup overlapped \cup broken) :
      shown[t][o] = IF status[o] = None THEN <<>> ELSE <<status[o]>>
=============================================================================
